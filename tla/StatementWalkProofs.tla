------------------------ MODULE StatementWalkProofs ------------------------
(***************************************************************************)
(* Proofs about StatementWalk: a captured statement is whole, for any page *)
(* size and cap, any statement the bank opens with and wherever it books   *)
(* movements while the walk is under way; and the names of its movements   *)
(* are those of the taxonomy captured last, whatever taxonomies come.      *)
(* What is captured is finite, so that its dividends have a sum: sums over *)
(* finite sets, and the dividends made of finitely many movements.         *)
(***************************************************************************)
EXTENDS StatementWalk, Dividends, FiniteSetTheorems, WellFoundedInduction, TLAPS

\* What the walk keeps from step to step.
Walked == WalkTypeOK /\ WalkInv

-----------------------------------------------------------------------------

\* Before the first refresh nothing stood and nothing is read.
LEMMA WalkInitInv == WalkInit => Walked
<1> SUFFICES ASSUME WalkInit PROVE Walked
    OBVIOUS
<1>1. book \in Seq(Row)
    BY WalkConstants DEF WalkInit
<1> QED
    BY <1>1 DEF WalkInit, Walked, WalkTypeOK, WalkInv, StoodStands, NothingSkipped,
                WalkedWhole, NoBalance

\* A movement that is booked withdraws no row and moves the rows behind it one
\* place back, so that none that stood can slip before the offset unread.
LEMMA BookKeeps == ASSUME Walked, Book PROVE Walked'
<1> USE DEF Walked, WalkTypeOK, WalkInv
<1>1. PICK row \in Row \ Rows(book), at \in 1..Len(book) + 1 :
        book' = [i \in 1..Len(book) + 1 |->
                    IF i < at THEN book[i] ELSE IF i = at THEN row ELSE book[i - 1]]
    BY DEF Book
<1>2. /\ Len(book) \in Nat /\ DOMAIN book = 1..Len(book)
      /\ \A i \in 1..Len(book) : book[i] \in Row
    OBVIOUS
<1>3. \A i \in 1..Len(book) + 1 : book'[i] \in Row
    BY <1>1, <1>2
<1>4. book' \in Seq(Row) /\ DOMAIN book' = 1..Len(book) + 1 /\ Len(book') = Len(book) + 1
    BY <1>1, <1>2, <1>3
<1>5. Rows(book) \subseteq Rows(book')
  <2> SUFFICES ASSUME NEW i \in 1..Len(book) PROVE book[i] \in Rows(book')
      BY <1>2 DEF Rows
  <2>1. CASE i < at
    <3>1. i \in DOMAIN book' /\ book'[i] = book[i]
        BY <2>1, <1>1, <1>2, <1>4
    <3> QED
        BY <3>1 DEF Rows
  <2>2. CASE i >= at
    <3>1. i + 1 \in DOMAIN book' /\ book'[i + 1] = book[i]
        BY <2>2, <1>1, <1>2, <1>4
    <3> QED
        BY <3>1 DEF Rows
  <2> QED
      BY <2>1, <2>2, <1>2
<1>6. StoodStands'
    BY <1>5 DEF Book, StoodStands
<1>7. NothingSkipped'
  <2> SUFFICES ASSUME phase = "paging", NEW i \in 1..offset, i \in DOMAIN book',
                      book'[i] \in stood \cap Identified
               PROVE  book'[i] \in seen
      BY DEF Book, NothingSkipped, walkVars
  <2>1. row \notin stood
      BY DEF StoodStands
  <2>2. CASE i < at
      BY <2>2, <1>1, <1>2, <1>4 DEF NothingSkipped
  <2>3. CASE i = at
      BY <2>3, <2>1, <1>1, <1>2, <1>4
  <2>4. CASE i > at
    <3>1. i - 1 \in 1..offset /\ i - 1 \in DOMAIN book /\ book'[i] = book[i - 1]
        BY <2>4, <1>1, <1>2, <1>4
    <3> QED
        BY <3>1 DEF NothingSkipped
  <2> QED
      BY <2>2, <2>3, <2>4, <1>1, <1>2
<1>8. WalkedWhole'
    BY DEF Book, WalkedWhole, walkVars
<1> QED
    BY <1>4, <1>6, <1>7, <1>8 DEF Book, walkVars, storeVars

-----------------------------------------------------------------------------

\* What a page adds: its rows are read, and the offset passes just these.
LEMMA PageKeeps ==
    ASSUME Walked, phase = "paging", NEW n \in 0..PageSize, Accumulate(n),
           UNCHANGED <<book, stood>>
    PROVE  /\ offset' \in Nat /\ pages' \in Nat /\ balance' \in Nat \union {NoBalance}
           /\ seen' \subseteq Identified /\ twice' \in BOOLEAN
           /\ \A i \in 1..offset' :
                i \in DOMAIN book /\ book[i] \in stood \cap Identified => book[i] \in seen'
<1> USE WalkConstants DEF Walked, WalkTypeOK, WalkInv
<1>1. n \in Nat /\ offset' = offset + n /\ offset' \in Nat /\ pages' \in Nat
    BY DEF Accumulate
<1>2. balance' \in Nat \union {NoBalance}
  <2>1. Len(book) \in Nat
      OBVIOUS
  <2> QED
      BY <2>1 DEF Accumulate
<1>3. seen' = seen \union (PageRows(n) \cap Identified)
    BY DEF Accumulate, Usable
<1>4. ASSUME NEW i \in 1..offset', i \in DOMAIN book, book[i] \in stood \cap Identified
      PROVE  book[i] \in seen'
  <2>1. CASE i <= offset
      BY <2>1, <1>1, <1>3, <1>4 DEF NothingSkipped
  <2>2. CASE i > offset
      BY <2>2, <1>1, <1>3, <1>4 DEF PageRows
  <2> QED
      BY <2>1, <2>2, <1>1
<1>5. twice' \in BOOLEAN
    BY DEF Accumulate
<1> QED
    BY <1>1, <1>2, <1>3, <1>4, <1>5

\* The page that ends the walk reaches the end of the statement.
LEMMA LastPageReachesEnd ==
    ASSUME Walked, NEW n \in 0..PageSize, NEW last \in BOOLEAN, last \/ n = 0, BankAnswers(n, last)
    PROVE  offset + n >= Len(book)
<1>1. n \in Nat /\ offset \in Nat /\ Len(book) \in Nat
    BY WalkConstants DEF Walked, WalkTypeOK
<1>2. CASE offset < Len(book)
  <2>1. Remaining = Len(book) - offset
      BY <1>2 DEF Remaining
  <2>2. Remaining \in Nat /\ Remaining > 0
      BY <2>1, <1>1, <1>2
  <2>3. n = Remaining
      BY <2>2, <1>1 DEF BankAnswers
  <2> QED
      BY <2>1, <2>3, <1>1
<1> QED
    BY <1>1, <1>2

\* A page that is not the last keeps what was read before it.
LEMMA ReadPageKeeps == ASSUME Walked, ReadPage PROVE Walked'
<1>1. PICK n \in 1..PageSize : BankAnswers(n, FALSE) /\ Accumulate(n)
    BY DEF ReadPage
<1>2. n \in 0..PageSize
    BY WalkConstants
<1>3. /\ phase = "paging" /\ phase' \in {"idle", "paging"}
      /\ UNCHANGED <<book, stood, statement>>
    BY DEF ReadPage, bankVars, storeVars
<1>4. /\ offset' \in Nat /\ pages' \in Nat /\ balance' \in Nat \union {NoBalance}
      /\ seen' \subseteq Identified /\ twice' \in BOOLEAN
      /\ \A i \in 1..offset' :
           i \in DOMAIN book /\ book[i] \in stood \cap Identified => book[i] \in seen'
    BY <1>1, <1>2, <1>3, PageKeeps
<1>5. WalkTypeOK'
    BY <1>3, <1>4 DEF Walked, WalkTypeOK
<1>6. StoodStands' /\ NothingSkipped' /\ WalkedWhole'
    BY <1>3, <1>4 DEF Walked, WalkInv, StoodStands, NothingSkipped, WalkedWhole
<1> QED
    BY <1>5, <1>6 DEF Walked, WalkInv

\* The last page completes what stood when the walk began.
LEMMA ReadLastPageKeeps == ASSUME Walked, ReadLastPage PROVE Walked'
<1>1. PICK n \in 0..PageSize, last \in BOOLEAN :
        (last \/ n = 0) /\ BankAnswers(n, last) /\ Accumulate(n)
    BY DEF ReadLastPage
<1>2. /\ phase = "paging" /\ phase' = "taxonomy"
      /\ UNCHANGED <<book, stood, statement>>
    BY DEF ReadLastPage, bankVars, storeVars
<1>3. /\ offset' \in Nat /\ pages' \in Nat /\ balance' \in Nat \union {NoBalance}
      /\ seen' \subseteq Identified /\ twice' \in BOOLEAN
      /\ \A i \in 1..offset' :
           i \in DOMAIN book /\ book[i] \in stood \cap Identified => book[i] \in seen'
    BY <1>1, <1>2, PageKeeps
<1>4. offset' >= Len(book) /\ offset' \in Nat
    BY <1>1, <1>3, LastPageReachesEnd DEF Accumulate
<1>5. WalkTypeOK'
    BY <1>2, <1>3 DEF Walked, WalkTypeOK
<1>6. stood \cap Identified \subseteq seen'
  <2> SUFFICES ASSUME NEW r \in stood \cap Identified PROVE r \in seen'
      OBVIOUS
  <2>1. PICK i \in DOMAIN book : book[i] = r
      BY <1>2 DEF Walked, WalkInv, StoodStands, Rows
  <2>2. i \in 1..offset'
      BY <2>1, <1>4 DEF Walked, WalkTypeOK
  <2> QED
      BY <2>1, <2>2, <1>3
<1>7. StoodStands' /\ NothingSkipped' /\ WalkedWhole'
    BY <1>2, <1>6 DEF Walked, WalkInv, StoodStands, NothingSkipped, WalkedWhole
<1> QED
    BY <1>5, <1>7 DEF Walked, WalkInv

-----------------------------------------------------------------------------

\* A walk starts with all it has to read before it.
LEMMA StartKeeps == ASSUME Walked, StartWalk PROVE Walked'
<1>1. Rows(book) \subseteq Row
    BY DEF Walked, WalkTypeOK, Rows
<1>2. WalkTypeOK'
    BY <1>1 DEF StartWalk, Walked, WalkTypeOK, bankVars, storeVars
<1>3. StoodStands' /\ WalkedWhole'
    BY DEF StartWalk, StoodStands, WalkedWhole, bankVars, Rows
<1>4. NothingSkipped'
    BY DEF StartWalk, NothingSkipped
<1> QED
    BY <1>2, <1>3, <1>4 DEF Walked, WalkInv

\* Every step keeps the invariant of the walk.
LEMMA WalkStepInv == Walked /\ [WalkNext]_statementVars => Walked'
<1> SUFFICES ASSUME Walked, [WalkNext]_statementVars PROVE Walked'
    OBVIOUS
<1> USE DEF bankVars, walkVars, storeVars
<1>1. CASE Book
    BY <1>1, BookKeeps
<1>2. CASE StartWalk
    BY <1>2, StartKeeps
<1>3. CASE ReadPage
    BY <1>3, ReadPageKeeps
<1>4. CASE ReadLastPage
    BY <1>4, ReadLastPageKeeps
<1>5. CASE PageFails
    BY <1>5 DEF PageFails, Walked, WalkTypeOK, WalkInv, StoodStands, NothingSkipped, WalkedWhole
<1>6. CASE FetchTaxonomy
    BY <1>6 DEF FetchTaxonomy, Walked, WalkTypeOK, WalkInv, StoodStands, NothingSkipped, WalkedWhole
<1>7. CASE CaptureStatement
    BY <1>7 DEF CaptureStatement, Walked, WalkTypeOK, WalkInv, StoodStands, NothingSkipped, WalkedWhole
<1>8. CASE CaptureFails
    BY <1>8 DEF CaptureFails, Walked, WalkTypeOK, WalkInv, StoodStands, NothingSkipped, WalkedWhole
<1>9. CASE CaptureNames
    BY <1>9 DEF CaptureNames, Walked, WalkTypeOK, WalkInv, StoodStands, NothingSkipped, WalkedWhole
<1>10. CASE KeepNames
    BY <1>10 DEF KeepNames, Walked, WalkTypeOK, WalkInv, StoodStands, NothingSkipped, WalkedWhole
<1>11. CASE WalkCrash
    BY <1>11 DEF WalkCrash, Walked, WalkTypeOK, WalkInv, StoodStands, NothingSkipped, WalkedWhole
<1>12. CASE UNCHANGED statementVars
    BY <1>12 DEF statementVars, Walked, WalkTypeOK, WalkInv, StoodStands, NothingSkipped, WalkedWhole
<1> QED
    BY <1>1, <1>2, <1>3, <1>4, <1>5, <1>6, <1>7, <1>8, <1>9, <1>10, <1>11, <1>12
    DEF WalkNext, RefreshStep

\* The invariant of the walk: no row that stood at its start is before the
\* offset and unread, and a walk that has ended has read them all.
THEOREM WalkInvariant == WalkSpec => []Walked
<1> QED
    BY WalkInitInv, WalkStepInv, PTL DEF WalkSpec

\* A step captures only a walk that has ended.
LEMMA CapturesWhole ==
    ASSUME Walked, [WalkNext]_statementVars, statement' # statement
    PROVE  stood \cap Identified \subseteq statement'.rows
<1>1. CASE CaptureStatement
    BY <1>1 DEF CaptureStatement, Walked, WalkInv, WalkedWhole
<1>2. CASE ~CaptureStatement
  <2>1. statement' = statement
      BY <1>2 DEF WalkNext, RefreshStep, Book, StartWalk, ReadPage, ReadLastPage, PageFails,
                  FetchTaxonomy, CaptureFails, CaptureNames, KeepNames, WalkCrash, statementVars,
                  storeVars
  <2> QED
      BY <2>1
<1> QED
    BY <1>1, <1>2

\* Every statement captured holds all the movements with an id that the bank
\* had when its walk began (fetch_movement_pages, capture_movements), for any
\* page size, cap and way the bank cuts the pages and books meanwhile.
THEOREM CapturedStatementIsWhole == WalkSpec => StatementIsWhole
<1>1. Walked /\ [WalkNext]_statementVars
        => [statement' # statement => stood \cap Identified \subseteq statement'.rows]_statementVars
    BY CapturesWhole
<1> QED
    BY <1>1, WalkInvariant, PTL DEF WalkSpec, StatementIsWhole

-----------------------------------------------------------------------------
(* The names of the categories.                                            *)

\* The category of a taxonomy has one row of its own.
LEMMA OwnRow ==
    ASSUME NEW tree, NEW c, NEW r
    PROVE  (r \in ToCategoryRows(tree) /\ r.category = c /\ r.subcategory = NoText)
             <=> c \in DOMAIN tree \ {NoText} /\ r = CategoryRow(c, NoText, tree[c].name)
<1>1. ASSUME r \in ToCategoryRows(tree), r.category = c, r.subcategory = NoText
      PROVE  c \in DOMAIN tree \ {NoText} /\ r = CategoryRow(c, NoText, tree[c].name)
  <2>1. CASE \E d \in DOMAIN tree \ {NoText} : r = CategoryRow(d, NoText, tree[d].name)
      BY <1>1, <2>1 DEF CategoryRow
  <2>2. ASSUME NEW d \in DOMAIN tree \ {NoText}, NEW t \in DOMAIN tree[d].subs \ {NoText},
               r = CategoryRow(d, t, tree[d].subs[t])
        PROVE  FALSE
      BY <1>1, <2>2 DEF CategoryRow
  <2> QED
      BY <1>1, <2>1, <2>2 DEF ToCategoryRows
<1>2. ASSUME c \in DOMAIN tree \ {NoText}, r = CategoryRow(c, NoText, tree[c].name)
      PROVE  r \in ToCategoryRows(tree) /\ r.category = c /\ r.subcategory = NoText
  <2>1. r \in ToCategoryRows(tree)
      BY <1>2 DEF ToCategoryRows
  <2>2. r.category = c /\ r.subcategory = NoText
      BY <1>2 DEF CategoryRow
  <2> QED
      BY <2>1, <2>2
<1> QED
    BY <1>1, <1>2

\* A subcategory has one row under each parent.
LEMMA SubRow ==
    ASSUME NEW tree, NEW c, NEW s, s # NoText, NEW r
    PROVE  (r \in ToCategoryRows(tree) /\ r.category = c /\ r.subcategory = s)
             <=> /\ c \in DOMAIN tree \ {NoText} /\ s \in DOMAIN tree[c].subs
                 /\ r = CategoryRow(c, s, tree[c].subs[s])
<1>1. ASSUME r \in ToCategoryRows(tree), r.category = c, r.subcategory = s
      PROVE  /\ c \in DOMAIN tree \ {NoText} /\ s \in DOMAIN tree[c].subs
             /\ r = CategoryRow(c, s, tree[c].subs[s])
  <2>1. ASSUME NEW d \in DOMAIN tree \ {NoText}, r = CategoryRow(d, NoText, tree[d].name)
        PROVE  FALSE
      BY <1>1, <2>1 DEF CategoryRow
  <2>2. CASE \E d \in DOMAIN tree \ {NoText} : \E t \in DOMAIN tree[d].subs \ {NoText} :
               r = CategoryRow(d, t, tree[d].subs[t])
      BY <1>1, <2>2 DEF CategoryRow
  <2> QED
      BY <1>1, <2>1, <2>2 DEF ToCategoryRows
<1>2. ASSUME c \in DOMAIN tree \ {NoText}, s \in DOMAIN tree[c].subs,
             r = CategoryRow(c, s, tree[c].subs[s])
      PROVE  r \in ToCategoryRows(tree) /\ r.category = c /\ r.subcategory = s
  <2>1. r \in ToCategoryRows(tree)
      BY <1>2 DEF ToCategoryRows
  <2>2. r.category = c /\ r.subcategory = s
      BY <1>2 DEF CategoryRow
  <2> QED
      BY <2>1, <2>2
<1> QED
    BY <1>1, <1>2

\* The name in rows that are one row at most.
LEMMA OneName ==
    ASSUME NEW rows, NEW given \in BOOLEAN, NEW row,
           \A r : r \in rows <=> given /\ r = row /\ r.name # NoText
    PROVE  NameIn(rows) = IF given THEN row.name ELSE NoText
<1>1. CASE given /\ row.name # NoText
  <2>1. rows = {row}
      BY <1>1
  <2> QED
      BY <1>1, <2>1 DEF NameIn
<1>2. CASE ~(given /\ row.name # NoText)
  <2>1. rows = {}
      BY <1>2
  <2> QED
      BY <1>2, <2>1 DEF NameIn
<1> QED
    BY <1>1, <1>2

\* The names resolved with the rows of a taxonomy are those it gives.
LEMMA RowsTellNames ==
    ASSUME NEW tree, NEW c, NEW s
    PROVE  LET known == DOMAIN tree \ {NoText}
           IN Names(ToCategoryRows(tree), c, s) =
                [categoria |-> IF c \in known THEN tree[c].name ELSE NoText,
                 sottocategoria |->
                     IF c \in known /\ s # NoText /\ s \in DOMAIN tree[c].subs
                     THEN tree[c].subs[s] ELSE NoText]
<1> DEFINE known == DOMAIN tree \ {NoText}
           rows == ToCategoryRows(tree)
<1>1. CategoryName(rows, c) = IF c \in known THEN tree[c].name ELSE NoText
  <2> DEFINE own == {r \in Named(rows) : r.category = c /\ r.subcategory = NoText}
             row == CategoryRow(c, NoText, tree[c].name)
  <2>1. \A r : r \in own <=> (c \in known) /\ r = row /\ r.name # NoText
      BY OwnRow DEF Named
  <2>2. row.name = tree[c].name
      BY DEF CategoryRow
  <2> HIDE DEF own, row, known
  <2>3. NameIn(own) = IF c \in known THEN row.name ELSE NoText
      BY <2>1, OneName
  <2> QED
      BY <2>2, <2>3 DEF own, CategoryName
<1>2. ASSUME s # NoText
      PROVE  SubcategoryName(rows, c, s) =
               IF c \in known /\ s \in DOMAIN tree[c].subs THEN tree[c].subs[s] ELSE NoText
  <2> DEFINE own == {r \in Named(rows) : r.category = c /\ r.subcategory = s}
             row == CategoryRow(c, s, tree[c].subs[s])
             given == c \in known /\ s \in DOMAIN tree[c].subs
  <2>1. \A r : r \in own <=> given /\ r = row /\ r.name # NoText
      BY <1>2, SubRow DEF Named
  <2>2. row.name = tree[c].subs[s]
      BY DEF CategoryRow
  <2>3. given \in BOOLEAN
      OBVIOUS
  <2> HIDE DEF own, row, given
  <2>4. NameIn(own) = IF given THEN row.name ELSE NoText
      BY <2>1, <2>3, OneName
  <2> QED
      BY <1>2, <2>2, <2>4 DEF own, given, SubcategoryName
<1>3. c = NoText => c \notin known
    OBVIOUS
<1> HIDE DEF known, rows
<1> QED
    BY <1>1, <1>2, <1>3 DEF Names, SubcategoryName, known, rows

\* The names captured are the rows of the taxonomy told of.
NamesAreTold == names = ToCategoryRows(told)

\* The names in force are those of the last taxonomy captured (capture_categories,
\* latest_categories): for any taxonomies the bank sends, any it does not, and any
\* that are not captured.
THEOREM NamesAreInForce == WalkSpec => []NamesFollowTaxonomy
<1>1. WalkInit => NamesAreTold
    BY DEF WalkInit, NamesAreTold, NoNames, ToCategoryRows
<1>2. NamesAreTold /\ [WalkNext]_statementVars => NamesAreTold'
  <2> SUFFICES ASSUME NamesAreTold, [WalkNext]_statementVars PROVE NamesAreTold'
      OBVIOUS
  <2>1. CASE CaptureNames
      BY <2>1 DEF CaptureNames, NamesAreTold
  <2>2. CASE UNCHANGED <<names, told>>
      BY <2>2 DEF NamesAreTold
  <2> QED
      BY <2>1, <2>2 DEF WalkNext, RefreshStep, Book, StartWalk, ReadPage, ReadLastPage, PageFails,
                        FetchTaxonomy, CaptureStatement, CaptureFails, KeepNames, WalkCrash,
                        statementVars, storeVars
<1>3. NamesAreTold => NamesFollowTaxonomy
    BY RowsTellNames DEF NamesAreTold, NamesFollowTaxonomy
<1> QED
    BY <1>1, <1>2, <1>3, PTL DEF WalkSpec

-----------------------------------------------------------------------------
(* What is captured is finite.                                             *)

Finite == IsFiniteSet(seen) /\ IsFiniteSet(statement.rows)

\* A page has only so many rows.
LEMMA PageIsFinite ==
    ASSUME WalkTypeOK, NEW n \in Nat
    PROVE  IsFiniteSet(PageRows(n))
<1> DEFINE places == offset + 1 .. offset + n
           f == [i \in places |-> book[i]]
<1>1. IsFiniteSet(places)
    BY FS_Interval DEF WalkTypeOK
<1>2. f \in Surjection(places, PageRows(n))
    BY DEF Surjection, PageRows
<1> HIDE DEF f, places
<1> QED
    BY <1>1, <1>2, FS_Surjection

\* Page by page, and capture by capture, it stays so.
LEMMA FiniteKept == WalkTypeOK /\ Finite /\ [WalkNext]_statementVars => Finite'
<1> SUFFICES ASSUME WalkTypeOK, Finite, [WalkNext]_statementVars PROVE Finite'
    OBVIOUS
<1>1. ASSUME NEW n \in Nat, Accumulate(n), UNCHANGED statement PROVE Finite'
  <2>1. IsFiniteSet(PageRows(n))
      BY <1>1, PageIsFinite
  <2>2. IsFiniteSet(PageRows(n) \cap Identified)
      BY <2>1, FS_Intersection
  <2>3. seen' = seen \union (PageRows(n) \cap Identified)
      BY <1>1 DEF Accumulate, Usable
  <2> QED
      BY <1>1, <2>2, <2>3, FS_Union DEF Finite
<1>2. CASE ReadPage
  <2>1. PICK n \in 1..PageSize : Accumulate(n)
      BY <1>2 DEF ReadPage
  <2> QED
      BY <1>1, <1>2, <2>1 DEF ReadPage, storeVars
<1>3. CASE ReadLastPage
  <2>1. PICK n \in 0..PageSize : Accumulate(n)
      BY <1>3 DEF ReadLastPage
  <2> QED
      BY <1>1, <1>3, <2>1 DEF ReadLastPage, storeVars
<1>4. CASE StartWalk
    BY <1>4, FS_EmptySet DEF StartWalk, Finite, storeVars
<1>5. CASE CaptureStatement
    BY <1>5 DEF CaptureStatement, Finite, walkVars
<1>6. CASE UNCHANGED <<seen, statement>>
    BY <1>6 DEF Finite
<1> QED
    BY <1>2, <1>3, <1>4, <1>5, <1>6
       DEF WalkNext, RefreshStep, Book, PageFails, FetchTaxonomy, CaptureFails, CaptureNames,
           KeepNames, WalkCrash, statementVars, walkVars, storeVars

\* The rows captured are finitely many movements that have an id.
THEOREM CapturedIsFinite == WalkSpec => [](WalkTypeOK /\ Finite)
<1>1. WalkInit => Finite
    BY FS_EmptySet DEF WalkInit, Finite
<1>2. Walked => WalkTypeOK
    BY DEF Walked
<1> QED
    BY <1>1, <1>2, FiniteKept, WalkInvariant, PTL DEF WalkSpec

-----------------------------------------------------------------------------
(* Sums over finite sets, whose order does not matter.                     *)

\* A set of numbers that is not empty has a least one.
LEMMA LeastNumber ==
    ASSUME NEW S, S \subseteq Nat, S # {}
    PROVE  \E x \in S : \A y \in S : x <= y
<1> DEFINE less == OpToRel(<, Nat)
<1>1. \A x, y \in Nat : x < y => <<x, y>> \in less
    BY DEF OpToRel
<1>2. \E x \in S : \A y \in S : ~(<<y, x>> \in less)
  <2> HIDE DEF less
  <2>1. IsWellFoundedOn(less, Nat)
      BY NatLessThanWellFounded DEF less
  <2> QED
      BY <2>1, WFMin
<1> HIDE DEF less
<1>3. PICK x \in S : \A y \in S : ~(<<y, x>> \in less)
    BY <1>2
<1>4. \A y \in S : x <= y
  <2> TAKE y \in S
  <2>1. ~(y < x) /\ x \in Nat /\ y \in Nat
      BY <1>1, <1>3
  <2> QED
      BY <2>1
<1> QED
    BY <1>4

\* Among finite sets there is a smallest one.
LEMMA SmallestIn ==
    ASSUME NEW F, F # {}, \A s \in F : IsFiniteSet(s)
    PROVE  \E s \in F : \A t \in F : Cardinality(s) <= Cardinality(t)
<1> DEFINE sizes == {Cardinality(s) : s \in F}
<1>1. sizes \subseteq Nat /\ sizes # {}
    BY FS_CardinalityType
<1>2. \E m \in sizes : \A n \in sizes : m <= n
  <2> HIDE DEF sizes
  <2> QED
    BY <1>1, LeastNumber
<1> QED
    BY <1>2

\* Leaving out an element leaves a smaller set.
LEMMA OneLess ==
    ASSUME NEW s, IsFiniteSet(s), NEW x \in s
    PROVE  /\ IsFiniteSet(s \ {x}) /\ ~(Cardinality(s) <= Cardinality(s \ {x}))
           /\ Cardinality(s) \in Nat /\ Cardinality(s \ {x}) \in Nat
           /\ Cardinality(s \ {x}) = Cardinality(s) - 1
<1>1. IsFiniteSet(s \ {x}) /\ Cardinality(s \ {x}) = Cardinality(s) - 1
    BY FS_RemoveElement
<1>2. Cardinality(s) \in Nat /\ Cardinality(s \ {x}) \in Nat
    BY <1>1, FS_CardinalityType
<1> QED
    BY <1>1, <1>2

\* The element a sum begins with, and the equation of the sums of the parts of S.
Pick(s) == CHOOSE x \in s : TRUE
Peel(f, S, h) == [s \in SUBSET S |-> IF s = {} THEN 0 ELSE f[Pick(s)] + h[s \ {Pick(s)}]]

\* The library sums with the function that the equation defines.
LEMMA SumIs ==
    ASSUME NEW f, NEW S
    PROVE  SumFunctionOnSet(f, S) = (CHOOSE h : h = Peel(f, S, h))[S]
    BY DEF SumFunctionOnSet, FoldFunctionOnSet, MapThenFoldSet, Peel, Pick

\* A sum begins with an element.
LEMMA PickIsIn == ASSUME NEW s, s # {} PROVE Pick(s) \in s
    BY DEF Pick

\* h adds up the sets of up to n elements.
SumsUpTo(f, S, n, h) ==
    /\ h \in [SUBSET S -> Int]
    /\ \A s \in SUBSET S : Cardinality(s) <= n => h[s] = Peel(f, S, h)[s]

\* The equation has integers of integers.
LEMMA PeelIsInt ==
    ASSUME NEW S, NEW f \in [S -> Int], NEW h \in [SUBSET S -> Int]
    PROVE  Peel(f, S, h) \in [SUBSET S -> Int]
<1>1. ASSUME NEW s \in SUBSET S, s # {} PROVE f[Pick(s)] + h[s \ {Pick(s)}] \in Int
  <2>1. Pick(s) \in S
      BY <1>1, PickIsIn
  <2>2. f[Pick(s)] \in Int
      BY <2>1
  <2>3. h[s \ {Pick(s)}] \in Int
      OBVIOUS
  <2> QED
      BY <2>2, <2>3
<1> QED
    BY <1>1 DEF Peel

\* There are such sums, of any number of elements.
LEMMA SumsExist ==
    ASSUME NEW S, IsFiniteSet(S), NEW f \in [S -> Int], NEW n \in Nat
    PROVE  \E h : SumsUpTo(f, S, n, h)
<1> DEFINE Bad == {m \in Nat : ~ \E h : SumsUpTo(f, S, m, h)}
<1>1. \A s \in SUBSET S : IsFiniteSet(s)
    BY FS_Subset
<1> SUFFICES ASSUME Bad # {} PROVE FALSE
    OBVIOUS
<1>2. PICK m \in Bad : \A k \in Bad : m <= k
  <2>1. Bad \subseteq Nat
      OBVIOUS
  <2> HIDE DEF Bad
  <2> QED
      BY <2>1, LeastNumber
<1>3. m # 0
  <2> DEFINE h == [s \in SUBSET S |-> 0]
  <2>1. \A s \in SUBSET S : Cardinality(s) <= 0 => s = {}
      BY <1>1, FS_EmptySet, FS_CardinalityType
  <2>2. SumsUpTo(f, S, 0, h)
    <3>1. h \in [SUBSET S -> Int]
        OBVIOUS
    <3>2. ASSUME NEW s \in SUBSET S, Cardinality(s) <= 0 PROVE h[s] = Peel(f, S, h)[s]
        BY <2>1, <3>2 DEF Peel
    <3> QED
        BY <3>1, <3>2 DEF SumsUpTo
  <2> QED
      BY <1>2, <2>2
<1>4. m - 1 \in Nat
    BY <1>2, <1>3
<1>5. m - 1 \notin Bad
    BY <1>2, <1>4
<1>6. PICK h : SumsUpTo(f, S, m - 1, h)
    BY <1>4, <1>5
<1> DEFINE k == Peel(f, S, h)
<1>7. h \in [SUBSET S -> Int] /\ k \in [SUBSET S -> Int]
    BY <1>6, PeelIsInt DEF SumsUpTo
<1>8. ASSUME NEW s \in SUBSET S, Cardinality(s) <= m PROVE k[s] = Peel(f, S, k)[s]
  <2>1. CASE s = {}
      BY <2>1 DEF Peel
  <2>2. CASE s # {}
    <3> DEFINE x == Pick(s)
    <3>1. x \in s
        BY <2>2, PickIsIn
    <3>2. Cardinality(s \ {x}) <= m - 1
        BY <1>1, <1>2, <1>8, <3>1, OneLess
    <3>3. h[s \ {x}] = k[s \ {x}]
        BY <1>6, <3>2 DEF SumsUpTo
    <3>4. k[s] = f[x] + h[s \ {x}]
        BY <2>2 DEF Peel
    <3>5. Peel(f, S, k)[s] = f[x] + k[s \ {x}]
      <4> HIDE DEF k
      <4> QED
        BY <2>2 DEF Peel
    <3> QED
        BY <3>3, <3>4, <3>5
  <2> QED
      BY <2>1, <2>2
<1>9. SumsUpTo(f, S, m, k)
  <2> HIDE DEF k
  <2> QED
    BY <1>7, <1>8 DEF SumsUpTo
<1> QED
    BY <1>2, <1>9

\* The sums of the parts of S.
Adding(f, S) == CHOOSE h : h = Peel(f, S, h)

\* They meet their equation.
LEMMA AddingPeels ==
    ASSUME NEW S, IsFiniteSet(S), NEW f \in [S -> Int]
    PROVE  Adding(f, S) = Peel(f, S, Adding(f, S))
<1>1. Cardinality(S) \in Nat
    BY FS_CardinalityType
<1>2. PICK h : SumsUpTo(f, S, Cardinality(S), h)
    BY <1>1, SumsExist
<1>3. \A s \in SUBSET S : h[s] = Peel(f, S, h)[s]
    BY <1>2, FS_Subset DEF SumsUpTo
<1>4. h \in [SUBSET S -> Int] /\ Peel(f, S, h) \in [SUBSET S -> Int]
    BY <1>2, PeelIsInt DEF SumsUpTo
<1>5. h = Peel(f, S, h)
    BY <1>3, <1>4
<1> QED
    BY <1>5 DEF Adding

\* Two sums agree on the sets on which their functions do.
LEMMA SumsAgree ==
    ASSUME NEW S, NEW T, NEW f, NEW g, NEW h, NEW k, h = Peel(f, S, h), k = Peel(g, T, k),
           NEW s \in SUBSET (S \cap T), IsFiniteSet(s), \A x \in s : f[x] = g[x]
    PROVE  h[s] = k[s]
<1> DEFINE Bad == {t \in SUBSET s : h[t] # k[t]}
<1>1. \A t \in SUBSET s : IsFiniteSet(t)
    BY FS_Subset
<1> SUFFICES ASSUME Bad # {} PROVE FALSE
    OBVIOUS
<1>2. PICK t \in Bad : \A u \in Bad : Cardinality(t) <= Cardinality(u)
  <2>1. \A u \in Bad : IsFiniteSet(u)
    BY <1>1
  <2> HIDE DEF Bad
  <2> QED
    BY <2>1, SmallestIn
<1>3. /\ h[t] = IF t = {} THEN 0 ELSE f[Pick(t)] + h[t \ {Pick(t)}]
      /\ k[t] = IF t = {} THEN 0 ELSE g[Pick(t)] + k[t \ {Pick(t)}]
  <2>1. t \in SUBSET S /\ t \in SUBSET T
      OBVIOUS
  <2>2. h[t] = Peel(f, S, h)[t] /\ k[t] = Peel(g, T, k)[t]
      OBVIOUS
  <2>3. /\ Peel(f, S, h)[t] = IF t = {} THEN 0 ELSE f[Pick(t)] + h[t \ {Pick(t)}]
        /\ Peel(g, T, k)[t] = IF t = {} THEN 0 ELSE g[Pick(t)] + k[t \ {Pick(t)}]
      BY <2>1 DEF Peel
  <2> QED
      BY <2>2, <2>3
<1>4. t # {}
    BY <1>2, <1>3
<1>5. Pick(t) \in t
    BY <1>4, PickIsIn
<1>6. t \ {Pick(t)} \notin Bad
    BY <1>1, <1>2, <1>5, OneLess
<1>7. h[t \ {Pick(t)}] = k[t \ {Pick(t)}]
    BY <1>6
<1> QED
    BY <1>2, <1>3, <1>4, <1>5, <1>7

\* A finite sum of integers is one.
LEMMA SumIsInt ==
    ASSUME NEW S, IsFiniteSet(S), NEW f \in [S -> Int]
    PROVE  /\ Adding(f, S) \in [SUBSET S -> Int]
           /\ SumFunctionOnSet(f, S) = Adding(f, S)[S]
           /\ SumFunctionOnSet(f, S) \in Int
<1>1. Cardinality(S) \in Nat
    BY FS_CardinalityType
<1>2. PICK h : SumsUpTo(f, S, Cardinality(S), h)
    BY <1>1, SumsExist
<1>3. \A s \in SUBSET S : h[s] = Peel(f, S, h)[s]
    BY <1>2, FS_Subset DEF SumsUpTo
<1>4. h \in [SUBSET S -> Int] /\ Peel(f, S, h) \in [SUBSET S -> Int]
    BY <1>2, PeelIsInt DEF SumsUpTo
<1>5. h = Peel(f, S, h)
    BY <1>3, <1>4
<1> DEFINE k == Adding(f, S)
<1>6. k = Peel(f, S, k)
    BY AddingPeels
<1>7. DOMAIN k = SUBSET S /\ k = [s \in SUBSET S |-> k[s]]
  <2> HIDE DEF k
  <2> QED
    BY <1>6 DEF Peel
<1>8. \A s \in SUBSET S : h[s] = k[s]
  <2> HIDE DEF k
  <2> TAKE s \in SUBSET S
  <2>1. s \in SUBSET (S \cap S) /\ IsFiniteSet(s)
      BY FS_Subset
  <2> QED
      BY <1>5, <1>6, <2>1, SumsAgree
<1>9. k \in [SUBSET S -> Int]
  <2> HIDE DEF k
  <2> QED
    BY <1>4, <1>7, <1>8
<1>10. SumFunctionOnSet(f, S) = k[S]
    BY SumIs DEF Adding
<1> QED
    BY <1>9, <1>10

\* What is added up first does not matter.
LEMMA AnyComesFirst ==
    ASSUME NEW S, IsFiniteSet(S), NEW f \in [S -> Int]
    PROVE  \A s \in SUBSET S : \A x \in s : Adding(f, S)[s] = f[x] + Adding(f, S)[s \ {x}]
<1> DEFINE h == Adding(f, S)
           Bad == {s \in SUBSET S : \E x \in s : h[s] # f[x] + h[s \ {x}]}
<1>1. \A s \in SUBSET S : IsFiniteSet(s)
    BY FS_Subset
<1>2. h = Peel(f, S, h) /\ h \in [SUBSET S -> Int]
    BY AddingPeels, SumIsInt
<1> HIDE DEF h
<1> SUFFICES ASSUME Bad # {} PROVE FALSE
    BY DEF h
<1>3. PICK s \in Bad : \A u \in Bad : Cardinality(s) <= Cardinality(u)
  <2>1. \A u \in Bad : IsFiniteSet(u)
    BY <1>1
  <2> HIDE DEF Bad
  <2> QED
    BY <2>1, SmallestIn
<1>4. PICK x \in s : h[s] # f[x] + h[s \ {x}]
    OBVIOUS
<1> DEFINE p == Pick(s)
<1>5. p \in s
    BY <1>4, PickIsIn
<1>6. h[s] = f[p] + h[s \ {p}]
  <2>1. s # {} /\ s \in SUBSET S
      BY <1>4
  <2> HIDE DEF Bad
  <2> QED
    BY <1>2, <2>1 DEF Peel
<1> HIDE DEF p
<1>7. p # x
    BY <1>4, <1>6
<1>8. s \ {p} \notin Bad /\ s \ {x} \notin Bad
    BY <1>1, <1>3, <1>5, OneLess
<1>9. h[s \ {p}] = f[x] + h[(s \ {p}) \ {x}]
    BY <1>7, <1>8
<1>10. h[s \ {x}] = f[p] + h[(s \ {x}) \ {p}]
    BY <1>5, <1>7, <1>8
<1>11. (s \ {x}) \ {p} = (s \ {p}) \ {x} /\ (s \ {p}) \ {x} \in SUBSET S
    OBVIOUS
<1>12. f[x] \in Int /\ f[p] \in Int /\ h[(s \ {p}) \ {x}] \in Int
    BY <1>2, <1>5, <1>11
<1> DEFINE a == f[x]
           b == f[p]
           c == h[(s \ {p}) \ {x}]
<1>13. b + (a + c) = a + (b + c)
  <2> HIDE DEF a, b, c
  <2>1. a \in Int /\ b \in Int /\ c \in Int
      BY <1>12 DEF a, b, c
  <2> QED
      BY <2>1
<1> QED
    BY <1>4, <1>6, <1>9, <1>10, <1>11, <1>13

\* Nothing adds up to nothing.
LEMMA NothingAddsNothing ==
    ASSUME NEW S, IsFiniteSet(S), NEW f \in [S -> Int]
    PROVE  Adding(f, S)[{}] = 0
<1> DEFINE h == Adding(f, S)
<1>1. h = Peel(f, S, h)
    BY AddingPeels
<1> HIDE DEF h
<1>2. h[{}] = Peel(f, S, h)[{}] /\ {} \in SUBSET S
    BY <1>1
<1>3. Peel(f, S, h)[{}] = 0
    BY DEF Peel
<1>4. h[{}] = 0
    BY <1>2, <1>3
<1> QED
    BY <1>4 DEF h

\* The sum of a part.
LEMMA SumOfPart ==
    ASSUME NEW S, IsFiniteSet(S), NEW f \in [S -> Int], NEW T \in SUBSET S, NEW g \in [T -> Int],
           \A x \in T : f[x] = g[x]
    PROVE  Adding(f, S)[T] = SumFunctionOnSet(g, T)
<1>1. IsFiniteSet(T)
    BY FS_Subset
<1>2. T \in SUBSET (S \cap T)
    OBVIOUS
<1>3. Adding(f, S) = Peel(f, S, Adding(f, S)) /\ Adding(g, T) = Peel(g, T, Adding(g, T))
    BY <1>1, AddingPeels
<1>4. Adding(f, S)[T] = Adding(g, T)[T]
    BY <1>1, <1>2, <1>3, SumsAgree
<1> QED
    BY <1>1, <1>4, SumIsInt

\* The sum of two parts without a common element.
LEMMA SumOfTwo ==
    ASSUME NEW S, IsFiniteSet(S), NEW f \in [S -> Int], NEW A \in SUBSET S
    PROVE  \A B \in SUBSET (S \ A) : Adding(f, S)[A \union B] = Adding(f, S)[A] + Adding(f, S)[B]
<1> DEFINE h == Adding(f, S)
           Bad == {B \in SUBSET (S \ A) : h[A \union B] # h[A] + h[B]}
<1>1. \A s \in SUBSET S : IsFiniteSet(s)
    BY FS_Subset
<1>2. h \in [SUBSET S -> Int] /\ \A s \in SUBSET S : \A x \in s : h[s] = f[x] + h[s \ {x}]
  <2>1. h \in [SUBSET S -> Int]
      BY SumIsInt
  <2>2. \A s \in SUBSET S : \A x \in s : h[s] = f[x] + h[s \ {x}]
      BY AnyComesFirst
  <2> QED
      BY <2>1, <2>2
<1>3. h[{}] = 0
    BY NothingAddsNothing
<1> HIDE DEF h
<1> SUFFICES ASSUME Bad # {} PROVE FALSE
    BY DEF h
<1>4. PICK B \in Bad : \A u \in Bad : Cardinality(B) <= Cardinality(u)
  <2>1. \A u \in Bad : IsFiniteSet(u)
    BY <1>1
  <2> HIDE DEF Bad
  <2> QED
    BY <2>1, SmallestIn
<1>5. B # {}
  <2> SUFFICES ASSUME B = {} PROVE FALSE
      OBVIOUS
  <2>1. A \union B = A /\ h[A] \in Int
      BY <1>2
  <2>2. h[A \union B] = h[A] + h[B]
      BY <1>3, <2>1
  <2> QED
      BY <1>4, <2>2
<1>6. PICK x \in B : TRUE
    BY <1>5
<1>7. B \ {x} \notin Bad
    BY <1>1, <1>4, OneLess
<1>8. h[A \union (B \ {x})] = h[A] + h[B \ {x}]
    BY <1>7
<1>9. (A \union B) \ {x} = A \union (B \ {x}) /\ x \in A \union B
    OBVIOUS
<1>10. h[A \union B] = f[x] + h[A \union (B \ {x})] /\ h[B] = f[x] + h[B \ {x}]
  <2>1. A \union B \in SUBSET S /\ B \in SUBSET S
      OBVIOUS
  <2>2. h[A \union B] = f[x] + h[(A \union B) \ {x}]
      BY <1>2, <1>9, <2>1
  <2>3. h[B] = f[x] + h[B \ {x}]
      BY <1>2, <2>1
  <2> QED
      BY <1>9, <2>2, <2>3
<1>11. f[x] \in Int /\ h[A] \in Int /\ h[B \ {x}] \in Int
    BY <1>2
<1> DEFINE a == f[x]
           b == h[A]
           c == h[B \ {x}]
<1>12. a + (b + c) = b + (a + c)
  <2> HIDE DEF a, b, c
  <2>1. a \in Int /\ b \in Int /\ c \in Int
      BY <1>11 DEF a, b, c
  <2> QED
      BY <2>1
<1> QED
    BY <1>4, <1>8, <1>10, <1>12

\* Parts of which no two have a common element.
Apart(P, K) == \A i, j \in K : i # j => P[i] \cap P[j] = {}

Joined(P, K) == UNION {P[k] : k \in K}

\* The sum of the sums of parts, no two of which have a common element.
LEMMA SumOfParts ==
    ASSUME NEW S, IsFiniteSet(S), NEW f \in [S -> Int],
           NEW K, IsFiniteSet(K), NEW P \in [K -> SUBSET S], NEW g \in [K -> Int],
           Apart(P, K),
           \A k \in K : g[k] = Adding(f, S)[P[k]]
    PROVE  SumFunctionOnSet(g, K) = Adding(f, S)[Joined(P, K)]
<1> DEFINE h == Adding(f, S)
           e == Adding(g, K)
           All(J) == UNION {P[k] : k \in J}
           Bad == {J \in SUBSET K : e[J] # h[All(J)]}
<1>1. \A J \in SUBSET K : IsFiniteSet(J)
    BY FS_Subset
<1>2. /\ h \in [SUBSET S -> Int]
      /\ e \in [SUBSET K -> Int] /\ \A J \in SUBSET K : \A k \in J : e[J] = g[k] + e[J \ {k}]
  <2>1. h \in [SUBSET S -> Int]
      BY SumIsInt
  <2>2. e \in [SUBSET K -> Int]
      BY SumIsInt
  <2>3. \A J \in SUBSET K : \A k \in J : e[J] = g[k] + e[J \ {k}]
    <3> HIDE DEF h, All, Bad
    <3> TAKE J \in SUBSET K
    <3> TAKE k \in J
    <3>1. \A s \in SUBSET K : \A x \in s : Adding(g, K)[s] = g[x] + Adding(g, K)[s \ {x}]
        BY ONLY AnyComesFirst, IsFiniteSet(K), g \in [K -> Int]
    <3> QED
        BY <3>1
  <2> QED
      BY <2>1, <2>2, <2>3
<1>3. h[{}] = 0 /\ e[{}] = 0
    BY NothingAddsNothing
<1>4. \A A \in SUBSET S : \A B \in SUBSET (S \ A) : h[A \union B] = h[A] + h[B]
    BY SumOfTwo
<1>5. SumFunctionOnSet(g, K) = e[K]
    BY SumIsInt
<1>6. \A k \in K : g[k] = h[P[k]]
    OBVIOUS
<1>7. \A J \in SUBSET K : \A k \in J : All(J) = P[k] \union All(J \ {k}) /\ P[k] \cap All(J \ {k}) = {}
    BY DEF Apart
<1>8. \A J \in SUBSET K : All(J) \in SUBSET S
    OBVIOUS
<1>9. All({}) = {}
    OBVIOUS
<1> HIDE DEF h, e, All
<1> SUFFICES ASSUME Bad # {} PROVE FALSE
    BY <1>5 DEF All, h, Joined
<1>10. PICK J \in Bad : \A u \in Bad : Cardinality(J) <= Cardinality(u)
  <2>1. \A u \in Bad : IsFiniteSet(u)
    BY <1>1
  <2> HIDE DEF Bad
  <2> QED
    BY <2>1, SmallestIn
<1>11. J # {}
    BY <1>3, <1>9
<1>12. PICK k \in J : TRUE
    BY <1>11
<1>13. J \ {k} \notin Bad
    BY <1>1, <1>10, OneLess
<1>14. e[J \ {k}] = h[All(J \ {k})]
    BY <1>13
<1>15. P[k] \in SUBSET S /\ All(J \ {k}) \in SUBSET (S \ P[k]) /\ All(J) = P[k] \union All(J \ {k})
    BY <1>7, <1>8
<1>16. h[All(J)] = h[P[k]] + h[All(J \ {k})]
  <2>1. h[P[k] \union All(J \ {k})] = h[P[k]] + h[All(J \ {k})]
      BY <1>4, <1>15
  <2> QED
      BY <1>15, <2>1, Zenon
<1>17. e[J] = g[k] + e[J \ {k}]
    BY <1>2
<1> QED
    BY <1>6, <1>10, <1>14, <1>16, <1>17

\* The sum of the opposites.
LEMMA SumOfOpposites ==
    ASSUME NEW S, IsFiniteSet(S), NEW f \in [S -> Int], NEW g \in [S -> Int],
           \A x \in S : g[x] = -f[x]
    PROVE  SumFunctionOnSet(g, S) = -SumFunctionOnSet(f, S)
<1> DEFINE h == Adding(f, S)
           e == Adding(g, S)
           Bad == {T \in SUBSET S : e[T] # -h[T]}
<1>1. \A T \in SUBSET S : IsFiniteSet(T)
    BY FS_Subset
<1>2. /\ h \in [SUBSET S -> Int] /\ \A J \in SUBSET S : \A k \in J : h[J] = f[k] + h[J \ {k}]
      /\ e \in [SUBSET S -> Int] /\ \A J \in SUBSET S : \A k \in J : e[J] = g[k] + e[J \ {k}]
  <2>1. h \in [SUBSET S -> Int]
      BY SumIsInt
  <2>2. e \in [SUBSET S -> Int]
      BY SumIsInt
  <2>3. \A J \in SUBSET S : \A k \in J : h[J] = f[k] + h[J \ {k}]
      BY AnyComesFirst
  <2>4. \A J \in SUBSET S : \A k \in J : e[J] = g[k] + e[J \ {k}]
      BY AnyComesFirst
  <2> QED
      BY <2>1, <2>2, <2>3, <2>4
<1>3. h[{}] = 0 /\ e[{}] = 0
    BY NothingAddsNothing
<1>5. SumFunctionOnSet(g, S) = e[S] /\ SumFunctionOnSet(f, S) = h[S]
    BY SumIsInt
<1> HIDE DEF h, e
<1> SUFFICES ASSUME Bad # {} PROVE FALSE
    BY <1>5
<1>10. PICK T \in Bad : \A u \in Bad : Cardinality(T) <= Cardinality(u)
  <2>1. \A u \in Bad : IsFiniteSet(u)
    BY <1>1
  <2> HIDE DEF Bad
  <2> QED
    BY <2>1, SmallestIn
<1>11. T # {}
    BY <1>3
<1>12. PICK x \in T : TRUE
    BY <1>11
<1>13. T \ {x} \notin Bad
    BY <1>1, <1>10, OneLess
<1>14. e[T \ {x}] = -h[T \ {x}]
    BY <1>13
<1>15. e[T] = g[x] + e[T \ {x}] /\ h[T] = f[x] + h[T \ {x}] /\ g[x] = -f[x]
    BY <1>2
<1>16. f[x] \in Int /\ h[T \ {x}] \in Int
    BY <1>2
<1> QED
    BY <1>10, <1>14, <1>15, <1>16

-----------------------------------------------------------------------------
(* The dividends of the movements add up.                                  *)

\* The amounts of the rows of a finite set, each one an integer or not to be read.
Amounts(rows) ==
    /\ IsFiniteSet(rows)
    /\ Unreadable \notin Int
    /\ \A r \in rows : r.cents \in Int \union {Unreadable}

Cents(legs) == [r \in legs |-> r.cents]

\* The amounts of a part of the legs are what the sums over all of them say.
LEMMA CentsAdd ==
    ASSUME NEW S, IsFiniteSet(S), \A r \in S : r.cents \in Int
    PROVE  /\ Cents(S) \in [S -> Int]
           /\ \A T \in SUBSET S : SumCents(T) = Adding(Cents(S), S)[T] /\ SumCents(T) \in Int
<1>1. Cents(S) \in [S -> Int]
    BY DEF Cents
<1>2. ASSUME NEW T \in SUBSET S
      PROVE  SumCents(T) = Adding(Cents(S), S)[T] /\ SumCents(T) \in Int
  <2>1. Cents(T) \in [T -> Int] /\ \A x \in T : Cents(S)[x] = Cents(T)[x]
      BY DEF Cents
  <2>2. SumCents(T) = SumFunctionOnSet(Cents(T), T)
      BY DEF SumCents, SumFunction, Cents
  <2>3. Adding(Cents(S), S)[T] = SumFunctionOnSet(Cents(T), T)
      BY <1>1, <2>1, SumOfPart
  <2>4. IsFiniteSet(T)
      BY FS_Subset
  <2>5. SumFunctionOnSet(Cents(T), T) \in Int
      BY <2>1, <2>4, SumIsInt
  <2> QED
      BY <2>2, <2>3, <2>5
<1> QED
    BY <1>1, <1>2

\* Nothing adds up to nothing.
LEMMA CentsOfNone == SumCents({}) = 0
<1> DEFINE f == Cents({})
<1>1. f \in [{} -> Int] /\ IsFiniteSet({})
    BY FS_EmptySet DEF Cents
<1>2. SumCents({}) = SumFunctionOnSet(f, {})
    BY DEF SumCents, SumFunction, Cents
<1> HIDE DEF f
<1> QED
    BY <1>1, <1>2, NothingAddsNothing, SumIsInt

\* The sums of parts without a common leg add up to the sum.
LEMMA CentsOfParts ==
    ASSUME NEW S, IsFiniteSet(S), \A r \in S : r.cents \in Int,
           NEW K, IsFiniteSet(K), NEW P \in [K -> SUBSET S],
           Apart(P, K),
           NEW g, g = [k \in K |-> SumCents(P[k])]
    PROVE  SumFunction(g) = SumCents(Joined(P, K))
<1> DEFINE f == Cents(S)
<1>1. f \in [S -> Int] /\ \A T \in SUBSET S : SumCents(T) = Adding(f, S)[T] /\ SumCents(T) \in Int
    BY CentsAdd
<1>2. g \in [K -> Int] /\ \A k \in K : g[k] = Adding(f, S)[P[k]]
    BY <1>1
<1>3. SumFunction(g) = SumFunctionOnSet(g, K)
    BY DEF SumFunction
<1>4. Joined(P, K) \in SUBSET S
    BY DEF Joined
<1>5. SumFunctionOnSet(g, K) = Adding(f, S)[Joined(P, K)]
  <2> HIDE DEF f
  <2> QED
      BY <1>1, <1>2, SumOfParts
<1> QED
    BY <1>1, <1>3, <1>4, <1>5

\* The legs of one side and those of the other are all.
LEMMA CentsOfSides ==
    ASSUME NEW S, IsFiniteSet(S), \A r \in S : r.cents \in Int, NEW T \in SUBSET S
    PROVE  SumCents(S) = SumCents(T) + SumCents(S \ T)
<1> DEFINE f == Cents(S)
<1>1. f \in [S -> Int] /\ \A A \in SUBSET S : SumCents(A) = Adding(f, S)[A]
    BY CentsAdd
<1> HIDE DEF f
<1>2. Adding(f, S)[T \union (S \ T)] = Adding(f, S)[T] + Adding(f, S)[S \ T]
    BY <1>1, SumOfTwo
<1>3. T \union (S \ T) = S
    OBVIOUS
<1> QED
    BY <1>1, <1>2, <1>3

\* An event with a net has a gross leg and an amount for every leg, and its sides
\* are the sums of theirs, a withholding with the sign turned.
LEMMA EventAdds ==
    ASSUME NEW legs, Amounts(legs), Event(legs).net # Unreadable
    PROVE  LET gross == {r \in legs : r.code \in GrossCode}
               e == Event(legs)
           IN /\ gross # {} /\ \A r \in legs : r.cents \in Int
              /\ e.gross = SumCents(gross) /\ e.gross # Unreadable
              /\ (IF e.withholding = Unreadable THEN 0 ELSE e.withholding) = -SumCents(legs \ gross)
<1> DEFINE gross == {r \in legs : r.code \in GrossCode}
           held == legs \ gross
           e == Event(legs)
<1>1. /\ e.gross = Side(gross)
      /\ e.withholding = IF Side(held) = Unreadable THEN Unreadable ELSE -Side(held)
      /\ e.net = IF Side(gross) = Unreadable THEN Unreadable
                 ELSE IF held = {} THEN Side(gross)
                 ELSE IF Side(held) = Unreadable THEN Unreadable
                 ELSE Side(gross) + Side(held)
    BY DEF Event
<1>2. Side(gross) # Unreadable /\ (held # {} => Side(held) # Unreadable)
    BY <1>1
<1>3. gross # {} /\ \A r \in gross : r.cents # Unreadable
    BY <1>2 DEF Side
<1>4. \A r \in held : r.cents # Unreadable
    BY <1>2 DEF Side
<1>5. \A r \in legs : r.cents \in Int
    BY <1>3, <1>4 DEF Amounts
<1>6. SumCents(gross) \in Int /\ SumCents(held) \in Int /\ Unreadable \notin Int
  <2>1. gross \in SUBSET legs /\ held \in SUBSET legs /\ IsFiniteSet(legs)
      BY DEF Amounts
  <2> HIDE DEF gross, held
  <2> QED
      BY <1>5, <2>1, CentsAdd DEF Amounts
<1>7. Side(gross) = SumCents(gross)
    BY <1>3 DEF Side
<1>8. (IF e.withholding = Unreadable THEN 0 ELSE e.withholding) = -SumCents(held)
  <2>1. CASE held = {}
    <3> HIDE DEF held, e
    <3>1. SumCents(held) = 0
        BY <2>1, CentsOfNone
    <3>2. Side(held) = Unreadable
        BY <2>1 DEF Side
    <3>3. e.withholding = Unreadable
        BY <1>1, <3>2, Zenon
    <3>4. -SumCents(held) = 0
      <4>1. -SumCents(held) = 0 - SumCents(held)
          BY <1>6
      <4> QED
          BY <3>1, <4>1
    <3> QED
        BY <3>3, <3>4
  <2>2. CASE held # {}
    <3>1. Side(held) = SumCents(held)
        BY <2>2, <1>4 DEF Side
    <3> HIDE DEF held, e
    <3>2. -SumCents(held) \in Int
        BY <1>6
    <3> QED
        BY <1>1, <1>6, <3>1, <3>2
  <2> QED
      BY <2>1, <2>2
<1> HIDE DEF e
<1> QED
    BY <1>1, <1>3, <1>5, <1>6, <1>7, <1>8 DEF e

\* The gross legs of a set, written once for all the sums below.
GrossOf(legs) == {r \in legs : r.code \in GrossCode}

\* An event without a label is of one leg.
LEMMA UnlabelledIsAlone ==
    ASSUME NEW rows, \A r, q \in rows : r.label # q, NEW k,
           NEW a \in LegsOf(rows, {k}), NEW b \in LegsOf(rows, {k})
    PROVE  a = b \/ NoLabel \notin {a.label, b.label}
<1>1. a \in rows /\ b \in rows /\ Key(a) = Key(b)
    BY DEF LegsOf, Legs
<1>2. (IF a.label = NoLabel THEN a ELSE a.label) = (IF b.label = NoLabel THEN b ELSE b.label)
    BY <1>1 DEF Key
<1> QED
    BY <1>1, <1>2

\* What pair_dividends and latest_dividends make of any finite set of movements.
LEMMA DividendsOfRows ==
    ASSUME NEW rows, Amounts(rows), \A r, q \in rows : r.label # q
    PROVE  AddsUp(rows)
<1> DEFINE events == PairDividends(rows)
           K == Counted(events)
           S == LegsOf(rows, K)
           OfGross == [k \in K |-> GrossOf(LegsOf(rows, {k}))]
           OfHeld == [k \in K |-> LegsOf(rows, {k}) \ GrossOf(LegsOf(rows, {k}))]
           gross == [k \in K |-> events[k].gross]
           held == [k \in K |-> IF events[k].withholding = Unreadable THEN 0 ELSE events[k].withholding]
           debits == [k \in K |-> SumCents(OfHeld[k])]
<1>1. /\ DOMAIN events = {Key(r) : r \in Legs(rows)}
      /\ \A k \in DOMAIN events : events[k] = Event(LegsOf(rows, {k}))
    BY DEF PairDividends
<1>2. /\ IsFiniteSet(DOMAIN events) /\ IsFiniteSet(K) /\ K \subseteq DOMAIN events
      /\ IsFiniteSet(S) /\ S \subseteq rows
  <2>1. IsFiniteSet(rows) /\ Legs(rows) \subseteq rows /\ S \subseteq Legs(rows)
      BY DEF Amounts, Legs, LegsOf
  <2>2. IsFiniteSet(Legs(rows)) /\ IsFiniteSet(S)
    <3> HIDE DEF S
    <3>1. S \subseteq rows
        BY <2>1
    <3> QED
        BY <2>1, <3>1, FS_Subset
  <2>3. IsFiniteSet({Key(r) : r \in Legs(rows)})
    <3> DEFINE keys == {Key(r) : r \in Legs(rows)}
               f == [r \in Legs(rows) |-> Key(r)]
    <3>1. f \in Surjection(Legs(rows), keys)
        BY DEF Surjection
    <3> HIDE DEF f
    <3> QED
        BY <2>2, <3>1, FS_Surjection
  <2>4. K \subseteq DOMAIN events
      BY DEF Counted
  <2> HIDE DEF events
  <2> QED
      BY <1>1, <2>1, <2>2, <2>3, <2>4, FS_Subset
<1>3. \A k : Amounts(LegsOf(rows, {k}))
  <2> TAKE k
  <2>1. LegsOf(rows, {k}) \subseteq rows
      BY DEF LegsOf, Legs
  <2>2. IsFiniteSet(LegsOf(rows, {k}))
      BY <2>1, FS_Subset DEF Amounts
  <2> QED
      BY <2>1, <2>2 DEF Amounts
<1>4. \A k \in K : /\ GrossOf(LegsOf(rows, {k})) # {}
                   /\ \A r \in LegsOf(rows, {k}) : r.cents \in Int
                   /\ gross[k] = SumCents(OfGross[k])
                   /\ held[k] = -SumCents(OfHeld[k])
  <2> TAKE k \in K
  <2>1. Event(LegsOf(rows, {k})).net # Unreadable /\ events[k] = Event(LegsOf(rows, {k}))
      BY <1>1 DEF Counted
  <2>2. /\ GrossOf(LegsOf(rows, {k})) # {} /\ \A r \in LegsOf(rows, {k}) : r.cents \in Int
        /\ events[k].gross = SumCents(GrossOf(LegsOf(rows, {k})))
        /\ (IF events[k].withholding = Unreadable THEN 0 ELSE events[k].withholding)
             = -SumCents(LegsOf(rows, {k}) \ GrossOf(LegsOf(rows, {k})))
      BY <1>3, <2>1, EventAdds DEF GrossOf
  <2> QED
      BY <2>2
<1>5. \A r \in S : Key(r) \in K /\ r \in LegsOf(rows, {Key(r)})
    BY DEF LegsOf
<1>6. \A r \in S : r.cents \in Int
    BY <1>4, <1>5
<1>7. /\ OfGross \in [K -> SUBSET S] /\ Apart(OfGross, K)
      /\ OfHeld \in [K -> SUBSET S] /\ Apart(OfHeld, K)
  <2>1. \A k \in K : LegsOf(rows, {k}) \subseteq S
      BY DEF LegsOf
  <2>2. \A k \in K : OfGross[k] \subseteq LegsOf(rows, {k}) /\ OfHeld[k] \subseteq LegsOf(rows, {k})
      BY DEF GrossOf
  <2>3. \A j, k \in K : j # k => LegsOf(rows, {j}) \cap LegsOf(rows, {k}) = {}
      BY DEF LegsOf
  <2>4. DOMAIN OfGross = K /\ DOMAIN OfHeld = K
      OBVIOUS
  <2>5. OfGross = [k \in K |-> OfGross[k]] /\ OfHeld = [k \in K |-> OfHeld[k]]
      OBVIOUS
  <2> HIDE DEF OfGross, OfHeld, K, S
  <2> QED
      BY <2>1, <2>2, <2>3, <2>4, <2>5 DEF Apart
<1>8. Joined(OfGross, K) = GrossOf(S)
  <2>1. ASSUME NEW r \in Joined(OfGross, K) PROVE r \in GrossOf(S)
    <3>1. PICK k \in K : r \in GrossOf(LegsOf(rows, {k}))
        BY <2>1 DEF Joined
    <3> QED
        BY <3>1 DEF GrossOf, LegsOf
  <2>2. ASSUME NEW r \in GrossOf(S) PROVE r \in Joined(OfGross, K)
    <3>1. Key(r) \in K /\ r \in GrossOf(LegsOf(rows, {Key(r)}))
        BY <1>5 DEF GrossOf
    <3>2. r \in OfGross[Key(r)]
        BY <3>1
    <3> QED
        BY <3>1, <3>2 DEF Joined
  <2> QED
      BY <2>1, <2>2
<1>9. Joined(OfHeld, K) = S \ GrossOf(S)
  <2>1. ASSUME NEW r \in Joined(OfHeld, K) PROVE r \in S \ GrossOf(S)
    <3>1. PICK k \in K : r \in LegsOf(rows, {k}) \ GrossOf(LegsOf(rows, {k}))
        BY <2>1 DEF Joined
    <3> QED
        BY <3>1 DEF GrossOf, LegsOf
  <2>2. ASSUME NEW r \in S \ GrossOf(S) PROVE r \in Joined(OfHeld, K)
    <3>1. Key(r) \in K /\ r \in LegsOf(rows, {Key(r)}) \ GrossOf(LegsOf(rows, {Key(r)}))
        BY <1>5 DEF GrossOf
    <3>2. r \in OfHeld[Key(r)]
        BY <3>1
    <3> QED
        BY <3>1, <3>2 DEF Joined
  <2> QED
      BY <2>1, <2>2
<1>10. \A T \in SUBSET S : SumCents(T) \in Int
  <2> HIDE DEF S
  <2> QED
      BY <1>2, <1>6, CentsAdd
<1>11. SumFunction(gross) = SumCents(GrossOf(S))
  <2>1. gross = [k \in K |-> SumCents(OfGross[k])]
      BY <1>4
  <2> HIDE DEF gross, K, S, OfGross
  <2> QED
      BY <1>2, <1>6, <1>7, <1>8, <2>1, CentsOfParts
<1>12. SumFunction(debits) = SumCents(S \ GrossOf(S))
  <2>1. debits = [k \in K |-> SumCents(OfHeld[k])]
      OBVIOUS
  <2> HIDE DEF debits, K, S, OfHeld
  <2> QED
      BY <1>2, <1>6, <1>7, <1>9, <2>1, CentsOfParts
<1>13. SumFunction(held) = -SumFunction(debits)
  <2>1. \A k \in K : SumCents(OfHeld[k]) \in Int
      BY <1>7, <1>10
  <2>2. debits \in [K -> Int] /\ held \in [K -> Int] /\ \A k \in K : held[k] = -debits[k]
    <3>1. \A k \in K : debits[k] = SumCents(OfHeld[k]) /\ held[k] = -SumCents(OfHeld[k])
        BY <1>4
    <3>2. DOMAIN debits = K /\ DOMAIN held = K /\ debits = [k \in K |-> debits[k]] /\ held = [k \in K |-> held[k]]
        OBVIOUS
    <3> HIDE DEF debits, held, K, OfHeld
    <3>3. \A k \in K : debits[k] \in Int /\ held[k] \in Int /\ held[k] = -debits[k]
        BY <2>1, <3>1
    <3> QED
        BY <3>2, <3>3
  <2>3. DOMAIN debits = K /\ DOMAIN held = K
      OBVIOUS
  <2> HIDE DEF debits, held, K
  <2>4. SumFunctionOnSet(held, K) = -SumFunctionOnSet(debits, K)
      BY <1>2, <2>2, SumOfOpposites
  <2> QED
      BY <2>3, <2>4 DEF SumFunction
<1>14. SumCents(S) = SumCents(GrossOf(S)) + SumCents(S \ GrossOf(S))
  <2>1. GrossOf(S) \in SUBSET S
      BY DEF GrossOf
  <2> HIDE DEF S
  <2> QED
      BY <1>2, <1>6, <2>1, CentsOfSides
<1>15. /\ Totals(events).gross = SumFunction(gross)
       /\ Totals(events).net = SumFunction(gross) - SumFunction(held)
       /\ Totals(events).excluded = Cardinality(DOMAIN events \ K)
    BY DEF Totals
<1>16. Totals(events).net = SumCents(S)
  <2>1. SumCents(GrossOf(S)) \in Int /\ SumCents(S \ GrossOf(S)) \in Int
      BY <1>10 DEF GrossOf
  <2> HIDE DEF S, gross, held, debits, events
  <2> QED
      BY <1>11, <1>12, <1>13, <1>14, <1>15, <2>1
<1>17. Totals(events).excluded = Cardinality(DOMAIN events) - Cardinality(K)
  <2> HIDE DEF K, events
  <2>1. DOMAIN events \cap K = K
      BY <1>2
  <2>2. Cardinality(DOMAIN events \ K) = Cardinality(DOMAIN events) - Cardinality(DOMAIN events \cap K)
      BY <1>2, FS_Difference
  <2> QED
      BY <1>15, <2>1, <2>2
<1>18. LegsOf(rows, DOMAIN events) = Legs(rows)
    BY <1>1 DEF LegsOf
<1>19. Unreadable \notin Int
    BY DEF Amounts
<1>20. \A k \in K : \E r \in LegsOf(rows, {k}) : r.code \in GrossCode
    BY <1>4 DEF GrossOf
<1>21. \A k \in DOMAIN events : \A a, b \in LegsOf(rows, {k}) :
          a = b \/ NoLabel \notin {a.label, b.label}
    BY UnlabelledIsAlone
<1>22. GrossOf(S) = {r \in S : r.code \in GrossCode}
    BY DEF GrossOf
<1>23. Totals(events).gross = SumCents({r \in S : r.code \in GrossCode})
    BY <1>11, <1>15, <1>22
<1>24. \A r \in S : r.cents # Unreadable
    BY <1>6, <1>19
<1> HIDE DEF S, K, events
<1> QED
    BY <1>16, <1>17, <1>18, <1>20, <1>21, <1>23, <1>24 DEF AddsUp, S, K, events

=============================================================================
