--------------------------- MODULE StatementWalk ---------------------------
(***************************************************************************)
(* One refresh of the account movements from end to end: the worker walks  *)
(* the pages of the bank's statement, fetches the MoneyMap taxonomy if it  *)
(* can, and the controller captures first the movements and then, in a     *)
(* transaction of its own, the taxonomy.                                   *)
(*                                                                         *)
(* The statement is a sequence of rows that the bank may extend anywhere   *)
(* while the walk is under way.  What is taken from the bank as given is   *)
(* in BankAnswers and Book: rows of the window are not withdrawn, a page   *)
(* holds the rows that stand at its offset, only a page that reaches the   *)
(* end is marked last, and a page before the end is not empty.             *)
(***************************************************************************)
EXTENDS Integers, Sequences, MoneyMap

CONSTANTS
    Row,         \* the movements the bank may book
    Identified,  \* those with a progressivoMovimento that is not blank
    Opening,     \* statements the bank may hold at first
    Taxonomy,    \* the taxonomies it may send
    NoTaxonomy,  \* none was fetched: an empty one is another thing
    PageSize,    \* MOVEMENTS_PAGE_SIZE
    MaxPages,    \* MAX_MOVEMENTS_PAGES
    MaxRows,     \* bound: rows on the statement
    MaxRefreshes \* bound: refreshes

Rows(s) == {s[i] : i \in DOMAIN s}
Injective(s) == \A i, j \in DOMAIN s : s[i] = s[j] => i = j

ASSUME WalkConstants ==
    /\ Identified \subseteq Row
    /\ Opening \subseteq Seq(Row) /\ \A s \in Opening : Injective(s)
    /\ PageSize \in Nat \ {0} /\ MaxPages \in Nat \ {0}
    /\ MaxRows \in Nat /\ MaxRefreshes \in Nat

NoNames == << >>
NoBalance == -1

VARIABLES
    book,       \* the bank's statement of the window
    stood,      \* history: the rows on it when the walk began
    phase,      \* where the refresh is
    offset,     \* of the next page
    pages,      \* pages read
    seen,       \* the rows accumulated
    twice,      \* whether one of them came twice
    balance,    \* the account summary of the first page, if it had one
    taxonomy,   \* the taxonomy fetched, if it was
    statement,  \* captured: the movements and the summary
    names,      \* captured: the rows of the taxonomy
    told,       \* history: the taxonomy they were made of
    refreshes   \* begun so far

bankVars == <<book>>
walkVars == <<offset, pages, seen, twice, balance>>
storeVars == <<statement, names, told>>
statementVars == <<book, stood, phase, offset, pages, seen, twice, balance, taxonomy,
                   statement, names, told, refreshes>>

WalkInit ==
    /\ book \in Opening
    /\ stood = {}
    /\ phase = "idle"
    /\ offset = 0 /\ pages = 0
    /\ seen = {} /\ twice = FALSE
    /\ balance = NoBalance
    /\ taxonomy = NoTaxonomy
    /\ statement = [rows |-> {}, balance |-> NoBalance]
    /\ names = {} /\ told = NoNames
    /\ refreshes = 0

-----------------------------------------------------------------------------
(* The bank.                                                               *)

\* A movement is booked, at any place of the statement.
Book ==
    /\ Len(book) < MaxRows
    /\ \E row \in Row \ Rows(book), at \in 1..Len(book) + 1 :
         book' = [i \in 1..Len(book) + 1 |->
                     IF i < at THEN book[i] ELSE IF i = at THEN row ELSE book[i - 1]]
    /\ UNCHANGED <<stood, phase, walkVars, taxonomy, storeVars, refreshes>>

Remaining == IF offset < Len(book) THEN Len(book) - offset ELSE 0

\* An answer to the request for a page: n rows, perhaps marked last.
BankAnswers(n, last) ==
    /\ n \in 0..PageSize
    /\ n <= Remaining
    /\ Remaining > 0 => n > 0
    /\ last => n = Remaining

PageRows(n) == {book[i] : i \in offset + 1 .. offset + n}

-----------------------------------------------------------------------------
(* The worker: fetch_raw_movements.                                        *)

\* The login went through; offset and the rows start from nothing.
StartWalk ==
    /\ phase = "idle"
    /\ refreshes < MaxRefreshes
    /\ phase' = "paging"
    /\ refreshes' = refreshes + 1
    /\ stood' = Rows(book)
    /\ offset' = 0 /\ pages' = 0
    /\ seen' = {} /\ twice' = FALSE
    /\ balance' = NoBalance
    /\ taxonomy' = NoTaxonomy
    /\ UNCHANGED <<bankVars, storeVars>>

\* to_raw_movements of a page: the rows without an id are skipped
Usable(n) == PageRows(n) \cap Identified

\* Variant with a bug, to test the properties: the next page is one page size on.
AccumulateAdvancingBySize(n) ==
    /\ seen' = seen \union Usable(n)
    /\ twice' = (twice \/ Usable(n) \cap seen # {})
    /\ offset' = offset + PageSize
    /\ pages' = pages + 1
    /\ IF pages = 0 THEN balance' \in {NoBalance, Len(book)} ELSE UNCHANGED balance

\* The page's rows are added, the summary is kept from the first page, and the
\* offset moves by the rows the page had, those without an id included.
Accumulate(n) ==
    /\ seen' = seen \union Usable(n)
    /\ twice' = (twice \/ Usable(n) \cap seen # {})
    /\ offset' = offset + n
    /\ pages' = pages + 1
    /\ IF pages = 0 THEN balance' \in {NoBalance, Len(book)} ELSE UNCHANGED balance

\* A page that is neither last nor empty: go on, until the cap.
ReadPage ==
    /\ phase = "paging"
    /\ \E n \in 1..PageSize : BankAnswers(n, FALSE) /\ Accumulate(n)
    /\ phase' = IF pages' = MaxPages THEN "idle" ELSE "paging"
    /\ UNCHANGED <<bankVars, stood, taxonomy, storeVars, refreshes>>

\* The page marked last, or an empty one, ends the walk.
ReadLastPage ==
    /\ phase = "paging"
    /\ \E n \in 0..PageSize, last \in BOOLEAN :
         /\ last \/ n = 0
         /\ BankAnswers(n, last)
         /\ Accumulate(n)
    /\ phase' = "taxonomy"
    /\ UNCHANGED <<bankVars, stood, taxonomy, storeVars, refreshes>>

\* A page cannot be fetched, or is limited or lacks data: the refresh fails.
PageFails ==
    /\ phase = "paging"
    /\ phase' = "idle"
    /\ UNCHANGED <<bankVars, stood, walkVars, taxonomy, storeVars, refreshes>>

\* fetch_moneymap_categories_best_effort: a taxonomy, or none
FetchTaxonomy ==
    /\ phase = "taxonomy"
    /\ taxonomy' \in Taxonomy \union {NoTaxonomy}
    /\ phase' = "capture"
    /\ UNCHANGED <<bankVars, stood, walkVars, storeVars, refreshes>>

-----------------------------------------------------------------------------
(* The controller: refresh_movements once the fetch has succeeded.         *)

\* capture_movements: one transaction; a movement_id_hash that comes twice
\* breaks the primary key
CaptureStatement ==
    /\ phase = "capture"
    /\ ~twice
    /\ statement' = [rows |-> seen, balance |-> balance]
    /\ phase' = "names"
    /\ UNCHANGED <<bankVars, stood, walkVars, taxonomy, names, told, refreshes>>

CaptureFails ==
    /\ phase = "capture"
    /\ phase' = "idle"
    /\ UNCHANGED <<bankVars, stood, walkVars, taxonomy, storeVars, refreshes>>

\* capture_categories, when there is a taxonomy
CaptureNames ==
    /\ phase = "names"
    /\ taxonomy # NoTaxonomy
    /\ names' = ToCategoryRows(taxonomy)
    /\ told' = taxonomy
    /\ phase' = "idle"
    /\ UNCHANGED <<bankVars, stood, walkVars, taxonomy, statement, refreshes>>

\* There is none, or its capture fails: the names stay as they are.
KeepNames ==
    /\ phase = "names"
    /\ phase' = "idle"
    /\ UNCHANGED <<bankVars, stood, walkVars, taxonomy, storeVars, refreshes>>

\* The worker or the store-server stops.
WalkCrash ==
    /\ phase # "idle"
    /\ phase' = "idle"
    /\ UNCHANGED <<bankVars, stood, walkVars, taxonomy, storeVars, refreshes>>

RefreshStep ==
    \/ StartWalk
    \/ ReadPage \/ ReadLastPage \/ PageFails
    \/ FetchTaxonomy
    \/ CaptureStatement \/ CaptureFails
    \/ CaptureNames \/ KeepNames
    \/ WalkCrash

WalkNext == Book \/ RefreshStep

WalkSpec == WalkInit /\ [][WalkNext]_statementVars

-----------------------------------------------------------------------------
(* What is to hold.                                                        *)

WalkTypeOK ==
    /\ book \in Seq(Row)
    /\ stood \subseteq Row
    /\ phase \in {"idle", "paging", "taxonomy", "capture", "names"}
    /\ offset \in Nat /\ pages \in Nat
    /\ seen \subseteq Identified /\ twice \in BOOLEAN
    /\ balance \in Nat \union {NoBalance}
    /\ statement.rows \subseteq Identified

\* The bank's side: rows are never withdrawn, so those that stood when the
\* walk began are still on the statement.
StoodStands == phase # "idle" => stood \subseteq Rows(book)

\* No row that stood at the start is passed over: what lies before the offset
\* has been read, wherever rows were booked in between.
NothingSkipped ==
    phase = "paging" =>
        \A i \in 1..offset : i \in DOMAIN book /\ book[i] \in stood \cap Identified
                               => book[i] \in seen

\* Every walk that ended has read every row that stood.
WalkedWhole == phase \in {"taxonomy", "capture", "names"} => stood \cap Identified \subseteq seen

WalkInv == StoodStands /\ NothingSkipped /\ WalkedWhole

\* A captured statement is whole: it holds every movement with an id that was
\* on the bank's statement when the walk began, however short the pages and
\* wherever movements were booked meanwhile (fetch_movement_pages).
StatementIsWhole ==
    [][statement' # statement => stood \cap Identified \subseteq statement'.rows]_statementVars

\* The names a movement is read with are those the last taxonomy captured
\* gives its very category and, under that parent, its subcategory: a taxonomy
\* that was not fetched, or not captured, leaves the older one in force.
NamesFollowTaxonomy ==
    \A r \in statement.rows :
        LET known == DOMAIN told \ {NoText}
            c == r.category
            s == r.subcategory
        IN Names(names, c, s) =
             [categoria |-> IF c \in known THEN told[c].name ELSE NoText,
              sottocategoria |->
                  IF c \in known /\ s # NoText /\ s \in DOMAIN told[c].subs
                  THEN told[c].subs[s] ELSE NoText]
=============================================================================
