------------------------------ MODULE MoneyMap ------------------------------
(***************************************************************************)
(* The MoneyMap taxonomy: what the bank sends, the rows the worker makes   *)
(* of it and the names a read of movements resolves with them.             *)
(*                                                                         *)
(* A taxonomy as the bank sends it is a function from category ids to      *)
(* records [name, subs]; subs is a function from subcategory ids to names, *)
(* empty when the bank sends null.  NoText is an id or a name that is      *)
(* absent or blank; it is also the '' of the category-level rows.          *)
(***************************************************************************)
EXTENDS FiniteSets

CONSTANT NoText

CategoryRow(c, s, n) == [category |-> c, subcategory |-> s, name |-> n]

\* to_category_rows: a blank id is skipped, a category's with all below it
ToCategoryRows(taxonomy) ==
    LET usable == DOMAIN taxonomy \ {NoText} IN
    {CategoryRow(c, NoText, taxonomy[c].name) : c \in usable}
      \union UNION {{CategoryRow(c, s, taxonomy[c].subs[s]) :
                       s \in DOMAIN taxonomy[c].subs \ {NoText}} : c \in usable}

\* latest_categories: the rows that can resolve anything
Named(rows) == {r \in rows : r.name # NoText}

NameIn(rows) == IF rows = {} THEN NoText ELSE (CHOOSE r \in rows : TRUE).name

CategoryName(rows, c) ==
    NameIn({r \in Named(rows) : r.category = c /\ r.subcategory = NoText})

\* Variant with a bug, to test the properties: the parent is not part of the key.
SubcategoryNameAnywhere(rows, c, s) ==
    IF s = NoText THEN NoText ELSE NameIn({r \in Named(rows) : r.subcategory = s})

\* subcategory_name: within its parent, and never the category-level row
SubcategoryName(rows, c, s) ==
    IF s = NoText THEN NoText
    ELSE NameIn({r \in Named(rows) : r.category = c /\ r.subcategory = s})

\* The two names of a movement with categoria_id c and sottocategoria_id s.
Names(rows, c, s) ==
    [categoria |-> IF c = NoText THEN NoText ELSE CategoryName(rows, c),
     sottocategoria |-> IF c = NoText THEN NoText ELSE SubcategoryName(rows, c, s)]
=============================================================================
