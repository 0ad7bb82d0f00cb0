---------------------------- MODULE MarketSearch ----------------------------
(***************************************************************************)
(* Fineco's global instrument search as the worker reads it: the grouped   *)
(* and capped result of market_search_asset, the headline index cards, and *)
(* the resolution of a venue-qualified identifier to exactly one candidate *)
(* for market_get_asset_details.  What is shown of a list is the set of    *)
(* its places: it is shown in the order of the list.                       *)
(*                                                                         *)
(* A raw search item is a record                                           *)
(*   [name, venue, symbol, class, isin, currency]                          *)
(* whose texts are Absent when missing or blank.  A symbol is its root and *)
(* its share class (Absent if it has none): identifiers are compared in a  *)
(* normal form without punctuation, so how the class is set off does not   *)
(* matter.                                                                 *)
(***************************************************************************)
EXTENDS Integers, Sequences, FiniteSets, SequencesExt

CONSTANT Absent

CONSTANTS
    GroupCap,    \* MAX_CANDIDATES_PER_GROUP
    TotalCap,    \* MAX_TOTAL_CANDIDATES
    CardCap      \* MAX_INDEX_CARDS

\* The buckets of MarketSearchResponse, in the order they are read.
AssetTypes == <<"stock", "etf", "bond", "cfd", "fixed_leverage", "turbo", "knockout", "fx_cfd">>
AssetType == ToSet(AssetTypes)

-----------------------------------------------------------------------------
(* to_market_search_with_caps                                              *)

Complete(raw) == Absent \notin {raw.name, raw.venue, raw.symbol}

\* to_market_search_candidate
Candidate(raw, type) ==
    [type |-> type, name |-> raw.name, venue |-> raw.venue, symbol |-> raw.symbol,
     class |-> raw.class, isin |-> raw.isin, currency |-> raw.currency,
     \* fineco_key: the ISIN, else the display symbol, and the venue
     key |-> <<IF raw.isin # Absent THEN raw.isin ELSE <<raw.symbol, raw.class>>, raw.venue>>]

\* A list takes items, in their order, until it has `cap' of them.
First(cap, places) == {k \in places : Cardinality({j \in places : j < k}) < cap}

Least(a, b) == IF a < b THEN a ELSE b

\* The places in a bucket of the items that make a candidate.
Candidates(raws) == {k \in DOMAIN raws : Complete(raws[k])}

\* Variant with a bug, to test the properties: the caps count the incomplete items too.
TakenCappingRaws(raws, left) == First(Least(GroupCap, left), DOMAIN raws) \cap Candidates(raws)

\* The places taken of a bucket that has `left' of the limit.
Taken(raws, left) == First(Least(GroupCap, left), Candidates(raws))

TakenOf(response, wanted, i, left) ==
    IF wanted \in {Absent, AssetTypes[i]} THEN Taken(response[AssetTypes[i]], left) ELSE {}

\* What the buckets before the i-th leave of the limit.
LeftOf(response, wanted, limit) ==
    LET remaining[i \in DOMAIN AssetTypes] ==
            IF i = 1 THEN limit
            ELSE remaining[i - 1] - Cardinality(TakenOf(response, wanted, i - 1, remaining[i - 1]))
    IN remaining

\* The places shown of the buckets: at most GroupCap of each and `limit' in all.
Shown(response, wanted, limit) ==
    [i \in DOMAIN AssetTypes |->
        TakenOf(response, wanted, i, LeftOf(response, wanted, limit)[i])]

\* to_market_search: the groups, each hit as a place in a bucket
SearchHits(response, wanted, limit) ==
    LET shown == Shown(response, wanted, IF limit = Absent THEN TotalCap ELSE limit) IN
    UNION {[type : {AssetTypes[i]}, at : shown[i]] : i \in DOMAIN AssetTypes}

-----------------------------------------------------------------------------
(* to_market_indices: the cards with a symbol and a label, of the region   *)
(* asked for, up to the limit.                                             *)

CardShown(card, region) ==
    Absent \notin {card.symbol, card.label} /\ region \in {Absent, card.region}

\* The places of the cards shown.
IndexCards(cards, region, limit) ==
    First(IF limit = Absent THEN CardCap ELSE limit, {k \in DOMAIN cards : CardShown(cards[k], region)})

-----------------------------------------------------------------------------
(* The resolution of <venue>/<symbol>.  A request is a record              *)
(*   [venue, symbol, class, isin, sections]                                *)
(* whose isin is the expected_isin, or Absent.                             *)

\* details_search_terms: as written, spaced, the root, compact
SearchTerms(ask) ==
    IF ask.class = Absent THEN <<"exact">> ELSE <<"exact", "spaced", "root", "compact">>

\* identifier_symbol_matches: a bond may also be asked for by its ISIN
SymbolMatches(candidate, ask) ==
    \/ candidate.symbol = ask.symbol /\ candidate.class = ask.class
    \/ candidate.type = "bond" /\ candidate.isin # Absent /\ candidate.isin = ask.symbol

Matches(candidate, ask) ==
    /\ candidate.venue = ask.venue
    /\ SymbolMatches(candidate, ask)
    /\ ask.isin = Absent \/ candidate.isin = ask.isin

\* A hit is a place in a bucket; its candidate.
CandidateAt(response, hit) == Candidate(response[hit.type][hit.at], hit.type)

\* resolve_market_candidate: the hits that match. No cap hides one from the
\* resolution, and a candidate that comes twice counts twice.
Survivors(response, ask) ==
    {hit \in UNION {[type : {t}, at : DOMAIN response[t]] : t \in AssetType} :
       /\ Complete(response[hit.type][hit.at])
       /\ Matches(CandidateAt(response, hit), ask)}

\* verify_static_identity: the instrId found under the candidate's key is the
\* expected ISIN, else the candidate's; without either nothing is compared
StaticVerified(staticIsin, candidate, ask) ==
    LET expected == IF ask.isin # Absent THEN ask.isin ELSE candidate.isin IN
    expected = Absent \/ staticIsin = expected
=============================================================================
