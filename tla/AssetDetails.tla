---------------------------- MODULE AssetDetails ----------------------------
(***************************************************************************)
(* market_get_asset_details: which endpoints are asked for the sections    *)
(* wanted, which of their rows belong to the instrument, and the answer    *)
(* that is put together of them for an ETF, a stock or a bond.             *)
(*                                                                         *)
(* What an endpoint sends is a record of the facts the answer depends on.  *)
(* Its field `of' is a history field: the instrument whose data it is,     *)
(* which the code does not see.                                            *)
(*   static    [isin, currency, bond, of]                                  *)
(*   snapshot  [prices, clean, gross, net, timed, of]                      *)
(*   ETF row   [id, isin, venue, ticker, risk, timed, of]                  *)
(*   stock     [ticker, currency, of]                                      *)
(*   reports   [instrument, ratios, of]                                    *)
(* NotFetched stands for an endpoint that was not asked, Missing for an    *)
(* answer without an item under the candidate's key.                       *)
(***************************************************************************)
EXTENDS MarketSearch

CONSTANTS NotFetched, Missing

Bonds == INSTANCE BondAnalytics

Sections == {"identity", "listing", "quote", "profile", "etf", "stock", "bond", "holdings",
             "exposures", "returns", "risk", "ratios", "external_enrichment"}

\* The sections an answer has when none are asked for.
DefaultSections ==
    [etf |-> {"listing", "quote", "profile", "etf"},
     stock |-> {"listing", "quote", "profile", "stock"},
     bond |-> {"listing", "quote", "bond"}]

Supported == DOMAIN DefaultSections

\* params.sections: Absent, or the set of those asked for
Requested(ask, s) == ask.sections # Absent /\ s \in ask.sections
Shows(ask, type, s) ==
    IF ask.sections = Absent THEN s \in DefaultSections[type] ELSE s \in ask.sections
Wants(ask, some) == ask.sections = Absent \/ ask.sections \cap some # {}

WantsOnlyIdentity(ask) ==
    ask.sections # Absent /\ ask.sections # {} /\ ask.sections \subseteq {"identity"}

-----------------------------------------------------------------------------
(* The endpoints, in the order they are asked.                             *)

Endpoints == <<"snapshot", "etf", "composition", "returns", "stock", "reports">>

\* Variant with a bug, to test the properties: the profile alone does not ask for the stock snapshot.
FetchedForgettingProfile(ask, type, e) ==
    CASE e = "snapshot" -> Wants(ask, {"quote"}) \/ (type = "bond" /\ Wants(ask, {"bond"}))
      [] e = "etf" -> type = "etf" /\ Wants(ask, {"profile", "etf", "risk"})
      [] e = "composition" -> type = "etf" /\ (Requested(ask, "holdings")
                                                 \/ Requested(ask, "exposures"))
      [] e = "returns" -> type = "etf" /\ Requested(ask, "returns")
      [] e = "stock" -> type = "stock" /\ Wants(ask, {"stock"})
      [] e = "reports" -> type = "stock" /\ Requested(ask, "ratios")

\* fetch_market_asset_details after the static search: a bond's yield is in the
\* snapshot, so that its section asks for it too
Fetched(ask, type, e) ==
    CASE e = "snapshot" -> Wants(ask, {"quote"}) \/ (type = "bond" /\ Wants(ask, {"bond"}))
      [] e = "etf" -> type = "etf" /\ Wants(ask, {"profile", "etf", "risk"})
      [] e = "composition" -> type = "etf" /\ (Requested(ask, "holdings")
                                                 \/ Requested(ask, "exposures"))
      [] e = "returns" -> type = "etf" /\ Requested(ask, "returns")
      [] e = "stock" -> type = "stock" /\ Wants(ask, {"profile", "stock"})
      [] e = "reports" -> type = "stock" /\ Requested(ask, "ratios")

-----------------------------------------------------------------------------
(* Whose data it is: etf_row_matches, verify_stock_snapshot_identity and   *)
(* the check of the reports' instrument.                                   *)

FullSymbol(candidate) == <<candidate.symbol, candidate.class>>

VenueOrMissing(row, candidate) == row.venue \in {Absent, candidate.venue}

\* Variant with a bug, to test the properties: a ticker is enough without the venue.
RowMatchesByTicker(row, candidate) ==
    \/ row.id = candidate.key
    \/ row.ticker # Absent /\ row.ticker = FullSymbol(candidate)

\* By the key; else by the ISIN or an id made of it, and by ticker and venue
\* only when the row has neither, or the candidate has no ISIN.
RowMatches(row, candidate) ==
    \/ row.id = candidate.key
    \/ /\ candidate.isin # Absent /\ row.isin # Absent
       /\ row.isin = candidate.isin /\ VenueOrMissing(row, candidate)
    \/ /\ candidate.isin # Absent /\ row.isin = Absent /\ row.id # Absent
       /\ row.id \in {candidate.isin, <<candidate.isin, candidate.venue>>}
       /\ VenueOrMissing(row, candidate)
    \/ /\ candidate.isin = Absent \/ (row.isin = Absent /\ row.id = Absent)
       /\ row.ticker # Absent /\ row.ticker = FullSymbol(candidate)
       /\ row.venue = candidate.venue

\* matching_etf: the first row that does
MatchingRow(rows, candidate) ==
    IF rows = NotFetched THEN NotFetched
    ELSE LET own == {i \in DOMAIN rows : RowMatches(rows[i], candidate)} IN
         IF own = {} THEN Missing ELSE rows[Min(own)]

\* snapshot_ticker_exact_match, and the numeric share class the bank leaves out:
\* a class is <<"digit", d>> or <<"letter", l>>
ExactTicker(stock, candidate) == stock.ticker = FullSymbol(candidate)
DroppedDigit(stock, candidate) ==
    stock.ticker = <<candidate.symbol, Absent>> /\ candidate.class # Absent
      /\ candidate.class[1] = "digit"

StockIsOwn(stock, candidate) ==
    stock.ticker = Absent \/ ExactTicker(stock, candidate) \/ DroppedDigit(stock, candidate)

ReportsAreOwn(reports, candidate) == reports.instrument \in {Absent, candidate.key}

\* A fetched answer that is another instrument's makes the read fail.
Unexpected(in, candidate, type) ==
    CASE type = "etf" -> MatchingRow(in.etf, candidate) = Missing
      [] type = "stock" ->
            \/ in.reports # NotFetched /\ ~ReportsAreOwn(in.reports, candidate)
            \/ in.stock # NotFetched /\ ~StockIsOwn(in.stock, candidate)
      [] type = "bond" -> FALSE

-----------------------------------------------------------------------------
(* The answer: to_market_asset_details, to_stock_asset_details and         *)
(* to_bond_asset_details.                                                  *)

Item(x) == x \notin {NotFetched, Missing}

NotApplicable ==
    [etf |-> {"stock", "ratios", "bond"},
     stock |-> {"etf", "holdings", "exposures", "returns", "risk", "bond"},
     bond |-> {"profile", "etf", "stock", "holdings", "exposures", "returns", "risk", "ratios"}]

NoBondFacts ==
    [type |-> Absent, rate |-> Absent, payments |-> Absent, expiry |-> Absent,
     next |-> Absent, accrued |-> Absent, rated |-> FALSE]
NoQuote == [prices |-> FALSE, clean |-> Absent, gross |-> FALSE, net |-> FALSE,
            timed |-> TRUE, of |-> Absent]

BondFacts(in) == IF Item(in.static) THEN in.static.bond ELSE NoBondFacts
QuoteFacts(in) == IF Item(in.snapshot) THEN in.snapshot ELSE NoQuote

\* What there is for a section, whether or not it is wanted.
EtfAvailable(in, candidate, s) ==
    LET etf == MatchingRow(in.etf, candidate) IN
    CASE s = "listing" -> Item(in.static)
      [] s = "quote" -> Item(in.snapshot)
      [] s \in {"profile", "etf"} -> Item(etf)
      [] s \in {"holdings", "exposures"} -> Item(MatchingRow(in.composition, candidate))
      [] s = "returns" -> Item(MatchingRow(in.returns, candidate))
      [] s = "risk" -> Item(etf) /\ etf.risk
      [] OTHER -> FALSE

StockAvailable(in, s) ==
    CASE s = "listing" -> Item(in.static)
      [] s = "quote" -> Item(in.snapshot)
      [] s \in {"profile", "stock"} -> Item(in.stock)
      [] s = "ratios" -> Item(in.reports) /\ in.reports.ratios
      [] OTHER -> FALSE

BondAvailable(in, s) ==
    CASE s = "listing" -> Item(in.static)
      [] s = "quote" -> Item(in.snapshot)
      [] OTHER -> s = "bond"

Available(in, candidate, type, s) ==
    CASE type = "etf" -> EtfAvailable(in, candidate, s)
      [] type = "stock" -> StockAvailable(in, s)
      [] type = "bond" -> BondAvailable(in, s)

SectionsOf(ask, in, candidate, type) ==
    {s \in Sections : Shows(ask, type, s) /\ Available(in, candidate, type, s)}

\* The sections whose absence is warned of: section_missing.
ReportedMissing(ask, in, candidate, type) ==
    {s \in Sections :
       /\ Requested(ask, s)
       /\ \/ s \in NotApplicable[type]
          \/ /\ s \in {"holdings", "exposures", "returns", "risk", "ratios"}
             /\ ~Available(in, candidate, type, s)}

\* The currency, from the search, else the static item, else the stock snapshot.
CurrencyOf(in, candidate) ==
    IF candidate.currency # Absent THEN <<candidate.currency, "search.global">>
    ELSE IF Item(in.static) /\ in.static.currency # Absent
    THEN <<in.static.currency, "static.search">>
    ELSE IF Item(in.stock) /\ in.stock.currency # Absent
    THEN <<in.stock.currency, "stock.snapshot">>
    ELSE <<Absent, "search.global">>

\* Variant with a bug, to test the properties: only the search's currency decides.
ScaledBySearch(in, candidate) == candidate.currency = "GBP"

\* quotes_in_minor_unit: a quote in pence is brought to pounds
Scaled(in, candidate) == CurrencyOf(in, candidate)[1] = "GBP"

\* quote_has_values, bond_snapshot_has_values and the dated ETF fields: a
\* shown value without the provider's time is warned of
Untimed(ask, in, candidate, type) ==
    LET quote == QuoteFacts(in)
        etf == MatchingRow(in.etf, candidate)
    IN \/ /\ Item(in.snapshot) /\ ~quote.timed
          /\ \/ Shows(ask, type, "quote") /\ quote.prices
             \/ type = "bond" /\ Shows(ask, type, "bond")
                  /\ (quote.prices \/ quote.gross \/ quote.net)
       \/ type = "etf" /\ Shows(ask, type, "etf") /\ Item(etf) /\ ~etf.timed

WarningsOf(ask, in, candidate, type, dcf) ==
    (IF Untimed(ask, in, candidate, type) THEN {"missing_provider_timestamp"} ELSE {})
      \union (IF type = "stock" /\ Shows(ask, type, "quote") /\ Scaled(in, candidate)
              THEN {"quote_unit_normalized"} ELSE {})
      \union (IF type = "bond" /\ Shows(ask, type, "bond")
              THEN Bonds!BondWarnings(BondFacts(in), QuoteFacts(in), dcf) ELSE {})

EtfSources(in, candidate) ==
    (IF in.etf # NotFetched THEN {"etf.query.snapshot"} ELSE {})
      \union (IF Item(MatchingRow(in.composition, candidate))
              THEN {"etf.query.composition"} ELSE {})
      \union (IF Item(MatchingRow(in.returns, candidate)) THEN {"etf.query.returns"} ELSE {})

StockSources(in) ==
    (IF in.stock # NotFetched THEN {"stock.snapshot"} ELSE {})
      \union (IF in.reports # NotFetched THEN {"stock.reports"} ELSE {})

BondSources(ask, in, dcf) ==
    IF Shows(ask, "bond", "bond") /\ Bonds!HasComputed(BondFacts(in), QuoteFacts(in), dcf)
    THEN {"computed"} ELSE {}

SourcesOf(ask, in, candidate, type, dcf) ==
    {"search.global", "static.search"}
      \union (IF in.snapshot # NotFetched THEN {"snapshot"} ELSE {})
      \union CASE type = "etf" -> EtfSources(in, candidate)
               [] type = "stock" -> StockSources(in)
               [] type = "bond" -> BondSources(ask, in, dcf)

\* The source_refs of the identity's fields: an ETF's are the same whatever was
\* found, a stock's and a bond's tell where each field came from.
EtfIdentityRefs == {"search.global", "static.search"}

StockIdentityRefs(in, candidate) ==
    {"search.global", CurrencyOf(in, candidate)[2]}
      \union (IF Item(in.static) THEN {"static.search"} ELSE {})
      \union (IF Item(in.stock) /\ ExactTicker(in.stock, candidate)
              THEN {"stock.snapshot"} ELSE {})

BondIdentityRefs(in) ==
    {"search.global"} \union (IF Item(in.static) THEN {"static.search"} ELSE {})

IdentityRefs(in, candidate, type) ==
    CASE type = "etf" -> EtfIdentityRefs
      [] type = "stock" -> StockIdentityRefs(in, candidate)
      [] type = "bond" -> BondIdentityRefs(in)

\* bond_section: what Fineco reports and what is computed of it
BondRefs(in, dcf) ==
    (IF Item(in.static) THEN {"static.search"} ELSE {})
      \union (IF Item(in.snapshot) THEN {"snapshot"} ELSE {})
      \union (IF \/ Bonds!DirtyPrice(BondFacts(in), QuoteFacts(in)) # Absent
                 \/ Bonds!Computed(BondFacts(in), QuoteFacts(in), dcf)
              THEN {"computed"} ELSE {})

\* The source_refs of the fields of section s.
SectionRefs(in, type, s, dcf) ==
    CASE s = "listing" -> {"static.search"}
      [] s = "quote" -> {"snapshot"}
      [] s \in {"etf", "risk"} -> {"etf.query.snapshot"}
      [] s = "profile" -> IF type = "etf" THEN {"etf.query.snapshot"} ELSE {"stock.snapshot"}
      [] s \in {"holdings", "exposures"} -> {"etf.query.composition"}
      [] s = "returns" -> {"etf.query.returns"}
      [] s = "stock" -> {"stock.snapshot"}
      [] s = "ratios" -> {"stock.reports"}
      [] s = "bond" -> BondRefs(in, dcf)

Details(ask, in, candidate, type, dcf) ==
    LET shown == SectionsOf(ask, in, candidate, type) IN
    [kind |-> "details", type |-> type,
     sections |-> shown,
     missing |-> ReportedMissing(ask, in, candidate, type),
     warnings |-> WarningsOf(ask, in, candidate, type, dcf),
     sources |-> SourcesOf(ask, in, candidate, type, dcf),
     refs |-> IdentityRefs(in, candidate, type)
                \union UNION {SectionRefs(in, type, s, dcf) : s \in shown},
     currency |-> CurrencyOf(in, candidate)[1],
     scaled |-> type = "stock" /\ Scaled(in, candidate)]

\* identity_only_details
IdentityOnly(candidate) ==
    [kind |-> "details", type |-> candidate.type, sections |-> {}, missing |-> {},
     warnings |-> {}, sources |-> {"search.global"}, refs |-> {"search.global"},
     currency |-> candidate.currency, scaled |-> FALSE]
=============================================================================
