----------------------------- MODULE Enrichment -----------------------------
(***************************************************************************)
(* The public pages that supplement the details of a stock or an ETF: which *)
(* profile of a page is taken, and when a page is refused because it is not *)
(* about the instrument asked for.                                          *)
(***************************************************************************)
EXTENDS Sequences, SequencesExt

Nothing == "nothing"      \* a value that is absent, or empty after cleaning
Failed == [ok |-> FALSE]

\* A profile of a stock page: the ISIN and ticker of its overview, whether it
\* carries the extended analysis, and whether it has anything to display. The
\* one taken is the first usable one, of those analysed if any is.
PreferredProfile(profiles) ==
    LET Analysed(p) == p.analysed
        Usable(p) == p.usable
        analysed == SelectSeq(profiles, Analysed)
        preferred == IF analysed = << >> THEN profiles ELSE analysed
        order == SelectSeq(preferred, Usable) \o SelectSeq(profiles, Usable) \o preferred
    IN IF order = << >> THEN << >> ELSE <<Head(order)>>

\* With an expected ISIN the profiles that show it come first.
ProfileOf(profiles, expected) ==
    LET Matches(p) == p.isin = expected
        matching == SelectSeq(profiles, Matches)
    IN PreferredProfile(IF expected # Nothing /\ matching # << >> THEN matching ELSE profiles)

\* fetch_enrichment: the page of the venue and symbol, checked against the
\* expected ISIN when the caller gave one.
StockReport(page, expected) ==
    LET profile == ProfileOf(page.profiles, expected)
    IN IF profile = << >> THEN Failed
       ELSE IF expected # Nothing /\ profile[1].isin # expected THEN Failed
       ELSE [ok |-> TRUE, isin |-> profile[1].isin, ticker |-> profile[1].ticker]

\* fetch_etf_enrichment: the page is looked up by Fineco's ISIN and must show
\* it; an expected ISIN that differs is refused before anything is fetched.
EtfFetches(isin, expected) == expected \in {Nothing, isin}

EtfReport(page, isin, expected) ==
    IF EtfFetches(isin, expected) /\ page.fields /\ page.isin = isin
    THEN [ok |-> TRUE, isin |-> page.isin, ticker |-> Nothing]
    ELSE Failed

\* What the canonical identity disagrees with is warned about.
StockWarnings(asset, report) ==
    (IF asset.isin # Nothing /\ report.isin # Nothing /\ asset.isin # report.isin
       THEN {"external_enrichment_isin_disagreement"} ELSE {})
      \union (IF report.ticker # Nothing /\ report.ticker # asset.symbol
                THEN {"external_enrichment_symbol_disagreement"} ELSE {})
=============================================================================
