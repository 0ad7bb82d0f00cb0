--------------------------- MODULE MCWorkerReads ---------------------------
EXTENDS WorkerReads, TLC

CONSTANTS I1, I2, I3, V1, V2, T, T2, D1, L1, C1, C2, S1, N1, N2, N3

-----------------------------------------------------------------------------
(* The statement: two legs of one event, two unlabelled legs of the same   *)
(* date, a remunerated one, and a row without an id.                       *)

Movement(id, code, label, cents, c, s) ==
    [id |-> id, code |-> code, label |-> label, date |-> D1, cents |-> cents,
     category |-> c, subcategory |-> s]
Gross   == Movement(1, "DII", L1, 100, C1, S1)
Held    == Movement(2, "DIR", L1, -26, C2, S1)
Lone    == Movement(3, "DER", NoLabel, -5, C2, NoText)
Blurred == Movement(4, "DIR", NoLabel, Unreadable, NoText, NoText)
Lent    == Movement(5, "DPR", L1, 7, C1, NoText)
Bare    == Movement(0, "DII", L1, 40, C1, S1)

Movements == {Gross, Held, Lone, Blurred, Lent, Bare}
WithId == Movements \ {Bare}
Openings == {<< >>, <<Gross, Held>>, <<Bare, Lone, Blurred>>, <<Lent, Gross>>}

Sub(s, n) == s :> n
Taxonomies ==
    {<< >>,
     (C1 :> [name |-> N1, subs |-> Sub(S1, N2)]) @@ (C2 :> [name |-> N2, subs |-> Sub(S1, N3)]),
     (C1 :> [name |-> N2, subs |-> << >>]) @@ (NoText :> [name |-> N3, subs |-> Sub(S1, N1)])}

-----------------------------------------------------------------------------
(* Instruments: A and B are listings of one fund, C is a namesake of A on  *)
(* another venue, U a listing the bank gives no ISIN for, and I3 a bond.   *)

Instrument(isin, venue) == [isin |-> isin, venue |-> venue, symbol |-> <<T, Absent>>]
A == Instrument(I1, V1)
B == Instrument(I1, V2)
C == Instrument(I2, V2)

Raw(name, venue, symbol, class, isin, currency) ==
    [name |-> name, venue |-> venue, symbol |-> symbol, class |-> class, isin |-> isin,
     currency |-> currency]
RawA == Raw("A", V1, T, Absent, I1, "GBP")
RawB == Raw("B", V2, T, Absent, I1, "EUR")
RawC == Raw("C", V2, T, Absent, I2, Absent)
RawU == Raw("U", V1, T, Absent, Absent, Absent)
RawA3 == Raw("A", V1, T, <<"digit", 3>>, I1, Absent)
RawAB == Raw("A", V1, T, <<"letter", "B">>, I1, Absent)
RawBond == Raw("bond", V1, T2, Absent, I3, "EUR")
Nameless == Raw(Absent, V1, T, Absent, I1, "GBP")

NoHits == [t \in AssetType |-> << >>]
Hits(t, raws) == [NoHits EXCEPT ![t] = raws]
SearchAnswers ==
    {NoHits,
     Hits("etf", <<RawB, RawA>>), Hits("etf", <<RawC, RawU>>), Hits("stock", <<RawA>>),
     Hits("stock", <<RawC, RawU>>), Hits("stock", <<RawA3, RawAB>>), Hits("bond", <<RawBond>>),
     Hits("etf", <<RawA, RawU>>), Hits("etf", <<RawA3>>), Hits("cfd", <<RawA>>),
     [Hits("stock", <<Nameless, Nameless, RawA>>) EXCEPT !["cfd"] = <<RawA, RawB, RawC>>]}

Details1(sections, symbol, class, isin) ==
    [kind |-> "details", venue |-> V1, symbol |-> symbol, class |-> class, isin |-> isin,
     sections |-> sections]
SectionFamily ==
    {Absent, {}, Sections, {"returns", "risk"}, {"bond", "quote"}}
      \union {{s} : s \in Sections}
Asks ==
    {Details1(s, T, Absent, Absent) : s \in SectionFamily}
      \union {Details1(Sections, T, <<"digit", 3>>, Absent)}
      \union {Details1(Absent, T, c, i) : c \in {Absent, <<"digit", 3>>, <<"letter", "B">>}, i \in {Absent, I1}}
      \union {Details1(Absent, T, Absent, I2)}
      \union {Details1(s, I3, Absent, Absent) : s \in {Absent, {"bond"}, {"quote"}, Sections}}
      \union [kind : {"search"}, type : {Absent, "stock", "cfd"}, limit : {Absent, 1, 2}]
      \union [kind : {"indices"}, region : {Absent, "EU"}, limit : {Absent, 1}]
      \union [kind : {"portfolio", "orders", "tax"}]

Bond(type, rate, payments, expiry, next, accrued) ==
    [type |-> type, rate |-> rate, payments |-> payments, expiry |-> expiry, next |-> next,
     accrued |-> accrued, rated |-> FALSE]
BondFact ==
    {Bond("fixed", 2, 2, 6, 1, 1), Bond("fixed", 2, 2, -1, 1, 1), Bond("other", 2, 2, 6, 1, 1),
     Bond("zero_coupon", 0, Absent, 6, Absent, Absent), Bond(Absent, 0, 2, 6, Absent, 0),
     Bond("fixed", 2, Absent, Absent, 1, 1), Bond("other", 0, 1, 6, 1, 0)}
Static(isin, currency, bond) == [isin |-> isin, currency |-> currency, bond |-> bond, of |-> Instrument(isin, V1)]
StaticAnswers ==
    {Missing, Static(I1, "GBP", NoBondFacts), Static(I1, "EUR", NoBondFacts),
     Static(I2, Absent, NoBondFacts)}
      \union {Static(I3, "EUR", b) : b \in BondFact}

Quote(prices, clean, gross, timed) ==
    [prices |-> prices, clean |-> clean, gross |-> gross, net |-> FALSE, timed |-> timed, of |-> A]
SnapshotAnswers ==
    {Missing, Quote(TRUE, 98, TRUE, TRUE), Quote(TRUE, Absent, TRUE, FALSE), Quote(FALSE, 0, FALSE, FALSE)}

\* Rows that say of themselves nothing but what is true; beside an id one more thing.
Row1(x, id, says, risk) ==
    [id |-> id, isin |-> IF "isin" \in says THEN x.isin ELSE Absent,
     venue |-> IF "venue" \in says THEN x.venue ELSE Absent,
     ticker |-> IF "ticker" \in says THEN x.symbol ELSE Absent,
     risk |-> risk, timed |-> risk, of |-> x]
HonestRows ==
    {Row1(x, Absent, says, TRUE) : x \in {A, B, C}, says \in SUBSET {"isin", "venue", "ticker"}}
      \union {Row1(x, id, says, TRUE) : x \in {A, B, C}, id \in 1..3, says \in {{}, {"isin"}, {"venue"}}}
IdOf(r) ==
    CASE r.id = Absent -> r
      [] r.id = 1 -> [r EXCEPT !.id = r.of.isin]
      [] r.id = 2 -> [r EXCEPT !.id = <<r.of.isin, r.of.venue>>]
      [] r.id = 3 -> [r EXCEPT !.id = <<r.of.symbol, r.of.venue>>]
OwnRow == Row1(A, <<I1, V1>>, {"isin", "venue", "ticker"}, FALSE)
EtfAnswers ==
    {<< >>, <<OwnRow>>, <<Row1(C, Absent, {"ticker"}, TRUE), OwnRow>>}
      \union {<<IdOf(r)>> : r \in HonestRows}
EtfDataAnswers ==
    {<<OwnRow>>, <<Row1(C, I2, {"ticker", "venue"}, TRUE)>>}

Stock(ticker, currency, x) == [ticker |-> ticker, currency |-> currency, of |-> x]
StockAnswers ==
    {Stock(<<T, Absent>>, "GBP", A), Stock(<<T, <<"digit", 3>>>>, "EUR", A), Stock(Absent, "GBP", A),
     Stock(<<T2, Absent>>, "EUR", C)}
ReportsAnswers ==
    {[instrument |-> i, ratios |-> r, of |-> A] : i \in {Absent, <<I1, V1>>}, r \in BOOLEAN}
      \union {[instrument |-> <<I2, V2>>, ratios |-> TRUE, of |-> C]}

Card(symbol, label, region) == [symbol |-> symbol, label |-> label, region |-> region]
CardsAnswers ==
    {<< >>, <<Card(T, Absent, "EU"), Card(T, "x", "EU"), Card(T2, "y", "US"), Card(V1, "z", "EU")>>}

Timeouts ==
    [k \in MarketKinds \union RefreshKinds |->
       IF k = "details" THEN 960 ELSE IF k \in MarketKinds THEN 180 ELSE 120]
=============================================================================
