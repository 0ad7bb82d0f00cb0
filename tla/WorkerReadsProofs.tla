-------------------------- MODULE WorkerReadsProofs --------------------------
(***************************************************************************)
(* Proofs about WorkerReads: the answer to a request for the details of an *)
(* asset is of one instrument, accounts for every section asked for and    *)
(* agrees with its own sources, the lists of a search are cut at their     *)
(* caps only, and the reads fit the timeouts their clients are made with,  *)
(* for any answers of the bank and any timeouts the assumptions of         *)
(* MarketReads describe; and the dividends of what the walk captured add   *)
(* up.                                                                     *)
(***************************************************************************)
EXTENDS WorkerReads, StatementWalkProofs

Endpoint == {"snapshot", "etf", "composition", "returns", "stock", "reports"}
Slots == Endpoint \union {"static"}

-----------------------------------------------------------------------------
(* The invariant of a read.                                                *)

\* The candidate is one that the search offered and that matches the request.
FoundFits ==
    \E t \in Supported : \E raw \in Offered(t) : found = Candidate(raw, t) /\ Matches(found, ask)

\* What was sent was asked for, and the static item is the instrument's.
InFits ==
    /\ \A e \in Endpoint : in[e] # NotFetched => in[e] \in AnswersOf(e) /\ Fetched(ask, found.type, e)
    /\ in.static \in StaticAnswer
    /\ StaticVerified(IF in.static = Missing THEN Absent ELSE in.static.isin, found, ask)

\* Where the read is.
StageFits ==
    /\ stage \in {"idle", "read", "search", "static", "fetch", "replied"}
    /\ stage = "idle" => ask = NoAsk
    /\ stage # "idle" => ask \in Ask
    /\ stage = "read" => ask.kind # "details"
    /\ stage \in {"search", "static", "fetch"} => ask.kind = "details"
    /\ stage # "replied" => answer = NoAnswer

\* What it has come by.
DataFits ==
    /\ DOMAIN in = Slots
    /\ stage \in {"idle", "read", "search", "static"} => in = NothingFetched
    /\ stage \in {"static", "fetch"} => FoundFits /\ ~WantsOnlyIdentity(ask)
    /\ stage = "fetch" => InFits

\* What the details are made of: nothing but the candidate, or all that was to be
\* fetched.
DetailsFit ==
    answer.kind = "details" =>
      /\ stage = "replied" /\ ask.kind = "details" /\ FoundFits
      /\ \/ WantsOnlyIdentity(ask) /\ in = NothingFetched /\ answer = IdentityOnly(found)
         \/ /\ ~WantsOnlyIdentity(ask) /\ InFits /\ ToFetch = {}
            /\ ~Unexpected(in, found, found.type)
            /\ \E dcf \in {"agrees", "differs", "none"} :
                 answer = Details(ask, in, found, found.type, dcf)

ReadInv == StageFits /\ DataFits /\ DetailsFit

\* What a list of hits or of cards was made of.
ListsMade ==
    /\ answer.kind = "search" =>
         /\ ask \in Ask /\ ask.kind = "search" /\ sent \in SearchAnswer
         /\ answer.hits = SearchHits(sent, ask.type, ask.limit)
    /\ answer.kind = "indices" =>
         /\ ask \in Ask /\ ask.kind = "indices" /\ sent \in CardsAnswer
         /\ answer.cards = IndexCards(sent, ask.region, ask.limit)

\* The time a call may take at most, and what a read may have taken at each stage:
\* the calls that are left fit in the client's timeout with those that were made.
Call == Attempts * HttpTimeout
Term == {"exact", "spaced", "root", "compact"}
TimeFits ==
    /\ spent \in Nat /\ recovered \in BOOLEAN
    /\ terms \in Seq(Term) /\ Len(terms) <= 4
    /\ ~recovered =>
         /\ stage = "read" => spent <= LoginTime
         /\ stage = "search" => spent + Len(terms) * Call <= LoginTime + 4 * Call
         /\ stage = "static" => spent <= LoginTime + 4 * Call
         /\ stage = "fetch" => spent + Cardinality(ToFetch) * Call <= LoginTime + 9 * Call
         /\ stage = "replied" => spent <= ClientTimeout[ask.kind]
-----------------------------------------------------------------------------
(* The answer and its sources.                                             *)

\* A set of numbers that is not empty has a least one.
LEMMA LeastIsIn ==
    ASSUME NEW S, S \subseteq Nat, S # {}
    PROVE  Min(S) \in S
<1>1. PICK x \in S : \A y \in S : x <= y
    BY LeastNumber
<1> QED
    BY <1>1 DEF Min

\* An item among the rows was fetched, and is one of them that matches.
LEMMA ItemIsRow ==
    ASSUME NEW rows, NEW c, Item(MatchingRow(rows, c))
    PROVE  /\ rows # NotFetched
           /\ rows \in Seq(Range(rows)) =>
                \E i \in DOMAIN rows : MatchingRow(rows, c) = rows[i] /\ RowMatches(rows[i], c)
<1> DEFINE own == {i \in DOMAIN rows : RowMatches(rows[i], c)}
<1>1. rows # NotFetched
    BY DEF MatchingRow, Item
<1>2. own # {} /\ MatchingRow(rows, c) = rows[Min(own)]
    BY <1>1 DEF MatchingRow, Item
<1>3. ASSUME rows \in Seq(Range(rows)) PROVE Min(own) \in own
  <2>1. own \subseteq Nat
      BY <1>3
  <2> HIDE DEF own
  <2> QED
      BY <1>2, <2>1, LeastIsIn
<1> QED
    BY <1>1, <1>2, <1>3

\* What tells the identity is listed, wherever the currency was found.
LEMMA IdentityRefsListed ==
    ASSUME NEW a, NEW data, NEW c, NEW type \in Supported, NEW dcf
    PROVE  IdentityRefs(data, c, type) \subseteq SourcesOf(a, data, c, type, dcf)
<1>1. {"search.global", "static.search"} \subseteq SourcesOf(a, data, c, type, dcf)
    BY DEF SourcesOf
<1>2. CASE type = "etf"
    BY <1>1, <1>2 DEF IdentityRefs, EtfIdentityRefs
<1>3. CASE type = "stock"
  <2>1. Item(data.stock) => "stock.snapshot" \in SourcesOf(a, data, c, type, dcf)
      BY <1>3 DEF SourcesOf, StockSources, Item
  <2>2. CurrencyOf(data, c)[2] = "stock.snapshot" => Item(data.stock)
      BY DEF CurrencyOf
  <2>3. CurrencyOf(data, c)[2] \in {"search.global", "static.search", "stock.snapshot"}
      BY DEF CurrencyOf
  <2> QED
      BY <1>1, <1>3, <2>1, <2>2, <2>3 DEF IdentityRefs, StockIdentityRefs
<1>4. CASE type = "bond"
    BY <1>1, <1>4 DEF IdentityRefs, BondIdentityRefs
<1> QED
    BY <1>2, <1>3, <1>4 DEF Supported, DefaultSections

\* What tells a section is listed.
LEMMA SectionRefsListed ==
    ASSUME NEW a, NEW data, NEW c, NEW type \in Supported, NEW dcf,
           NEW s \in SectionsOf(a, data, c, type)
    PROVE  SectionRefs(data, type, s, dcf) \subseteq SourcesOf(a, data, c, type, dcf)
<1> DEFINE listed == SourcesOf(a, data, c, type, dcf)
<1>1. s \in Sections /\ Shows(a, type, s) /\ Available(data, c, type, s)
    BY DEF SectionsOf
<1>2. "static.search" \in listed
    BY DEF SourcesOf
<1>3. Item(data.snapshot) => "snapshot" \in listed
    BY DEF SourcesOf, Item
<1>4. CASE type = "etf"
  <2>1. EtfAvailable(data, c, s)
      BY <1>1, <1>4 DEF Available
  <2>2. EtfSources(data, c) \subseteq listed
      BY <1>4 DEF SourcesOf
  <2>3. /\ Item(MatchingRow(data.etf, c)) => "etf.query.snapshot" \in listed
        /\ Item(MatchingRow(data.composition, c)) => "etf.query.composition" \in listed
        /\ Item(MatchingRow(data.returns, c)) => "etf.query.returns" \in listed
      BY <2>2, ItemIsRow DEF EtfSources
  <2>4. CASE s = "listing"
      BY <1>2, <2>4 DEF SectionRefs
  <2>5. CASE s = "quote"
      BY <1>3, <2>1, <2>5 DEF SectionRefs, EtfAvailable
  <2>6. CASE s \in {"profile", "etf", "risk"}
    <3>1. Item(MatchingRow(data.etf, c))
        BY <2>1, <2>6 DEF EtfAvailable
    <3>2. SectionRefs(data, type, s, dcf) = {"etf.query.snapshot"}
        BY <1>4, <2>6 DEF SectionRefs
    <3> QED
        BY <2>3, <3>1, <3>2
  <2>7. CASE s \in {"holdings", "exposures"}
      BY <2>1, <2>3, <2>7 DEF SectionRefs, EtfAvailable
  <2>8. CASE s = "returns"
      BY <2>1, <2>3, <2>8 DEF SectionRefs, EtfAvailable
  <2>9. CASE s \in {"identity", "stock", "bond", "ratios", "external_enrichment"}
      BY <2>1, <2>9 DEF EtfAvailable
  <2> QED
      BY <1>1, <2>4, <2>5, <2>6, <2>7, <2>8, <2>9 DEF Sections
<1>5. CASE type = "stock"
  <2>1. StockAvailable(data, s)
      BY <1>1, <1>5 DEF Available
  <2>2. StockSources(data) \subseteq listed
      BY <1>5 DEF SourcesOf
  <2>3. /\ Item(data.stock) => "stock.snapshot" \in listed
        /\ Item(data.reports) => "stock.reports" \in listed
      BY <2>2 DEF StockSources, Item
  <2>4. CASE s = "listing"
      BY <1>2, <2>4 DEF SectionRefs
  <2>5. CASE s = "quote"
      BY <1>3, <2>1, <2>5 DEF SectionRefs, StockAvailable
  <2>6. CASE s \in {"profile", "stock"}
    <3>1. Item(data.stock)
        BY <2>1, <2>6 DEF StockAvailable
    <3>2. SectionRefs(data, type, s, dcf) = {"stock.snapshot"}
        BY <1>5, <2>6 DEF SectionRefs
    <3> QED
        BY <2>3, <3>1, <3>2
  <2>7. CASE s = "ratios"
      BY <2>1, <2>3, <2>7 DEF SectionRefs, StockAvailable
  <2>8. CASE s \in {"identity", "etf", "bond", "holdings", "exposures", "returns", "risk",
                    "external_enrichment"}
      BY <2>1, <2>8 DEF StockAvailable
  <2> QED
      BY <1>1, <2>4, <2>5, <2>6, <2>7, <2>8 DEF Sections
<1>6. CASE type = "bond"
  <2>1. BondAvailable(data, s)
      BY <1>1, <1>6 DEF Available
  <2>2. BondSources(a, data, dcf) \subseteq listed
      BY <1>6 DEF SourcesOf
  <2>3. s = "bond" => Shows(a, "bond", "bond")
      BY <1>1, <1>6
  <2>4. s = "bond" => BondRefs(data, dcf) \subseteq listed
    <3> SUFFICES ASSUME s = "bond" PROVE BondRefs(data, dcf) \subseteq listed
        OBVIOUS
    <3>1. Bonds!DirtyPrice(BondFacts(data), QuoteFacts(data)) # Absent
            \/ Bonds!Computed(BondFacts(data), QuoteFacts(data), dcf)
          => "computed" \in listed
        BY <2>2, <2>3 DEF BondSources, Bonds!HasComputed
    <3> QED
        BY <1>2, <1>3, <3>1 DEF BondRefs
  <2>5. CASE s = "listing"
      BY <1>2, <2>5 DEF SectionRefs
  <2>6. CASE s = "quote"
      BY <1>3, <2>1, <2>6 DEF SectionRefs, BondAvailable
  <2>7. CASE s = "bond"
      BY <2>4, <2>7 DEF SectionRefs
  <2> QED
      BY <2>1, <2>5, <2>6, <2>7 DEF BondAvailable
<1> QED
    BY <1>4, <1>5, <1>6 DEF Supported, DefaultSections

\* Details agree with their own sources, and a stock's quote is scaled just when
\* its currency is the pound.
LEMMA DetailsAgree ==
    ASSUME NEW a, NEW data, NEW c, NEW type \in Supported, NEW dcf
    PROVE  LET details == Details(a, data, c, type, dcf)
           IN /\ details.refs \subseteq details.sources
              /\ details.type = "stock" => (details.scaled <=> details.currency = "GBP")
<1> DEFINE details == Details(a, data, c, type, dcf)
           shown == SectionsOf(a, data, c, type)
<1>1. /\ details.refs = IdentityRefs(data, c, type) \union UNION {SectionRefs(data, type, s, dcf) : s \in shown}
      /\ details.sources = SourcesOf(a, data, c, type, dcf)
    BY DEF Details
<1>2. details.type = type /\ details.scaled = (type = "stock" /\ Scaled(data, c))
      /\ details.currency = CurrencyOf(data, c)[1]
    BY DEF Details
<1> HIDE DEF details
<1>3. details.refs \subseteq details.sources
    BY <1>1, IdentityRefsListed, SectionRefsListed
<1>4. details.type = "stock" => (details.scaled <=> details.currency = "GBP")
    BY <1>2 DEF Scaled
<1> QED
    BY <1>3, <1>4 DEF details

-----------------------------------------------------------------------------
(* Every section asked for is accounted for.                               *)

\* Everything that was to be fetched is there.
Complies(a, data, type) ==
    /\ a.sections \in {Absent} \union SUBSET Sections
    /\ data.static \in StaticAnswer
    /\ \A e \in Endpoint : Fetched(a, type, e) => data[e] # NotFetched /\ data[e] \in AnswersOf(e)

\* The row that belongs to the instrument is a row that was sent.
LEMMA RowWasSent ==
    ASSUME NEW rows \in EtfAnswer \union EtfDataAnswer, NEW c
    PROVE  /\ MatchingRow(rows, c) # NotFetched
           /\ MatchingRow(rows, c) # Missing =>
                \E i \in DOMAIN rows : MatchingRow(rows, c) = rows[i] /\ RowMatches(rows[i], c)
                                        /\ rows[i] \in EtfRows
<1> DEFINE own == {i \in DOMAIN rows : RowMatches(rows[i], c)}
<1>1. rows \in Seq(EtfRows) /\ rows # NotFetched
    BY AnswersAreItems
<1>2. own \subseteq Nat
    BY <1>1
<1>3. own # {} => Min(own) \in own
  <2> HIDE DEF own
  <2> QED
      BY <1>2, LeastIsIn
<1>4. own = {} => MatchingRow(rows, c) = Missing
    BY <1>1 DEF MatchingRow
<1>5. own # {} => MatchingRow(rows, c) = rows[Min(own)]
    BY <1>1 DEF MatchingRow
<1>6. own # {} => /\ RowMatches(rows[Min(own)], c)
                  /\ rows[Min(own)] \in EtfRows
    BY <1>1, <1>3
<1>7. NotFetched \notin EtfRows /\ NotFetched # Missing
    BY AnswersAreItems
<1> HIDE DEF own
<1>8. MatchingRow(rows, c) # NotFetched
    BY <1>4, <1>5, <1>6, <1>7
<1>9. ASSUME MatchingRow(rows, c) # Missing
      PROVE  \E i \in DOMAIN rows : MatchingRow(rows, c) = rows[i] /\ RowMatches(rows[i], c)
                                      /\ rows[i] \in EtfRows
  <2>1. own # {}
      BY <1>4, <1>9
  <2>2. Min(own) \in DOMAIN rows
      BY <1>3, <2>1 DEF own
  <2> QED
      BY <1>5, <1>6, <2>1, <2>2
<1> QED
    BY <1>8, <1>9

\* A section that shows is available, unless it has to be reported missing or the
\* bank has no item.
LEMMA AvailableUnless ==
    ASSUME NEW a, NEW data, NEW c, NEW type \in Supported,
           Complies(a, data, type), ~Unexpected(data, c, type),
           NEW s \in Sections \ {"identity", "external_enrichment"}, Shows(a, type, s)
    PROVE  \/ Available(data, c, type, s)
           \/ s \in NotApplicable[type]
           \/ s \in {"holdings", "exposures", "returns", "risk", "ratios"}
           \/ s = "listing" /\ data.static = Missing
           \/ s = "quote" /\ data.snapshot = Missing
<1>1. \A some : s \in some => Wants(a, some)
    BY DEF Shows, Wants
<1>2. ASSUME s = "listing" PROVE data.static = Missing \/ Item(data.static)
    BY AnswersAreItems DEF Complies, Item
<1>3. ASSUME s = "quote" PROVE data.snapshot = Missing \/ Item(data.snapshot)
  <2>1. Fetched(a, type, "snapshot")
      BY <1>1, <1>3 DEF Fetched
  <2> QED
      BY <2>1 DEF Complies, Item, Endpoint
<1>4. CASE type = "etf"
  <2>1. ASSUME s \in {"profile", "etf"} PROVE Item(MatchingRow(data.etf, c))
    <3>1. Wants(a, {"profile", "etf", "risk"})
        BY <1>1, <2>1
    <3>2. Fetched(a, type, "etf")
        BY <1>4, <3>1 DEF Fetched
    <3>3. data.etf \in EtfAnswer
        BY <3>2 DEF Complies, Endpoint, AnswersOf
    <3>4. MatchingRow(data.etf, c) # Missing
        BY <1>4 DEF Unexpected
    <3> QED
        BY <3>3, <3>4, RowWasSent DEF Item
  <2>2. s \in {"listing", "quote", "profile", "etf"} \union NotApplicable[type]
             \union {"holdings", "exposures", "returns", "risk", "ratios"}
      BY <1>4 DEF Sections, NotApplicable
  <2> QED
      BY <1>2, <1>3, <1>4, <2>1, <2>2 DEF Available, EtfAvailable
<1>5. CASE type = "stock"
  <2>1. ASSUME s \in {"profile", "stock"} PROVE Item(data.stock)
    <3>1. Wants(a, {"profile", "stock"})
        BY <1>1, <2>1
    <3>2. Fetched(a, type, "stock")
        BY <1>5, <3>1 DEF Fetched
    <3>3. data.stock \in StockAnswer
        BY <3>2 DEF Complies, Endpoint, AnswersOf
    <3> QED
        BY <3>3, AnswersAreItems DEF Item
  <2>2. s \in {"listing", "quote", "profile", "stock"} \union NotApplicable[type]
             \union {"holdings", "exposures", "returns", "risk", "ratios"}
      BY <1>5 DEF Sections, NotApplicable
  <2> QED
      BY <1>2, <1>3, <1>5, <2>1, <2>2 DEF Available, StockAvailable
<1>6. CASE type = "bond"
  <2>1. s \in {"listing", "quote", "bond"} \union NotApplicable[type]
             \union {"holdings", "exposures", "returns", "risk", "ratios"}
      BY <1>6 DEF Sections, NotApplicable
  <2> QED
      BY <1>2, <1>3, <1>6, <2>1 DEF Available, BondAvailable
<1> QED
    BY <1>4, <1>5, <1>6 DEF Supported, DefaultSections

\* What does not apply to an asset's type is not available.
LEMMA NotApplicableNotShown ==
    ASSUME NEW data, NEW c, NEW type \in Supported, NEW s \in NotApplicable[type]
    PROVE  ~Available(data, c, type, s)
<1>1. CASE type = "etf"
  <2>1. s \in {"stock", "ratios", "bond"}
      BY <1>1 DEF NotApplicable
  <2>2. ~EtfAvailable(data, c, s)
      BY <2>1 DEF EtfAvailable
  <2> QED
      BY <1>1, <2>2 DEF Available
<1>2. CASE type = "stock"
  <2>1. s \in {"etf", "holdings", "exposures", "returns", "risk", "bond"}
      BY <1>2 DEF NotApplicable
  <2>2. ~StockAvailable(data, s)
      BY <2>1 DEF StockAvailable
  <2> QED
      BY <1>2, <2>2 DEF Available
<1>3. CASE type = "bond"
  <2>1. s \notin {"listing", "quote", "bond"}
      BY <1>3 DEF NotApplicable
  <2>2. ~BondAvailable(data, s)
      BY <2>1 DEF BondAvailable
  <2> QED
      BY <1>3, <2>2 DEF Available
<1> QED
    BY <1>1, <1>2, <1>3 DEF Supported, DefaultSections

\* Figures that are computed are of a bond that matures in the future, has a
\* gross yield and pays a constant coupon or none.
LEMMA FiguresAreOfConstantCoupons ==
    ASSUME NEW bond, NEW quote, NEW dcf,
           bond.rate \in Int \union {Absent}, bond.payments \in (Nat \ {0}) \union {Absent},
           Bonds!Computed(bond, quote, dcf)
    PROVE  /\ \/ bond.type \in {"fixed", "zero_coupon"}
              \/ bond.type = Absent /\ bond.rate = 0
           /\ bond.expiry > 0 /\ quote.gross
<1>1. bond.expiry > 0
    BY DEF Bonds!Computed
<1>2. quote.gross
    BY DEF Bonds!Computed
<1>3. Bonds!IsZeroCoupon(bond) \/ bond.type = "fixed"
    BY DEF Bonds!Computed
<1>4. ASSUME Bonds!CouponRate(bond) = 0 PROVE bond.rate = 0
  <2>1. Absent \notin Int
      BY AnswersAreItems
  <2>2. bond.rate # Absent
      BY <1>4, <2>1 DEF Bonds!CouponRate
  <2>3. CASE bond.payments # Absent
    <3>1. bond.rate * bond.payments = 0
        BY <1>4, <2>2, <2>3 DEF Bonds!CouponRate
    <3>2. \A r \in Int, n \in Nat \ {0} : r * n = 0 => r = 0
        OBVIOUS
    <3> QED
        BY <2>2, <2>3, <3>1, <3>2
  <2>4. CASE bond.payments = Absent
      BY <1>4, <2>1, <2>2, <2>4 DEF Bonds!CouponRate
  <2> QED
      BY <2>3, <2>4
<1>5. Bonds!IsZeroCoupon(bond) =>
        bond.type = "zero_coupon" \/ (bond.type = Absent /\ bond.rate = 0)
    BY <1>4 DEF Bonds!IsZeroCoupon
<1> QED
    BY <1>1, <1>2, <1>3, <1>5

\* What the details say of the sections is what SectionsAccounted asks for.
LEMMA SectionsAreAccounted ==
    ASSUME NEW a, NEW data, NEW c, NEW type \in Supported, NEW dcf,
           Complies(a, data, type), ~Unexpected(data, c, type)
    PROVE  LET details == Details(a, data, c, type, dcf) IN
           /\ details.sections \cap details.missing = {}
           /\ a.sections # Absent =>
                \A s \in a.sections \ {"identity", "external_enrichment"} :
                   \/ s \in details.sections \union details.missing
                   \/ s = "listing" /\ data.static = Missing
                   \/ s = "quote" /\ data.snapshot = Missing
           /\ a.sections = Absent =>
                DefaultSections[type] \ {"listing", "quote"} \subseteq details.sections
           /\ ("bond" \in details.sections
                 /\ "bond_analytics_unavailable" \notin details.warnings) =>
                LET bond == BondFacts(data) IN
                /\ \/ bond.type \in {"fixed", "zero_coupon"}
                   \/ bond.type = Absent /\ bond.rate = 0
                /\ bond.expiry > 0 /\ QuoteFacts(data).gross
<1> DEFINE details == Details(a, data, c, type, dcf)
<1>1. /\ details.sections = SectionsOf(a, data, c, type)
      /\ details.missing = ReportedMissing(a, data, c, type)
      /\ details.warnings = WarningsOf(a, data, c, type, dcf)
    BY DEF Details
<1> HIDE DEF details
<1>2. details.sections \cap details.missing = {}
    BY <1>1, NotApplicableNotShown DEF SectionsOf, ReportedMissing
<1>3. ASSUME a.sections # Absent, NEW s \in a.sections \ {"identity", "external_enrichment"}
      PROVE  \/ s \in details.sections \union details.missing
             \/ s = "listing" /\ data.static = Missing
             \/ s = "quote" /\ data.snapshot = Missing
  <2>1. s \in Sections /\ Shows(a, type, s) /\ Requested(a, s)
      BY <1>3 DEF Complies, Shows, Requested
  <2> QED
      BY <1>1, <2>1, AvailableUnless DEF SectionsOf, ReportedMissing
<1>4. ASSUME a.sections = Absent, NEW s \in DefaultSections[type] \ {"listing", "quote"}
      PROVE  s \in details.sections
  <2>1. Shows(a, type, s)
      BY <1>4 DEF Shows
  <2>2. /\ s \in Sections \ {"identity", "external_enrichment"}
        /\ s \notin NotApplicable[type]
        /\ s \notin {"holdings", "exposures", "returns", "risk", "ratios"}
      BY <1>4 DEF DefaultSections, Supported, Sections, NotApplicable
  <2>3. Available(data, c, type, s)
      BY <1>4, <2>1, <2>2, AvailableUnless
  <2> QED
      BY <1>1, <2>1, <2>2, <2>3 DEF SectionsOf
<1>5. ASSUME "bond" \in details.sections, "bond_analytics_unavailable" \notin details.warnings
      PROVE  LET bond == BondFacts(data) IN
             /\ \/ bond.type \in {"fixed", "zero_coupon"}
                \/ bond.type = Absent /\ bond.rate = 0
             /\ bond.expiry > 0 /\ QuoteFacts(data).gross
  <2>1. Available(data, c, type, "bond") /\ Shows(a, type, "bond")
      BY <1>1, <1>5 DEF SectionsOf
  <2>2. type = "bond"
      BY <2>1, NotApplicableNotShown DEF Supported, DefaultSections, NotApplicable
  <2>3. Bonds!BondWarnings(BondFacts(data), QuoteFacts(data), dcf) \subseteq details.warnings
      BY <1>1, <2>1, <2>2 DEF WarningsOf
  <2>4. ~Bonds!Computed(BondFacts(data), QuoteFacts(data), dcf) =>
          "bond_analytics_unavailable" \in Bonds!BondWarnings(BondFacts(data), QuoteFacts(data), dcf)
      BY DEF Bonds!BondWarnings
  <2>5. Bonds!Computed(BondFacts(data), QuoteFacts(data), dcf)
      BY <1>5, <2>3, <2>4
  <2>6. /\ BondFacts(data).rate \in Int \union {Absent}
        /\ BondFacts(data).payments \in (Nat \ {0}) \union {Absent}
    <3>1. CASE Item(data.static)
        BY <3>1, AnswersAreItems DEF Complies, BondFacts, Item
    <3>2. CASE ~Item(data.static)
        BY <3>2 DEF BondFacts, NoBondFacts
    <3> QED
        BY <3>1, <3>2
  <2> QED
      BY <2>5, <2>6, FiguresAreOfConstantCoupons
<1> QED
    BY <1>2, <1>3, <1>4, <1>5 DEF details

-----------------------------------------------------------------------------
(* The answer is of one instrument.                                        *)

\* The key of a candidate names no other instrument than the candidate's.
LEMMA KeyNamesInstrument ==
    ASSUME NEW t \in Supported, NEW raw \in Offered(t), NEW x, NameOf(Candidate(raw, t).key, x)
    PROVE  Same(x, Candidate(raw, t))
<1> DEFINE c == Candidate(raw, t)
<1>1. /\ c.isin = raw.isin /\ c.venue = raw.venue
      /\ FullSymbol(c) = <<raw.symbol, raw.class>>
    BY DEF Candidate, FullSymbol
<1>2. c.key = IF raw.isin # Absent THEN <<raw.isin, raw.venue>>
              ELSE <<<<raw.symbol, raw.class>>, raw.venue>>
    BY DEF Candidate
<1>3. c.key \in {x.isin, <<x.isin, x.venue>>, <<x.symbol, x.venue>>}
    BY DEF NameOf
<1>4. /\ x.symbol # raw.isin /\ x.isin # <<raw.symbol, raw.class>>
      /\ x.isin \notin {<<raw.isin, raw.venue>>, <<<<raw.symbol, raw.class>>, raw.venue>>}
    BY DEF NameOf
<1> HIDE DEF c
<1>5. CASE raw.isin # Absent
  <2>1. c.key = <<raw.isin, raw.venue>>
      BY <1>2, <1>5
  <2>2. x.isin = raw.isin
      BY <1>3, <1>4, <2>1
  <2> QED
      BY <1>1, <1>5, <2>2 DEF Same, c
<1>6. CASE raw.isin = Absent
  <2>1. c.key = <<<<raw.symbol, raw.class>>, raw.venue>>
      BY <1>2, <1>6
  <2>2. x.symbol = <<raw.symbol, raw.class>> /\ x.venue = raw.venue
      BY <1>3, <1>4, <2>1
  <2> QED
      BY <1>1, <1>6, <2>2 DEF Same, c
<1> QED
    BY <1>5, <1>6

\* A row that matches a candidate is of the candidate's instrument.
LEMMA RowIsOwn ==
    ASSUME NEW t \in Supported, NEW raw \in Offered(t), NEW r \in EtfRows,
           RowMatches(r, Candidate(raw, t))
    PROVE  Same(r.of, Candidate(raw, t))
<1> DEFINE c == Candidate(raw, t)
<1>1. /\ c.isin = raw.isin /\ c.venue = raw.venue
      /\ FullSymbol(c) = <<raw.symbol, raw.class>>
    BY DEF Candidate, FullSymbol
<1>2. /\ r.isin \in {Absent, r.of.isin} /\ r.venue \in {Absent, r.of.venue}
      /\ r.ticker \in {Absent, r.of.symbol}
      /\ r.id # Absent => NameOf(r.id, r.of)
      /\ raw.isin # Absent /\ <<raw.symbol, raw.class>> = r.of.symbol /\ raw.venue = r.of.venue
           => raw.isin = r.of.isin
    BY BankTellsTruth
<1>3. raw.venue # Absent
    BY DEF Offered, Complete
<1>4. c.key # Absent
    BY AnswersAreItems
<1> HIDE DEF c
<1>5. RowMatches(r, c)
    BY DEF c
<1>6. CASE r.id = c.key
    BY <1>2, <1>4, <1>6, KeyNamesInstrument DEF c
<1>7. CASE c.isin # Absent /\ r.isin # Absent /\ r.isin = c.isin
    BY <1>2, <1>7 DEF Same, c
<1>8. CASE c.isin # Absent /\ r.id # Absent /\ r.id \in {c.isin, <<c.isin, c.venue>>}
  <2>1. /\ r.id \in {r.of.isin, <<r.of.isin, r.of.venue>>, <<r.of.symbol, r.of.venue>>}
        /\ r.of.symbol # raw.isin
        /\ r.of.isin # <<raw.isin, raw.venue>>
        /\ raw.isin \notin {<<r.of.isin, r.of.venue>>, <<r.of.symbol, r.of.venue>>}
      BY <1>2, <1>8 DEF NameOf
  <2>2. r.of.isin = raw.isin
      BY <1>1, <1>8, <2>1
  <2> QED
      BY <1>1, <1>8, <2>2 DEF Same, c
<1>9. CASE /\ r.ticker # Absent /\ r.ticker = FullSymbol(c)
           /\ r.venue = c.venue
  <2>1. r.of.symbol = <<raw.symbol, raw.class>> /\ r.of.venue = raw.venue
      BY <1>1, <1>2, <1>3, <1>9
  <2>2. c.isin # Absent => r.of.isin = c.isin
      BY <1>1, <1>2, <2>1
  <2> QED
      BY <1>1, <2>1, <2>2 DEF Same, c
<1> QED
    BY <1>5, <1>6, <1>7, <1>8, <1>9 DEF RowMatches

-----------------------------------------------------------------------------
(* The invariant of a read is inductive.                                   *)

\* The endpoints by name, and the answers before any is asked.
LEMMA SlotsByName ==
    /\ ToSet(Endpoints) = Endpoint
    /\ DOMAIN NothingFetched = Slots
    /\ \A e \in Slots : NothingFetched[e] = NotFetched
<1>1. ToSet(Endpoints) = Endpoint
    BY DEF ToSet, Endpoints, Endpoint
<1> QED
    BY <1>1 DEF NothingFetched, Slots

\* An answer other than details keeps the invariant wherever the read was.
LEMMA OtherReplies ==
    ASSUME ReadInv, stage # "idle", ask' = ask, DOMAIN in' = Slots,
           stage' = "replied", answer'.kind # "details"
    PROVE  ReadInv'
<1>1. StageFits'
    BY DEF ReadInv, StageFits
<1>2. DataFits'
    BY DEF DataFits
<1>3. DetailsFit'
    BY DEF DetailsFit
<1> QED
    BY <1>1, <1>2, <1>3 DEF ReadInv

\* The read starts without anything, for the first time or again.
LEMMA StartsFit ==
    ASSUME ask' \in Ask, Start(ask'), answer' = NoAnswer
    PROVE  ReadInv'
<1>1. stage' = IF ask'.kind = "details" THEN "search" ELSE "read"
    BY DEF Start, FirstStage
<1>2. in' = NothingFetched
    BY DEF Start
<1>3. StageFits'
    BY <1>1 DEF StageFits
<1>4. DataFits'
    BY <1>1, <1>2, SlotsByName DEF DataFits
<1>5. DetailsFit'
    BY DEF DetailsFit, NoAnswer
<1> QED
    BY <1>3, <1>4, <1>5 DEF ReadInv

\* The candidate that is found is on offer and matches.
LEMMA HitIsOnOffer ==
    ASSUME ask \in Ask, ask.kind = "details",
           NEW response \in SearchAnswer, NEW hit \in Survivors(response, ask),
           CandidateAt(response, hit).type \in Supported
    PROVE  \E t \in Supported : \E raw \in Offered(t) :
              CandidateAt(response, hit) = Candidate(raw, t) /\ Matches(CandidateAt(response, hit), ask)
<1> DEFINE raw == response[hit.type][hit.at]
<1>1. PICK t \in AssetType : hit \in [type : {t}, at : DOMAIN response[t]]
    BY DEF Survivors
<1>2. hit.type = t /\ hit.at \in DOMAIN response[t]
    BY <1>1
<1>3. Complete(raw) /\ Matches(Candidate(raw, t), ask)
    BY <1>2 DEF Survivors, CandidateAt
<1>4. t \in Supported
    BY <1>2 DEF CandidateAt, Candidate
<1>5. raw \in UNION {ToSet(r[t]) : r \in SearchAnswer}
  <2>1. raw \in ToSet(response[t])
      BY <1>2 DEF ToSet
  <2> HIDE DEF raw
  <2> QED
      BY <2>1
<1>6. raw.venue = ask.venue
    BY <1>3 DEF Matches, Candidate
<1>7. raw \in Offered(t)
  <2> HIDE DEF raw
  <2> QED
      BY <1>3, <1>5, <1>6 DEF Offered
<1> QED
    BY <1>2, <1>3, <1>4, <1>7 DEF CandidateAt

\* A term that is tried finds the candidate, or nothing, or an error.
LEMMA SearchTermFits ==
    ASSUME ReadInv, SearchTerm
    PROVE  ReadInv'
<1>1. /\ stage = "search" /\ ask' = ask /\ in' = in
      /\ ask \in Ask /\ ask.kind = "details"
    BY DEF SearchTerm, ReadInv, StageFits
<1>2. in = NothingFetched /\ DOMAIN in = Slots /\ answer = NoAnswer
    BY <1>1 DEF ReadInv, DataFits, StageFits
<1>3. PICK response \in SearchAnswer :
         LET left == Survivors(response, ask) IN
         \/ left = {} /\ UNCHANGED <<stage, found, answer>>
         \/ /\ \E hit, other \in left : hit # other
            /\ Reply(Error("market_ambiguous_identifier")) /\ UNCHANGED found
         \/ \E hit \in left : left = {hit} /\ Resolves(CandidateAt(response, hit))
    BY DEF SearchTerm
<1>4. CASE UNCHANGED <<stage, found, answer>>
  <2>1. StageFits'
      BY <1>1, <1>4 DEF ReadInv, StageFits
  <2>2. DataFits'
      BY <1>1, <1>2, <1>4 DEF DataFits
  <2>3. DetailsFit'
      BY <1>2, <1>4 DEF DetailsFit, NoAnswer
  <2> QED
      BY <2>1, <2>2, <2>3 DEF ReadInv
<1>5. CASE Reply(Error("market_ambiguous_identifier"))
    BY <1>1, <1>2, <1>5, OtherReplies DEF Reply, Error
<1>6. CASE \E hit \in Survivors(response, ask) : Resolves(CandidateAt(response, hit))
  <2>1. PICK hit \in Survivors(response, ask) : Resolves(CandidateAt(response, hit))
      BY <1>6
  <2> DEFINE candidate == CandidateAt(response, hit)
  <2>2. CASE candidate.type \notin Supported
    <3>1. Reply(Error("market_unsupported_asset_type"))
        BY <2>1, <2>2 DEF Resolves
    <3> QED
        BY <1>1, <1>2, <3>1, OtherReplies DEF Reply, Error
  <2>3. CASE candidate.type \in Supported
    <3>1. found' = candidate
        BY <2>1, <2>3 DEF Resolves
    <3>2. IF WantsOnlyIdentity(ask) THEN Reply(IdentityOnly(candidate))
          ELSE stage' = "static" /\ UNCHANGED answer
        BY <2>1, <2>3 DEF Resolves
    <3>3. \E t \in Supported : \E raw \in Offered(t) :
             candidate = Candidate(raw, t) /\ Matches(candidate, ask)
        BY <1>1, <2>3, HitIsOnOffer
    <3> HIDE DEF candidate
    <3>4. FoundFits'
        BY <1>1, <3>1, <3>3 DEF FoundFits
    <3>5. CASE WantsOnlyIdentity(ask)
      <4>1. stage' = "replied" /\ answer' = IdentityOnly(candidate)
          BY <3>2, <3>5 DEF Reply
      <4>2. StageFits'
          BY <1>1, <4>1 DEF StageFits
      <4>3. DataFits'
          BY <1>1, <1>2, <4>1 DEF DataFits
      <4>4. DetailsFit'
          BY <1>1, <1>2, <3>1, <3>4, <3>5, <4>1 DEF DetailsFit
      <4> QED
          BY <4>2, <4>3, <4>4 DEF ReadInv
    <3>6. CASE ~WantsOnlyIdentity(ask)
      <4>1. stage' = "static" /\ answer' = NoAnswer
          BY <1>2, <3>2, <3>6
      <4>2. StageFits'
          BY <1>1, <4>1 DEF StageFits
      <4>3. DataFits'
          BY <1>1, <1>2, <3>4, <3>6, <4>1 DEF DataFits
      <4>4. DetailsFit'
          BY <4>1 DEF DetailsFit, NoAnswer
      <4> QED
          BY <4>2, <4>3, <4>4 DEF ReadInv
    <3> QED
        BY <3>5, <3>6
  <2> QED
      BY <2>2, <2>3
<1> QED
    BY <1>3, <1>4, <1>5, <1>6

\* The static item is the instrument's, or the read ends.
LEMMA ReadStaticFits ==
    ASSUME ReadInv, ReadStatic
    PROVE  ReadInv'
<1>1. /\ stage = "static" /\ ask' = ask /\ found' = found
      /\ ask \in Ask /\ ask.kind = "details"
    BY DEF ReadStatic, ReadInv, StageFits
<1>2. /\ in = NothingFetched /\ answer = NoAnswer
      /\ FoundFits /\ ~WantsOnlyIdentity(ask)
    BY <1>1 DEF ReadInv, DataFits, StageFits
<1>3. PICK item \in StaticAnswer :
         /\ in' = [in EXCEPT !.static = item]
         /\ IF StaticVerified(IF item = Missing THEN Absent ELSE item.isin, found, ask)
            THEN stage' = "fetch" /\ UNCHANGED answer
            ELSE Reply(Error("market_unexpected_response"))
    BY DEF ReadStatic
<1>4. /\ DOMAIN in' = Slots /\ in'.static = item
      /\ \A e \in Endpoint : in'[e] = NotFetched
  <2>1. /\ DOMAIN in = Slots
        /\ \A e \in Endpoint : in[e] = NotFetched
      BY <1>2, SlotsByName DEF Slots
  <2>2. "static" \in Slots /\ "static" \notin Endpoint
      BY DEF Slots, Endpoint
  <2> QED
      BY <1>3, <2>1, <2>2 DEF Slots
<1>5. CASE StaticVerified(IF item = Missing THEN Absent ELSE item.isin, found, ask)
  <2>1. stage' = "fetch" /\ answer' = NoAnswer
      BY <1>2, <1>3, <1>5
  <2>2. FoundFits'
      BY <1>1, <1>2 DEF FoundFits
  <2>3. InFits'
      BY <1>1, <1>4, <1>5 DEF InFits
  <2>4. StageFits'
      BY <1>1, <2>1 DEF StageFits
  <2>5. DataFits'
      BY <1>1, <1>2, <1>4, <2>1, <2>2, <2>3 DEF DataFits
  <2>6. DetailsFit'
      BY <2>1 DEF DetailsFit, NoAnswer
  <2> QED
      BY <2>4, <2>5, <2>6 DEF ReadInv
<1>6. CASE ~StaticVerified(IF item = Missing THEN Absent ELSE item.isin, found, ask)
  <2>1. Reply(Error("market_unexpected_response"))
      BY <1>3, <1>6
  <2> QED
      BY <1>1, <1>4, <2>1, OtherReplies DEF Reply, Error
<1> QED
    BY <1>5, <1>6

\* The endpoint that is asked next is one that is still to be asked.
LEMMA NextIsToFetch ==
    ASSUME ToFetch # {}
    PROVE  /\ Min(ToFetch) \in ToFetch
           /\ NextEndpoint \in Endpoint /\ NextEndpoint = Endpoints[Min(ToFetch)]
           /\ Fetched(ask, found.type, NextEndpoint) /\ in[NextEndpoint] = NotFetched
<1>1. ToFetch \subseteq 1..6
    BY DEF ToFetch, Endpoints
<1>2. Min(ToFetch) \in ToFetch
  <2>1. ToFetch \subseteq Nat
      BY <1>1
  <2> QED
      BY <2>1, LeastIsIn
<1>3. PICK k \in ToFetch : k = Min(ToFetch)
    BY <1>2
<1>4. NextEndpoint = Endpoints[k]
    BY <1>3 DEF NextEndpoint
<1>5. Endpoints[k] \in Endpoint
    BY <1>1 DEF Endpoints, Endpoint
<1>6. Fetched(ask, found.type, Endpoints[k]) /\ in[Endpoints[k]] = NotFetched
    BY DEF ToFetch
<1> QED
    BY <1>2, <1>3, <1>4, <1>5, <1>6

\* An endpoint is asked only for what is wanted.
LEMMA FetchNextFits ==
    ASSUME ReadInv, FetchNext
    PROVE  ReadInv'
<1>1. /\ stage = "fetch" /\ ToFetch # {}
      /\ ask' = ask /\ found' = found /\ stage' = stage /\ answer' = answer
    BY DEF FetchNext
<1>2. /\ FoundFits /\ ~WantsOnlyIdentity(ask) /\ InFits
      /\ DOMAIN in = Slots /\ answer = NoAnswer
    BY <1>1 DEF ReadInv, DataFits, StageFits
<1>3. /\ NextEndpoint \in Endpoint
      /\ Fetched(ask, found.type, NextEndpoint)
    BY <1>1, NextIsToFetch
<1>4. PICK response \in AnswersOf(NextEndpoint) : in' = [in EXCEPT ![NextEndpoint] = response]
    BY DEF FetchNext
<1>5. /\ DOMAIN in' = Slots /\ in'.static = in.static
      /\ \A e \in Endpoint : in'[e] = IF e = NextEndpoint THEN response ELSE in[e]
    BY <1>2, <1>3, <1>4 DEF Slots, Endpoint
<1>6. InFits'
  <2>1. \A e \in Endpoint :
           in'[e] # NotFetched => in'[e] \in AnswersOf(e) /\ Fetched(ask, found.type, e)
      BY <1>2, <1>3, <1>5 DEF InFits
  <2> QED
      BY <1>1, <1>2, <1>5, <2>1 DEF InFits
<1>7. FoundFits'
    BY <1>1, <1>2 DEF FoundFits
<1>8. StageFits'
    BY <1>1 DEF ReadInv, StageFits
<1>9. DataFits'
    BY <1>1, <1>2, <1>5, <1>6, <1>7 DEF DataFits
<1>10. DetailsFit'
    BY <1>1, <1>2 DEF DetailsFit, NoAnswer
<1> QED
    BY <1>8, <1>9, <1>10 DEF ReadInv

\* The details are put together when all is there.
LEMMA AssembleFits ==
    ASSUME ReadInv, Assemble
    PROVE  ReadInv'
<1>1. /\ stage = "fetch" /\ ToFetch = {}
      /\ ask' = ask /\ found' = found /\ in' = in
    BY DEF Assemble
<1>2. /\ FoundFits /\ ~WantsOnlyIdentity(ask) /\ InFits
      /\ DOMAIN in = Slots /\ ask \in Ask /\ ask.kind = "details"
    BY <1>1 DEF ReadInv, DataFits, StageFits
<1>3. CASE Unexpected(in, found, found.type)
  <2>1. Reply(Error("market_unexpected_response"))
      BY <1>3 DEF Assemble
  <2> QED
      BY <1>1, <1>2, <2>1, OtherReplies DEF Reply, Error
<1>4. CASE ~Unexpected(in, found, found.type)
  <2>1. PICK dcf \in {"agrees", "differs", "none"} :
            Reply(Details(ask, in, found, found.type, dcf))
      BY <1>4 DEF Assemble
  <2>2. stage' = "replied" /\ answer' = Details(ask, in, found, found.type, dcf)
      BY <2>1 DEF Reply
  <2>3. StageFits'
      BY <1>1, <1>2, <2>2 DEF StageFits
  <2>4. DataFits'
      BY <1>1, <1>2, <2>2 DEF DataFits
  <2>5. FoundFits' /\ InFits' /\ ToFetch' = {}
      BY <1>1, <1>2 DEF FoundFits, InFits, ToFetch
  <2>6. DetailsFit'
      BY <1>1, <1>2, <1>4, <2>2, <2>5 DEF DetailsFit
  <2> QED
      BY <2>3, <2>4, <2>6 DEF ReadInv
<1> QED
    BY <1>3, <1>4

\* A 401 starts the read over, or ends it.
LEMMA CallUnauthorizedFits ==
    ASSUME ReadInv, CallUnauthorized
    PROVE  ReadInv'
<1>1. /\ ask' = ask /\ ask \in Ask /\ stage # "idle"
      /\ answer = NoAnswer /\ DOMAIN in = Slots
    BY DEF CallUnauthorized, Calling, ReadInv, StageFits, DataFits
<1>2. CASE reused /\ ~recovered
  <2>1. Start(ask') /\ answer' = NoAnswer
      BY <1>1, <1>2 DEF CallUnauthorized, Start
  <2> QED
      BY <1>1, <2>1, StartsFit
<1>3. CASE ~(reused /\ ~recovered)
  <2>1. Reply(Error("market_auth_required")) /\ in' = in
      BY <1>3 DEF CallUnauthorized
  <2> QED
      BY <1>1, <2>1, OtherReplies DEF Reply, Error
<1> QED
    BY <1>2, <1>3

\* Every step keeps the invariant.
LEMMA ReadStepFits == ReadInv /\ [ReadsNext]_readVars => ReadInv'
<1> SUFFICES ASSUME ReadInv, [ReadsNext]_readVars PROVE ReadInv'
    OBVIOUS
<1>0. DOMAIN in = Slots
    BY DEF ReadInv, DataFits
<1>1. CASE Begin
  <2>1. ask' \in Ask /\ answer' = NoAnswer /\ Start(ask')
      BY <1>1 DEF Begin
  <2> QED
      BY <2>1, StartsFit
<1>2. CASE ReadSearch
  <2>1. stage # "idle" /\ ask' = ask /\ in' = in /\ stage' = "replied" /\ answer'.kind = "search"
      BY <1>2 DEF ReadSearch, Reply
  <2> QED
      BY <1>0, <2>1, OtherReplies
<1>3. CASE ReadIndices
  <2>1. stage # "idle" /\ ask' = ask /\ in' = in /\ stage' = "replied" /\ answer'.kind = "indices"
      BY <1>3 DEF ReadIndices, Reply
  <2> QED
      BY <1>0, <2>1, OtherReplies
<1>4. CASE ReadAccount
  <2>1. stage # "idle" /\ ask' = ask /\ in' = in /\ stage' = "replied" /\ answer'.kind = "account"
      BY <1>4 DEF ReadAccount, Reply
  <2> QED
      BY <1>0, <2>1, OtherReplies
<1>5. CASE NotFound \/ TooLarge \/ CallFails
  <2>1. /\ stage # "idle" /\ ask' = ask /\ in' = in /\ stage' = "replied"
        /\ answer'.kind = "error"
      BY <1>5 DEF NotFound, TooLarge, CallFails, Calling, Reply, Error
  <2> QED
      BY <1>0, <2>1, OtherReplies
<1>6. CASE Done
  <2>1. StageFits'
      BY <1>6 DEF Done, StageFits
  <2>2. DataFits'
      BY <1>6, SlotsByName DEF Done, DataFits
  <2>3. DetailsFit'
      BY <1>6 DEF Done, DetailsFit, NoAnswer
  <2> QED
      BY <2>1, <2>2, <2>3 DEF ReadInv
<1>7. CASE UNCHANGED readVars
  <2>1. StageFits'
      BY <1>7 DEF ReadInv, StageFits, readVars
  <2>2. DataFits'
      BY <1>7 DEF ReadInv, DataFits, InFits, FoundFits, readVars
  <2>3. DetailsFit'
      BY <1>7 DEF ReadInv, DetailsFit, InFits, FoundFits, ToFetch, readVars
  <2> QED
      BY <2>1, <2>2, <2>3 DEF ReadInv
<1> QED
    BY <1>1, <1>2, <1>3, <1>4, <1>5, <1>6, <1>7, SearchTermFits, ReadStaticFits, FetchNextFits,
       AssembleFits, CallUnauthorizedFits DEF ReadsNext

\* A read is always where its data allow it to be.
THEOREM ReadsFit == ReadsSpec => []ReadInv
<1>1. ReadsInit => ReadInv
  <2> SUFFICES ASSUME ReadsInit PROVE ReadInv
      OBVIOUS
  <2>1. StageFits
      BY DEF ReadsInit, StageFits
  <2>2. DataFits
      BY SlotsByName DEF ReadsInit, DataFits
  <2>3. DetailsFit
      BY DEF ReadsInit, DetailsFit, NoAnswer
  <2> QED
      BY <2>1, <2>2, <2>3 DEF ReadInv
<1> QED
    BY <1>1, ReadStepFits, PTL DEF ReadsSpec

-----------------------------------------------------------------------------
(* What the answers promise.                                               *)

\* What the details are made of complies with what was asked.
LEMMA InComplies ==
    ASSUME ask \in Ask, ask.kind = "details", InFits, ToFetch = {}
    PROVE  Complies(ask, in, found.type)
<1>1. ask.sections \in {Absent} \union SUBSET Sections
    BY ReadConstants
<1>2. ASSUME NEW e \in Endpoint, Fetched(ask, found.type, e) PROVE in[e] # NotFetched
  <2>1. PICK k \in DOMAIN Endpoints : Endpoints[k] = e
      BY <1>2, SlotsByName DEF ToSet
  <2> QED
      BY <1>2, <2>1 DEF ToFetch
<1> QED
    BY <1>1, <1>2 DEF Complies, InFits

\* What the answer was made of is of the instrument that was found.
LEMMA SourcesAreOwn ==
    ASSUME NEW t \in Supported, NEW raw \in Offered(t),
           found = Candidate(raw, t), Matches(found, ask), InFits,
           ~Unexpected(in, found, t), NEW x \in Sources, Item(x)
    PROVE  Same(x.of, found)
<1>1. found.isin = raw.isin /\ found.type = t /\ FullSymbol(found) = <<raw.symbol, raw.class>>
    BY DEF Candidate, FullSymbol
<1>2. ASSUME NEW rows \in EtfAnswer \union EtfDataAnswer, x = MatchingRow(rows, found)
      PROVE  Same(x.of, found)
  <2>1. PICK i \in DOMAIN rows : x = rows[i] /\ RowMatches(rows[i], found) /\ rows[i] \in EtfRows
      BY <1>2, RowWasSent DEF Item
  <2> QED
      BY <2>1, RowIsOwn
<1>3. CASE x \in {MatchingRow(in[e], found) : e \in {"etf", "composition", "returns"}}
  <2>1. PICK e \in {"etf", "composition", "returns"} : x = MatchingRow(in[e], found)
      BY <1>3
  <2>2. in[e] # NotFetched
      BY <2>1 DEF MatchingRow, Item
  <2>3. in[e] \in EtfAnswer \union EtfDataAnswer
      BY <2>1, <2>2 DEF InFits, Endpoint, AnswersOf
  <2> QED
      BY <1>2, <2>1, <2>3
<1>4. CASE Item(in.stock) /\ in.stock.ticker # Absent /\ ~DroppedDigit(in.stock, found) /\ x = in.stock
  <2>1. in.stock \in StockAnswer /\ Fetched(ask, t, "stock")
      BY <1>1, <1>4 DEF InFits, Endpoint, AnswersOf, Item
  <2>2. t = "stock"
      BY <2>1 DEF Fetched
  <2>3. StockIsOwn(in.stock, found)
      BY <1>4, <2>2 DEF Unexpected, Item
  <2>4. in.stock.ticker = <<raw.symbol, raw.class>>
      BY <1>1, <1>4, <2>3 DEF StockIsOwn, ExactTicker
  <2> QED
      BY <1>4, <2>1, <2>2, <2>4, BankTellsTruth
<1>5. CASE Item(in.reports) /\ in.reports.instrument # Absent /\ x = in.reports
  <2>1. in.reports \in ReportsAnswer /\ Fetched(ask, t, "reports")
      BY <1>1, <1>5 DEF InFits, Endpoint, AnswersOf, Item
  <2>2. t = "stock"
      BY <2>1 DEF Fetched
  <2>3. in.reports.instrument = found.key
      BY <1>5, <2>2 DEF Unexpected, Item, ReportsAreOwn
  <2>4. NameOf(found.key, x.of)
      BY <1>5, <2>1, <2>3, BankTellsTruth
  <2> QED
      BY <2>4, KeyNamesInstrument
<1>6. CASE found.isin # Absent /\ x = in.static
  <2>1. in.static \in StaticAnswer \ {Missing}
      BY <1>6 DEF InFits, Item
  <2>2. in.static.isin = found.isin
      BY <1>6, <2>1 DEF InFits, StaticVerified, Matches
  <2>3. in.static.of.isin = found.isin
      BY <1>6, <2>1, <2>2, BankTellsTruth
  <2> QED
      BY <1>6, <2>3 DEF Same
<1> QED
    BY <1>3, <1>4, <1>5, <1>6 DEF Sources

\* Without anything fetched there is nothing that could be another instrument's.
LEMMA NothingIsNobodys ==
    ASSUME in = NothingFetched, NEW x \in Sources
    PROVE  ~Item(x)
<1>1. \A e \in Slots : in[e] = NotFetched
    BY SlotsByName
<1>2. \A e \in {"etf", "composition", "returns"} : MatchingRow(in[e], found) = NotFetched
    BY <1>1 DEF MatchingRow, Slots, Endpoint
<1>3. in.stock = NotFetched /\ in.reports = NotFetched /\ in.static = NotFetched
    BY <1>1 DEF Slots, Endpoint
<1> QED
    BY <1>2, <1>3 DEF Sources, Item

\* An answer is of one instrument, the one that was asked for.
THEOREM AnswersAreOfOneInstrument == ReadsSpec => []OneInstrument
<1>1. ReadInv => OneInstrument
  <2> SUFFICES ASSUME ReadInv, answer.kind = "details"
               PROVE  /\ Matches(found, ask)
                      /\ ask.isin # Absent => found.isin = ask.isin
                      /\ \A x \in Sources : Item(x) => Same(x.of, found)
      BY DEF OneInstrument
  <2>0. PICK t \in Supported :
            \E raw \in Offered(t) : found = Candidate(raw, t) /\ Matches(found, ask)
      BY DEF ReadInv, DetailsFit, FoundFits
  <2>1. PICK raw \in Offered(t) : found = Candidate(raw, t) /\ Matches(found, ask)
      BY <2>0
  <2>2. ask.isin # Absent => found.isin = ask.isin
      BY <2>1 DEF Matches
  <2>3. ASSUME NEW x \in Sources, Item(x) PROVE Same(x.of, found)
    <3>1. CASE in = NothingFetched
        BY <2>3, <3>1, NothingIsNobodys
    <3>2. CASE in # NothingFetched
      <4>1. InFits /\ ~Unexpected(in, found, found.type)
          BY <3>2 DEF ReadInv, DetailsFit
      <4>2. found.type = t
          BY <2>1 DEF Candidate
      <4> QED
          BY <2>1, <2>3, <4>1, <4>2, SourcesAreOwn
    <3> QED
        BY <3>1, <3>2
  <2> QED
      BY <2>1, <2>2, <2>3
<1> QED
    BY <1>1, ReadsFit, PTL

\* No section asked for disappears without a word.
THEOREM SectionsAreTold == ReadsSpec => []SectionsAccounted
<1>1. ReadInv => SectionsAccounted
  <2> SUFFICES ASSUME ReadInv, answer.kind = "details", ~WantsOnlyIdentity(ask)
               PROVE  SectionsAccounted
      BY DEF SectionsAccounted
  <2>1. /\ ask \in Ask /\ ask.kind = "details" /\ FoundFits
        /\ InFits /\ ToFetch = {} /\ ~Unexpected(in, found, found.type)
      BY DEF ReadInv, StageFits, DetailsFit
  <2>2. PICK dcf \in {"agrees", "differs", "none"} :
            answer = Details(ask, in, found, found.type, dcf)
      BY DEF ReadInv, DetailsFit
  <2>3. found.type \in Supported
      BY <2>1 DEF FoundFits, Candidate
  <2>4. Complies(ask, in, found.type)
      BY <2>1, InComplies
  <2>5. answer.type = found.type
      BY <2>2 DEF Details
  <2> QED
      BY <2>1, <2>2, <2>3, <2>4, <2>5, SectionsAreAccounted DEF SectionsAccounted
<1> QED
    BY <1>1, ReadsFit, PTL

\* An answer lists the sources of all its fields.
THEOREM FieldsTellSources == ReadsSpec => []FieldsAgree
<1>1. ReadInv => FieldsAgree
  <2> SUFFICES ASSUME ReadInv, answer.kind = "details" PROVE FieldsAgree
      BY DEF FieldsAgree
  <2>1. found.type \in Supported
      BY DEF ReadInv, DetailsFit, FoundFits, Candidate
  <2>2. CASE answer = IdentityOnly(found)
      BY <2>2 DEF IdentityOnly, FieldsAgree
  <2>3. CASE \E dcf \in {"agrees", "differs", "none"} : answer = Details(ask, in, found, found.type, dcf)
    <3>1. PICK dcf \in {"agrees", "differs", "none"} : answer = Details(ask, in, found, found.type, dcf)
        BY <2>3
    <3> QED
        BY <2>1, <3>1, DetailsAgree DEF FieldsAgree
  <2> QED
      BY <2>2, <2>3 DEF ReadInv, DetailsFit
<1> QED
    BY <1>1, ReadsFit, PTL

-----------------------------------------------------------------------------
(* The reads fit the timeouts.                                             *)

\* The times add up as numbers, and a call takes what its kind allows.
LEMMA TimesAreNumbers ==
    /\ HttpTimeout \in Nat /\ Call \in Nat /\ LoginTime \in Nat
    /\ \A kind \in RefreshKinds : LoginTime + HttpTimeout <= ClientTimeout[kind]
    /\ \A kind \in {"search", "indices"} : LoginTime + Call <= ClientTimeout[kind]
    /\ LoginTime + 9 * Call <= ClientTimeout["details"]
    /\ \A kind \in MarketKinds \union RefreshKinds : ClientTimeout[kind] \in Nat
<1>1. HttpTimeout \in Nat /\ Attempts \in Nat
    BY ReadConstants
<1>2. Call \in Nat
  <2>1. \A m, n \in Nat : m * n \in Nat
      OBVIOUS
  <2> QED
      BY <1>1, <2>1 DEF Call
<1>3. LoginTime \in Nat
    BY <1>1 DEF LoginTime
<1>4. LoginTime + 9 * Call <= ClientTimeout["details"]
  <2>1. 4 + 1 + 4 = 9
      OBVIOUS
  <2> QED
      BY <2>1, TimeoutsCoverReads DEF Call
<1> QED
    BY <1>1, <1>2, <1>3, <1>4, TimeoutsCoverReads, ReadConstants DEF Call

\* What a call may take.
LEMMA CallTimes ==
    ASSUME ask \in Ask
    PROVE  /\ ask.kind \in MarketKinds \union RefreshKinds
           /\ ask.kind \in MarketKinds => CallTime = Call
           /\ ask.kind \in RefreshKinds => CallTime = HttpTimeout
           /\ CallTime \in Nat
<1>1. ask.kind \in MarketKinds \union RefreshKinds
    BY ReadConstants
<1>2. ask.kind \in MarketKinds => CallTime = Call
    BY DEF CallTime, Call
<1>3. ask.kind \in RefreshKinds => CallTime = HttpTimeout
    BY DEF CallTime, MarketKinds, RefreshKinds
<1> QED
    BY <1>1, <1>2, <1>3, TimesAreNumbers

\* Of how many endpoints an asset may have.
Four(a, b, c, d) == {a, b, c, d}

\* Four things are four at most.
LEMMA FourElements ==
    ASSUME NEW a, NEW b, NEW c, NEW d
    PROVE  IsFiniteSet(Four(a, b, c, d)) /\ Cardinality(Four(a, b, c, d)) \in 0..4
<1> DEFINE two == {a} \union {b}
           three == two \union {c}
           four == three \union {d}
<1>1. IsFiniteSet({a}) /\ Cardinality({a}) = 1
    BY FS_Singleton
<1>2. Four(a, b, c, d) = four
    BY DEF Four
<1> HIDE DEF four
<1>3. IsFiniteSet(two) /\ Cardinality(two) \in 1..2
    BY <1>1, FS_AddElement
<1> HIDE DEF two
<1>4. IsFiniteSet(three) /\ Cardinality(three) \in 1..3
    BY <1>3, FS_AddElement DEF three
<1> HIDE DEF three
<1>5. IsFiniteSet(four) /\ Cardinality(four) \in 1..4
    BY <1>4, FS_AddElement DEF four
<1> QED
    BY <1>2, <1>5

\* The places of the endpoints of an asset of a type, asked for what is wanted.
Wanted(a, type) == {k \in DOMAIN Endpoints : Fetched(a, type, Endpoints[k])}

\* No type of asset has more than four endpoints.
LEMMA FewWanted ==
    ASSUME NEW a, NEW type \in Supported, NEW S \in SUBSET Wanted(a, type)
    PROVE  IsFiniteSet(S) /\ Cardinality(S) \in 0..4
<1>1. S \subseteq 1..6
    BY DEF Wanted, Endpoints
<1>2. \A k \in S : Fetched(a, type, Endpoints[k])
    BY DEF Wanted
<1>3. \A i, j, k, l : S \subseteq Four(i, j, k, l) =>
         IsFiniteSet(S) /\ Cardinality(S) \in 0..4
  <2> SUFFICES ASSUME NEW i, NEW j, NEW k, NEW l, S \subseteq Four(i, j, k, l)
               PROVE  IsFiniteSet(S) /\ Cardinality(S) \in 0..4
      OBVIOUS
  <2>1. IsFiniteSet(Four(i, j, k, l)) /\ Cardinality(Four(i, j, k, l)) \in 0..4
      BY FourElements
  <2>2. IsFiniteSet(S) /\ Cardinality(S) <= Cardinality(Four(i, j, k, l))
      BY <2>1, FS_Subset
  <2> QED
      BY <2>1, <2>2, FS_CardinalityType
<1>4. CASE type = "etf"
  <2>1. 5 \notin S /\ 6 \notin S
      BY <1>2, <1>4 DEF Fetched, Endpoints
  <2>2. S \subseteq Four(1, 2, 3, 4)
      BY <1>1, <2>1 DEF Four
  <2> QED
      BY <1>3, <2>2
<1>5. CASE type \in {"stock", "bond"}
  <2>1. 2 \notin S /\ 3 \notin S /\ 4 \notin S
      BY <1>2, <1>5 DEF Fetched, Endpoints
  <2>2. S \subseteq Four(1, 5, 6, 6)
      BY <1>1, <2>1 DEF Four
  <2> QED
      BY <1>3, <2>2
<1> QED
    BY <1>4, <1>5 DEF Supported, DefaultSections

\* So it is with those that are still to be asked, now and in the next state.
LEMMA FewToFetch ==
    /\ found.type \in Supported => IsFiniteSet(ToFetch) /\ Cardinality(ToFetch) \in 0..4
    /\ found'.type \in Supported => IsFiniteSet(ToFetch') /\ Cardinality(ToFetch') \in 0..4
<1>1. ToFetch \subseteq Wanted(ask, found.type)
    BY DEF ToFetch, Wanted
<1>2. ToFetch' \subseteq Wanted(ask', found'.type)
    BY DEF ToFetch, Wanted
<1> QED
    BY <1>1, <1>2, FewWanted

\* A call that is made and answered leaves one endpoint less.
LEMMA OneLessToFetch ==
    ASSUME ReadInv, FetchNext
    PROVE  /\ IsFiniteSet(ToFetch) /\ Cardinality(ToFetch) \in 1..4
           /\ IsFiniteSet(ToFetch')
           /\ Cardinality(ToFetch') \in Nat
           /\ Cardinality(ToFetch') <= Cardinality(ToFetch) - 1
<1>1. /\ stage = "fetch" /\ ToFetch # {} /\ ask' = ask /\ found' = found
      /\ DOMAIN in = Slots /\ found.type \in Supported
    BY DEF FetchNext, ReadInv, DataFits, FoundFits, Candidate
<1>2. IsFiniteSet(ToFetch) /\ Cardinality(ToFetch) \in 0..4
    BY <1>1, FewToFetch
<1>3. PICK m \in ToFetch : m = Min(ToFetch)
    BY <1>1, NextIsToFetch
<1>4. NextEndpoint = Endpoints[m] /\ NextEndpoint \in Endpoint
    BY <1>1, <1>3, NextIsToFetch
<1>5. PICK response \in AnswersOf(NextEndpoint) : in' = [in EXCEPT ![NextEndpoint] = response]
    BY DEF FetchNext
<1>6. response # NotFetched
  <2>1. AnswersOf(NextEndpoint) \in {SnapshotAnswer, EtfAnswer, EtfDataAnswer, StockAnswer, ReportsAnswer}
      BY <1>4 DEF AnswersOf, Endpoint
  <2> QED
      BY <1>5, <2>1, AnswersAreItems
<1>7. \A e \in Endpoint : in'[e] = IF e = NextEndpoint THEN response ELSE in[e]
    BY <1>1, <1>4, <1>5 DEF Slots
<1>8. ToFetch' \subseteq ToFetch \ {m}
  <2> SUFFICES ASSUME NEW k \in ToFetch' PROVE k \in ToFetch \ {m}
      OBVIOUS
  <2>1. /\ k \in DOMAIN Endpoints /\ Fetched(ask, found.type, Endpoints[k])
        /\ in'[Endpoints[k]] = NotFetched
      BY <1>1 DEF ToFetch
  <2>2. Endpoints[k] \in Endpoint
      BY <2>1 DEF Endpoints, Endpoint
  <2>3. Endpoints[k] # NextEndpoint /\ in[Endpoints[k]] = NotFetched
      BY <1>6, <1>7, <2>1, <2>2
  <2> QED
      BY <1>4, <2>1, <2>3 DEF ToFetch
<1>9. IsFiniteSet(ToFetch \ {m}) /\ Cardinality(ToFetch \ {m}) = Cardinality(ToFetch) - 1
    BY <1>2, FS_RemoveElement
<1>10. /\ IsFiniteSet(ToFetch') /\ Cardinality(ToFetch') \in Nat
       /\ Cardinality(ToFetch') <= Cardinality(ToFetch \ {m})
    BY <1>8, <1>9, FS_Subset, FS_CardinalityType
<1>11. Cardinality(ToFetch) # 0
    BY <1>1, <1>2, FS_EmptySet
<1> QED
    BY <1>2, <1>9, <1>10, <1>11

\* The terms of a search are one or four.
LEMMA TermsAreFew ==
    ASSUME NEW a
    PROVE  SearchTerms(a) \in Seq(Term) /\ Len(SearchTerms(a)) \in {1, 4}
<1>1. <<"exact">> \in Seq(Term) /\ Len(<<"exact">>) = 1
    BY DEF Term
<1>2. /\ <<"exact", "spaced", "root", "compact">> \in Seq(Term)
      /\ Len(<<"exact", "spaced", "root", "compact">>) = 4
    BY DEF Term
<1>3. SearchTerms(a) \in {<<"exact">>, <<"exact", "spaced", "root", "compact">>}
    BY DEF SearchTerms
<1> QED
    BY <1>1, <1>2, <1>3

\* As long as there is a call to make there is time for it.
LEMMA TimeForACall ==
    ASSUME ReadInv, TimeFits, Calling, ~recovered
    PROVE  spent + CallTime <= ClientTimeout[ask.kind]
<1>1. ask \in Ask /\ spent \in Nat /\ CallTime \in Nat
    BY CallTimes DEF ReadInv, StageFits, Calling, TimeFits
<1>2. CASE stage = "read"
  <2>1. spent <= LoginTime /\ ask.kind # "details"
      BY <1>2 DEF TimeFits, ReadInv, StageFits
  <2>2. CASE ask.kind \in RefreshKinds
    <3>1. LoginTime + CallTime <= ClientTimeout[ask.kind]
        BY <1>1, <2>2, CallTimes, TimesAreNumbers
    <3>2. LoginTime \in Nat /\ ClientTimeout[ask.kind] \in Nat
        BY <2>2, TimesAreNumbers
    <3> QED
        BY <1>1, <2>1, <3>1, <3>2
  <2>3. CASE ask.kind \in {"search", "indices"}
    <3>1. LoginTime + CallTime <= ClientTimeout[ask.kind]
        BY <1>1, <2>3, CallTimes, TimesAreNumbers DEF MarketKinds
    <3>2. LoginTime \in Nat /\ ClientTimeout[ask.kind] \in Nat
        BY <2>3, TimesAreNumbers DEF MarketKinds
    <3> QED
        BY <1>1, <2>1, <3>1, <3>2
  <2> QED
      BY <1>1, <2>1, <2>2, <2>3, CallTimes DEF MarketKinds
<1>3. CASE stage \in {"search", "static", "fetch"}
  <2>1. /\ ask.kind = "details" /\ CallTime = Call
        /\ LoginTime + 9 * Call <= ClientTimeout[ask.kind]
        /\ LoginTime \in Nat /\ Call \in Nat /\ ClientTimeout[ask.kind] \in Nat
      BY <1>1, <1>3, CallTimes, TimesAreNumbers DEF ReadInv, StageFits, MarketKinds
  <2>2. \A n \in Nat : n >= 1 => n * Call >= Call
      BY <2>1
  <2>3. CASE stage = "search"
    <3>1. Len(terms) \in Nat /\ Len(terms) >= 1
        BY <2>3 DEF Calling, TimeFits
    <3>2. PICK n \in Nat : n = Len(terms) /\ n >= 1 /\ n * Call >= Call
        BY <2>2, <3>1
    <3>3. spent + n * Call <= LoginTime + 4 * Call
        BY <2>3, <3>2 DEF TimeFits
    <3>4. n * Call \in Nat
        BY <2>1, <3>2
    <3> QED
        BY <1>1, <2>1, <3>2, <3>3, <3>4
  <2>4. CASE stage = "static"
    <3>1. spent <= LoginTime + 4 * Call
        BY <2>4 DEF TimeFits
    <3> QED
        BY <1>1, <2>1, <3>1
  <2>5. CASE stage = "fetch"
    <3>1. ToFetch # {} /\ found.type \in Supported
        BY <2>5 DEF Calling, ReadInv, DataFits, FoundFits, Candidate
    <3>2. Cardinality(ToFetch) \in Nat /\ Cardinality(ToFetch) >= 1
        BY <3>1, FewToFetch, FS_EmptySet
    <3>3. PICK n \in Nat : n = Cardinality(ToFetch) /\ n >= 1 /\ n * Call >= Call
        BY <2>2, <3>2
    <3>4. spent + n * Call <= LoginTime + 9 * Call
        BY <2>5, <3>3 DEF TimeFits
    <3>5. n * Call \in Nat
        BY <2>1, <3>3
    <3> QED
        BY <1>1, <2>1, <3>3, <3>4, <3>5
  <2> QED
      BY <1>3, <2>3, <2>4, <2>5
<1> QED
    BY <1>2, <1>3 DEF Calling

\* A call that ends the read ends it in time.
LEMMA RepliesInTime ==
    ASSUME ReadInv, TimeFits, Calling, Calls, stage' = "replied",
           ask' = ask, recovered' = recovered, terms' \in Seq(Term), Len(terms') <= 4
    PROVE  TimeFits'
<1>1. ask \in Ask /\ spent \in Nat /\ CallTime \in Nat
    BY CallTimes DEF ReadInv, StageFits, Calling, TimeFits
<1>2. spent' = spent + CallTime
    BY DEF Calls
<1>3. ~recovered => spent' <= ClientTimeout[ask.kind]
    BY <1>2, TimeForACall
<1>4. spent' \in Nat
    BY <1>1, <1>2
<1> QED
    BY <1>3, <1>4 DEF TimeFits

\* The read starts with the time of a login at most, and one that is run again after
\* a 401 is beyond the promise.
LEMMA StartsInTime ==
    ASSUME ask' \in Ask, Start(ask'), spent' \in Nat, recovered' \in BOOLEAN,
           recovered' \/ spent' <= LoginTime
    PROVE  TimeFits'
<1>1. /\ stage' = IF ask'.kind = "details" THEN "search" ELSE "read"
      /\ terms' = IF ask'.kind = "details" THEN SearchTerms(ask') ELSE << >>
    BY DEF Start, FirstStage
<1>2. terms' \in Seq(Term) /\ Len(terms') \in {0, 1, 4}
  <2>1. CASE ask'.kind = "details"
    <3>1. terms' = SearchTerms(ask')
        BY <1>1, <2>1
    <3> QED
        BY <3>1, TermsAreFew
  <2>2. CASE ask'.kind # "details"
    <3>1. terms' = << >>
        BY <1>1, <2>2
    <3> QED
        BY <3>1
  <2> QED
      BY <2>1, <2>2
<1>3. LoginTime \in Nat /\ Call \in Nat
    BY TimesAreNumbers
<1>4. Len(terms') * Call <= 4 * Call /\ Len(terms') * Call \in Nat
  <2>1. CASE Len(terms') = 0
      BY <1>3, <2>1
  <2>2. CASE Len(terms') = 1
      BY <1>3, <2>2
  <2>3. CASE Len(terms') = 4
      BY <1>3, <2>3
  <2> QED
      BY <1>2, <2>1, <2>2, <2>3
<1>5. ~recovered' => spent' + Len(terms') * Call <= LoginTime + 4 * Call
  <2>1. PICK n \in Nat : n = Len(terms') * Call /\ n <= 4 * Call
      BY <1>4
  <2> QED
      BY <1>3, <2>1
<1>6. Len(terms') <= 4
  <2>1. PICK n \in {0, 1, 4} : n = Len(terms')
      BY <1>2
  <2>2. n <= 4
      BY <2>1
  <2> QED
      BY <2>1, <2>2
<1>7. stage' \in {"search", "read"}
    BY <1>1
<1> QED
    BY <1>2, <1>5, <1>6, <1>7 DEF TimeFits

\* Every step keeps to the time.
LEMMA TimeStepFits == ReadInv /\ TimeFits /\ [ReadsNext]_readVars => TimeFits'
<1> SUFFICES ASSUME ReadInv, TimeFits, [ReadsNext]_readVars PROVE TimeFits'
    OBVIOUS
<1>1. spent \in Nat /\ recovered \in BOOLEAN /\ terms \in Seq(Term) /\ Len(terms) <= 4
    BY DEF TimeFits
<1>2. LoginTime \in Nat /\ Call \in Nat
    BY TimesAreNumbers
<1>3. CASE Begin
  <2>1. /\ ask' \in Ask /\ Start(ask') /\ recovered' = FALSE
        /\ spent' = IF reused' THEN 0 ELSE LoginTime
      BY <1>3 DEF Begin
  <2>2. spent' \in Nat /\ spent' <= LoginTime
      BY <1>2, <2>1
  <2> QED
      BY <2>1, <2>2, StartsInTime
<1>4. CASE ReadSearch \/ ReadIndices \/ ReadAccount \/ CallFails
  <2>1. /\ Calling /\ Calls /\ stage' = "replied"
        /\ ask' = ask /\ recovered' = recovered /\ terms' = terms
      BY <1>4 DEF ReadSearch, ReadIndices, ReadAccount, CallFails, Calling, Reply
  <2> QED
      BY <1>1, <2>1, RepliesInTime
<1>5. CASE SearchTerm
  <2>1. /\ stage = "search" /\ terms # << >> /\ terms' = Tail(terms) /\ Calls
        /\ ask' = ask /\ recovered' = recovered
        /\ ask \in Ask /\ ask.kind = "details"
      BY <1>5 DEF SearchTerm, ReadInv, StageFits
  <2>2. /\ terms' \in Seq(Term) /\ Len(terms') \in Nat
        /\ Len(terms) = Len(terms') + 1 /\ Len(terms') <= 4
      BY <1>1, <2>1
  <2>3. stage' \in {"search", "replied", "static"}
      BY <1>5, <2>1 DEF SearchTerm, Resolves, Reply
  <2>4. spent' = spent + Call /\ spent' \in Nat
      BY <1>1, <1>2, <2>1, CallTimes DEF Calls, MarketKinds
  <2>5. CASE stage' = "replied"
      BY <2>1, <2>2, <2>5, RepliesInTime DEF Calling
  <2>6. CASE stage' \in {"search", "static"}
    <3>1. PICK n \in Nat : n = Len(terms') /\ Len(terms) = n + 1
        BY <2>2
    <3>2. (n + 1) * Call = n * Call + Call /\ n * Call \in Nat
        BY <1>2, <3>1
    <3>3. ~recovered => spent + (n + 1) * Call <= LoginTime + 4 * Call
        BY <2>1, <3>1 DEF TimeFits
    <3>4. ~recovered => spent' + n * Call <= LoginTime + 4 * Call
        BY <1>1, <1>2, <2>4, <3>2, <3>3
    <3>5. ~recovered => spent' <= LoginTime + 4 * Call
        BY <1>2, <2>4, <3>2, <3>4
    <3> QED
        BY <1>1, <2>1, <2>2, <2>4, <2>6, <3>1, <3>4, <3>5 DEF TimeFits
  <2> QED
      BY <2>3, <2>5, <2>6
<1>6. CASE NotFound
  <2>1. /\ stage = "search" /\ terms = << >> /\ stage' = "replied" /\ spent' = spent
        /\ terms' = terms /\ ask' = ask /\ recovered' = recovered /\ ask.kind = "details"
      BY <1>6 DEF NotFound, Reply, ReadInv, StageFits
  <2>2. ~recovered => spent <= LoginTime + 4 * Call
    <3>1. Len(terms) = 0 /\ 0 * Call = 0
        BY <1>2, <2>1
    <3> QED
        BY <1>1, <2>1, <3>1 DEF TimeFits
  <2>3. LoginTime + 4 * Call <= ClientTimeout["details"] /\ ClientTimeout["details"] \in Nat
      BY <1>2, TimesAreNumbers DEF MarketKinds
  <2>4. ~recovered => spent' <= ClientTimeout[ask'.kind]
      BY <1>1, <1>2, <2>1, <2>2, <2>3
  <2> QED
      BY <1>1, <2>1, <2>4 DEF TimeFits
<1>7. CASE ReadStatic
  <2>1. /\ stage = "static" /\ Calls /\ stage' \in {"fetch", "replied"}
        /\ ask' = ask /\ found' = found /\ recovered' = recovered /\ terms' = terms
        /\ ask \in Ask /\ ask.kind = "details" /\ found.type \in Supported
      BY <1>7 DEF ReadStatic, Reply, ReadInv, StageFits, DataFits, FoundFits, Candidate
  <2>2. spent' = spent + Call /\ spent' \in Nat
      BY <1>1, <1>2, <2>1, CallTimes DEF Calls, MarketKinds
  <2>3. CASE stage' = "replied"
      BY <1>1, <2>1, <2>3, RepliesInTime DEF Calling
  <2>4. CASE stage' = "fetch"
    <3>1. Cardinality(ToFetch') \in 0..4
        BY <2>1, FewToFetch
    <3>2. PICK n \in 0..4 : n = Cardinality(ToFetch')
        BY <3>1
    <3>3. n * Call <= 4 * Call /\ n * Call \in Nat
        BY <1>2, <3>2
    <3>4. ~recovered => spent <= LoginTime + 4 * Call
        BY <2>1 DEF TimeFits
    <3>5. ~recovered => spent' + n * Call <= LoginTime + 9 * Call
        BY <1>1, <1>2, <2>2, <3>3, <3>4
    <3> QED
        BY <1>1, <2>1, <2>2, <2>4, <3>2, <3>5 DEF TimeFits
  <2> QED
      BY <2>1, <2>3, <2>4
<1>8. CASE FetchNext
  <2>1. /\ stage = "fetch" /\ stage' = "fetch" /\ Calls /\ terms' = terms
        /\ ask' = ask /\ recovered' = recovered /\ ask \in Ask /\ ask.kind = "details"
      BY <1>8 DEF FetchNext, ReadInv, StageFits
  <2>2. spent' = spent + Call /\ spent' \in Nat
      BY <1>1, <1>2, <2>1, CallTimes DEF Calls, MarketKinds
  <2>3. PICK n \in 1..4 : n = Cardinality(ToFetch)
      BY <1>8, OneLessToFetch
  <2>4. PICK m \in Nat : m = Cardinality(ToFetch') /\ m <= n - 1
      BY <1>8, <2>3, OneLessToFetch
  <2>5. m * Call + Call <= n * Call
    <3>1. \A i, j, c \in Nat : i <= j - 1 => i * c + c <= j * c
      <4> SUFFICES ASSUME NEW i \in Nat, NEW j \in Nat, NEW c \in Nat, i <= j - 1
                   PROVE  i * c + c <= j * c
          OBVIOUS
      <4>1. PICK d \in Nat : j = i + 1 + d
          BY j - i - 1 \in Nat
      <4>2. j * c = i * c + c + d * c
          BY <4>1
      <4>3. i * c \in Nat /\ d * c \in Nat
          OBVIOUS
      <4> QED
          BY <4>2, <4>3
    <3> QED
        BY <1>2, <2>4, <3>1
  <2>6. m * Call \in Nat /\ n * Call \in Nat
      BY <1>2
  <2>7. ~recovered => spent + n * Call <= LoginTime + 9 * Call
      BY <2>1, <2>3 DEF TimeFits
  <2>8. ~recovered => spent' + m * Call <= LoginTime + 9 * Call
      BY <1>1, <1>2, <2>2, <2>5, <2>6, <2>7
  <2> QED
      BY <1>1, <2>1, <2>2, <2>4, <2>8 DEF TimeFits
<1>9. CASE Assemble \/ TooLarge
  <2>1. /\ stage = "fetch" /\ ToFetch = {} /\ stage' = "replied" /\ spent' = spent
        /\ terms' = terms /\ ask' = ask /\ recovered' = recovered /\ ask.kind = "details"
      BY <1>9 DEF Assemble, TooLarge, Reply, ReadInv, StageFits
  <2>2. ~recovered => spent <= LoginTime + 9 * Call
    <3>1. Cardinality(ToFetch) = 0 /\ 0 * Call = 0
        BY <1>2, <2>1, FS_EmptySet
    <3> QED
        BY <1>1, <2>1, <3>1 DEF TimeFits
  <2>3. LoginTime + 9 * Call <= ClientTimeout["details"] /\ ClientTimeout["details"] \in Nat
      BY TimesAreNumbers DEF MarketKinds
  <2>4. ~recovered => spent' <= ClientTimeout[ask'.kind]
      BY <1>1, <1>2, <2>1, <2>2, <2>3
  <2> QED
      BY <1>1, <2>1, <2>4 DEF TimeFits
<1>10. CASE CallUnauthorized
  <2>1. CASE reused /\ ~recovered
    <3>1. /\ ask' = ask /\ ask \in Ask /\ Start(ask') /\ recovered' = TRUE
          /\ spent' = spent + CallTime + LoginTime
        BY <1>10, <2>1 DEF CallUnauthorized, Calling, ReadInv, StageFits, Start
    <3>2. spent' \in Nat
        BY <1>1, <1>2, <3>1, CallTimes
    <3> QED
        BY <3>1, <3>2, StartsInTime
  <2>2. CASE ~(reused /\ ~recovered)
      BY <1>1, <1>10, <2>2, RepliesInTime DEF CallUnauthorized, Reply
  <2> QED
      BY <2>1, <2>2
<1>11. CASE Done
  <2>1. /\ stage' = "idle" /\ terms' = << >> /\ recovered' = FALSE /\ spent' = 0
      BY <1>11 DEF Done
  <2>2. terms' \in Seq(Term) /\ Len(terms') = 0
      BY <2>1
  <2>3. Len(terms') <= 4
      BY <2>2
  <2> QED
      BY <2>1, <2>2, <2>3 DEF TimeFits
<1>12. CASE UNCHANGED readVars
    BY <1>12 DEF TimeFits, ToFetch, readVars
<1> QED
    BY <1>3, <1>4, <1>5, <1>6, <1>7, <1>8, <1>9, <1>10, <1>11, <1>12 DEF ReadsNext

\* The calls made and those left fit in the client's timeout.
THEOREM ReadsKeepTime == ReadsSpec => []TimeFits
<1>1. ReadsInit => TimeFits
  <2> SUFFICES ASSUME ReadsInit PROVE TimeFits
      OBVIOUS
  <2>1. stage = "idle" /\ terms = << >> /\ recovered = FALSE /\ spent = 0
      BY DEF ReadsInit
  <2>2. terms \in Seq(Term) /\ Len(terms) = 0
      BY <2>1
  <2>3. Len(terms) <= 4
      BY <2>2
  <2> QED
      BY <2>1, <2>2, <2>3 DEF TimeFits
<1> QED
    BY <1>1, TimeStepFits, ReadsFit, PTL DEF ReadsSpec

\* The client does not give up before the worker answers.
THEOREM ClientsOutlastReads == ReadsSpec => []ReadsFitTimeout
<1>1. ReadInv /\ TimeFits => ReadsFitTimeout
  <2> SUFFICES ASSUME ReadInv, TimeFits, ask.kind # "none", ~recovered
               PROVE  spent <= ClientTimeout[ask.kind]
      BY DEF ReadsFitTimeout
  <2>1. ask \in Ask /\ stage # "idle" /\ spent \in Nat
      BY DEF ReadInv, StageFits, NoAsk, TimeFits
  <2>2. CallTime \in Nat /\ ClientTimeout[ask.kind] \in Nat
      BY <2>1, CallTimes, TimesAreNumbers
  <2>3. CASE stage = "replied"
      BY <2>3 DEF TimeFits
  <2>4. CASE Calling
    <3>1. spent + CallTime <= ClientTimeout[ask.kind]
        BY <2>4, TimeForACall
    <3> QED
        BY <2>1, <2>2, <3>1
  <2>5. CASE (stage = "search" /\ terms = << >>) \/ (stage = "fetch" /\ ToFetch = {})
    <3>1. ask.kind = "details" /\ LoginTime \in Nat /\ Call \in Nat
        BY <2>5, TimesAreNumbers DEF ReadInv, StageFits
    <3>2. /\ terms = << >> => Len(terms) = 0
          /\ ToFetch = {} => Cardinality(ToFetch) = 0
          /\ 0 * Call = 0
        BY <3>1, FS_EmptySet
    <3>3. spent <= LoginTime + 9 * Call
        BY <2>1, <2>5, <3>1, <3>2 DEF TimeFits
    <3> QED
        BY <2>1, <2>2, <3>1, <3>3, TimesAreNumbers
  <2>6. stage \in {"read", "search", "static", "fetch", "replied"}
      BY <2>1 DEF ReadInv, StageFits
  <2> QED
      BY <2>3, <2>4, <2>5, <2>6 DEF Calling
<1> QED
    BY <1>1, ReadsFit, ReadsKeepTime, PTL

-----------------------------------------------------------------------------
(* The lists of a search and of the index cards.                           *)

Below(k, places) == {j \in places : j < k}

\* A later place has more places before it.
LEMMA MoreBelow ==
    ASSUME NEW S \in SUBSET Nat, IsFiniteSet(S), NEW j \in S, NEW k \in S, j < k
    PROVE  /\ Cardinality(Below(j, S)) \in Nat /\ Cardinality(Below(k, S)) \in Nat
           /\ Cardinality(Below(j, S)) < Cardinality(Below(k, S))
<1>1. /\ Below(j, S) \in SUBSET Below(k, S) /\ Below(k, S) \in SUBSET S
      /\ j \in Below(k, S) /\ j \notin Below(j, S)
  <2>1. ASSUME NEW i \in Below(j, S) PROVE i \in Below(k, S)
    <3>1. i \in S /\ i \in Nat /\ j \in Nat /\ k \in Nat /\ i < j
        BY DEF Below
    <3> QED
        BY <3>1 DEF Below
  <2>2. j \in Nat /\ ~(j < j)
      OBVIOUS
  <2> QED
      BY <2>1, <2>2 DEF Below
<1> DEFINE under == Below(k, S) \ {j}
<1>2. IsFiniteSet(Below(k, S))
    BY <1>1, FS_Subset
<1>3. IsFiniteSet(under) /\ Cardinality(under) = Cardinality(Below(k, S)) - 1
    BY <1>1, <1>2, FS_RemoveElement
<1>4. Below(j, S) \in SUBSET under
    BY <1>1
<1> HIDE DEF under
<1>5. IsFiniteSet(Below(j, S)) /\ Cardinality(Below(j, S)) <= Cardinality(under)
    BY <1>3, <1>4, FS_Subset
<1>6. /\ Cardinality(Below(j, S)) \in Nat /\ Cardinality(Below(k, S)) \in Nat
      /\ Cardinality(under) \in Nat
    BY <1>2, <1>3, <1>5, FS_CardinalityType
<1> QED
    BY <1>3, <1>5, <1>6

\* What a list takes of finitely many places are the first, as many as it has room
\* for; and when it leaves one out, it is full.
LEMMA FirstFits ==
    ASSUME NEW S \in SUBSET Nat, IsFiniteSet(S), NEW c \in Nat
    PROVE  /\ First(c, S) \subseteq S /\ IsFiniteSet(First(c, S))
           /\ Cardinality(First(c, S)) \in Nat /\ Cardinality(First(c, S)) <= c
           /\ \A k \in S \ First(c, S) :
                Cardinality(First(c, S)) = c /\ \A j \in First(c, S) : j < k
<1> DEFINE F == First(c, S)
<1>1. F = {k \in S : Cardinality(Below(k, S)) < c}
    BY DEF First, Below
<1> HIDE DEF F
<1>2. F \in SUBSET S /\ IsFiniteSet(F) /\ Cardinality(F) \in Nat
    BY <1>1, FS_Subset, FS_CardinalityType
<1>3. \A k \in S : Cardinality(Below(k, S)) \in Nat
  <2> SUFFICES ASSUME NEW k \in S PROVE Cardinality(Below(k, S)) \in Nat
      OBVIOUS
  <2>1. Below(k, S) \in SUBSET S
      BY DEF Below
  <2> QED
      BY <2>1, FS_Subset, FS_CardinalityType
<1>4. \A j, k \in S : j < k /\ k \in F => j \in F
    BY <1>1, <1>3, MoreBelow
<1>5. Cardinality(F) <= c
  <2> DEFINE rank == [k \in F |-> Cardinality(Below(k, S))]
  <2>1. rank \in [F -> 0..(c - 1)]
    <3>1. ASSUME NEW k \in F PROVE Cardinality(Below(k, S)) \in 0..(c - 1)
      <4>1. Cardinality(Below(k, S)) \in Nat /\ Cardinality(Below(k, S)) < c
          BY <1>1, <1>3
      <4> QED
          BY <4>1
    <3> QED
        BY <3>1
  <2>2. \A j, k \in F : rank[j] = rank[k] => j = k
    <3> SUFFICES ASSUME NEW j \in F, NEW k \in F, Cardinality(Below(j, S)) = Cardinality(Below(k, S))
                 PROVE  j = k
        OBVIOUS
    <3>1. j \in S /\ k \in S /\ j \in Nat /\ k \in Nat
        BY <1>2
    <3>2. ~(j < k) /\ ~(k < j)
        BY <3>1, MoreBelow, <1>3
    <3> QED
        BY <3>1, <3>2
  <2>3. rank \in Injection(F, 0..(c - 1))
      BY <2>1, <2>2 DEF Injection, IsInjective
  <2>4. IsFiniteSet(0..(c - 1)) /\ Cardinality(0..(c - 1)) <= c
    <3>1. 0 \in Int /\ c - 1 \in Int
        OBVIOUS
    <3>2. /\ IsFiniteSet(0..(c - 1))
          /\ Cardinality(0..(c - 1)) = IF 0 > c - 1 THEN 0 ELSE (c - 1) - 0 + 1
        BY <3>1, FS_Interval
    <3> QED
        BY <3>2
  <2> HIDE DEF rank
  <2>5. Cardinality(F) <= Cardinality(0..(c - 1)) /\ Cardinality(0..(c - 1)) \in Nat
      BY <2>3, <2>4, FS_Injection, FS_CardinalityType
  <2> QED
      BY <1>2, <2>4, <2>5
<1>6. ASSUME NEW k \in S \ F PROVE Cardinality(F) = c /\ \A j \in F : j < k
  <2>1. PICK m \in S \ F : \A y \in S \ F : m <= y
    <3> DEFINE out == S \ F
    <3>1. out \subseteq Nat /\ out # {}
        BY <1>6
    <3> HIDE DEF out
    <3>2. \E m \in out : \A y \in out : m <= y
        BY <3>1, LeastNumber
    <3> QED
        BY <3>2 DEF out
  <2>2. \A j \in F : j < m
    <3> SUFFICES ASSUME NEW j \in F PROVE j < m
        OBVIOUS
    <3>1. j \in S /\ j \in Nat /\ m \in S /\ m \in Nat /\ m \notin F
        BY <1>2, <2>1
    <3>2. ~(m < j) /\ m # j
        BY <1>4, <3>1
    <3> QED
        BY <3>1, <3>2
  <2>3. Below(m, S) = F
    <3>1. ASSUME NEW j \in S, j < m PROVE j \in F
      <4>1. j \in Nat /\ m \in Nat
          BY <2>1
      <4> QED
          BY <2>1, <3>1, <4>1
    <3> QED
        BY <1>2, <2>2, <3>1 DEF Below
  <2>4. Cardinality(F) = c
      BY <1>1, <1>2, <1>5, <2>1, <2>3
  <2>5. ASSUME NEW j \in F PROVE j < k
    <3>1. m <= k /\ j < m /\ j \in Nat /\ m \in Nat /\ k \in Nat
        BY <1>2, <1>6, <2>1, <2>2
    <3> QED
        BY <3>1
  <2> QED
      BY <2>4, <2>5
<1> QED
    BY <1>2, <1>5, <1>6 DEF F

\* The buckets are told apart.
LEMMA BucketsDiffer ==
    /\ DOMAIN AssetTypes = 1..8
    /\ \A i, j \in 1..8 : AssetTypes[i] = AssetTypes[j] => i = j
    /\ AssetType = {AssetTypes[i] : i \in 1..8}
<1>1. DOMAIN AssetTypes = 1..8
    BY DEF AssetTypes
<1>2. ASSUME NEW i \in 1..8, NEW j \in 1..8, AssetTypes[i] = AssetTypes[j] PROVE i = j
  <2>1. i \in {1, 2, 3, 4, 5, 6, 7, 8} /\ j \in {1, 2, 3, 4, 5, 6, 7, 8}
      OBVIOUS
  <2> QED
      BY <1>2, <2>1 DEF AssetTypes
<1> QED
    BY <1>1, <1>2 DEF AssetType, ToSet

\* The limit is handed on from bucket to bucket.
LEMMA LimitIsHandedOn ==
    ASSUME NEW response, NEW wanted, NEW limit
    PROVE  LET left == LeftOf(response, wanted, limit) IN
           \A i \in 1..8 :
              left[i] = IF i = 1 THEN limit
                        ELSE left[i - 1] - Cardinality(TakenOf(response, wanted, i - 1, left[i - 1]))
<1> DEFINE after(i, n) == n - Cardinality(TakenOf(response, wanted, i, n))
           passes(h) == h = [i \in DOMAIN AssetTypes |-> IF i = 1 THEN limit ELSE after(i - 1, h[i - 1])]
           left == CHOOSE h : passes(h)
<1>1. LeftOf(response, wanted, limit) = left
    BY DEF LeftOf
<1> HIDE DEF after
<1>2. \E h : passes(h)
  <2> DEFINE n1 == limit  n2 == after(1, n1)  n3 == after(2, n2)  n4 == after(3, n3)
             n5 == after(4, n4)  n6 == after(5, n5)  n7 == after(6, n6)  n8 == after(7, n7)
             h == [i \in 1..8 |-> CASE i = 1 -> n1 [] i = 2 -> n2 [] i = 3 -> n3 [] i = 4 -> n4
                                    [] i = 5 -> n5 [] i = 6 -> n6 [] i = 7 -> n7 [] i = 8 -> n8]
  <2>1. /\ h[1] = n1 /\ h[2] = n2 /\ h[3] = n3 /\ h[4] = n4
        /\ h[5] = n5 /\ h[6] = n6 /\ h[7] = n7 /\ h[8] = n8
    <3> HIDE DEF n1, n2, n3, n4, n5, n6, n7, n8
    <3> QED
        OBVIOUS
  <2>2. h = [i \in 1..8 |-> h[i]]
      OBVIOUS
  <2> HIDE DEF h
  <2>3. /\ h[1] = limit /\ h[2] = after(1, h[1]) /\ h[3] = after(2, h[2])
        /\ h[4] = after(3, h[3]) /\ h[5] = after(4, h[4]) /\ h[6] = after(5, h[5])
        /\ h[7] = after(6, h[6]) /\ h[8] = after(7, h[7])
      BY <2>1
  <2>4. ASSUME NEW i \in 1..8 PROVE h[i] = IF i = 1 THEN limit ELSE after(i - 1, h[i - 1])
    <3>1. i \in {1, 2, 3, 4, 5, 6, 7, 8}
        OBVIOUS
    <3> QED
        BY <2>3, <3>1
  <2>5. h = [i \in DOMAIN AssetTypes |-> IF i = 1 THEN limit ELSE after(i - 1, h[i - 1])]
      BY <2>2, <2>4, BucketsDiffer
  <2> QED
      BY <2>5
<1>3. passes(left)
    BY <1>2
<1> HIDE DEF left
<1>4. \A i \in 1..8 : left[i] = IF i = 1 THEN limit ELSE after(i - 1, left[i - 1])
    BY <1>3, BucketsDiffer
<1> QED
    BY <1>1, <1>4 DEF after

\* The hits of a bucket, and those of the first i buckets.
HitsOf(t, places) == [type : {t}, at : places]
HitsUpTo(i, shown) == UNION {HitsOf(AssetTypes[j], shown[j]) : j \in 1..i}

\* A hit for every place.
LEMMA HitsAreMany ==
    ASSUME NEW t, NEW P, IsFiniteSet(P)
    PROVE  IsFiniteSet(HitsOf(t, P)) /\ Cardinality(HitsOf(t, P)) = Cardinality(P)
<1> DEFINE f == [k \in P |-> [type |-> t, at |-> k]]
<1>1. f \in [P -> HitsOf(t, P)]
    BY DEF HitsOf
<1>2. \A j, k \in P : f[j] = f[k] => j = k
    OBVIOUS
<1>3. ASSUME NEW hit \in HitsOf(t, P) PROVE \E k \in P : f[k] = hit
  <2>1. hit.at \in P /\ hit = [type |-> t, at |-> hit.at]
      BY DEF HitsOf
  <2> QED
      BY <2>1
<1> HIDE DEF f
<1>4. f \in Bijection(P, HitsOf(t, P))
    BY <1>1, <1>2, <1>3 DEF Bijection, Injection, Surjection, IsInjective
<1> QED
    BY <1>4, FS_Bijection DEF ExistsBijection

\* The hits of one bucket more are its places more.
LEMMA HitsAddUp ==
    ASSUME NEW shown, NEW i \in 1..8, IsFiniteSet(HitsUpTo(i - 1, shown)), IsFiniteSet(shown[i])
    PROVE  /\ IsFiniteSet(HitsUpTo(i, shown))
           /\ Cardinality(HitsUpTo(i, shown))
                = Cardinality(HitsUpTo(i - 1, shown)) + Cardinality(shown[i])
<1> DEFINE old == HitsUpTo(i - 1, shown)
           new == HitsOf(AssetTypes[i], shown[i])
<1>1. HitsUpTo(i, shown) = old \union new
  <2>1. \A j : j \in 1..i <=> j \in 1..(i - 1) \/ j = i
      OBVIOUS
  <2> QED
      BY <2>1 DEF HitsUpTo
<1>2. old \cap new = {}
  <2> SUFFICES ASSUME NEW hit \in old, hit \in new PROVE FALSE
      OBVIOUS
  <2>1. PICK j \in 1..(i - 1) : hit \in HitsOf(AssetTypes[j], shown[j])
      BY DEF HitsUpTo
  <2>2. hit.type = AssetTypes[j] /\ hit.type = AssetTypes[i]
      BY <2>1 DEF HitsOf
  <2>3. j \in 1..8 /\ j # i
      OBVIOUS
  <2> QED
      BY <2>2, <2>3, BucketsDiffer
<1>3. IsFiniteSet(new) /\ Cardinality(new) = Cardinality(shown[i])
    BY HitsAreMany
<1> HIDE DEF new
<1>4. /\ IsFiniteSet(old \union new)
      /\ Cardinality(old \union new) = Cardinality(old) + Cardinality(new) - Cardinality(old \cap new)
    BY <1>3, FS_Union
<1>5. Cardinality(old) \in Nat /\ Cardinality(new) \in Nat /\ Cardinality(old \cap new) = 0
    BY <1>2, <1>3, FS_CardinalityType, FS_EmptySet
<1> QED
    BY <1>1, <1>3, <1>4, <1>5

\* What a bucket gives is finitely many of its candidates, with room for all or else full.
LEMMA BucketFits ==
    ASSUME NEW response \in SearchAnswer, NEW wanted, NEW i \in 1..8, NEW left \in Nat
    PROVE  LET taken == TakenOf(response, wanted, i, left)
               all == IF wanted \in {Absent, AssetTypes[i]} THEN Candidates(response[AssetTypes[i]]) ELSE {}
           IN /\ taken \subseteq all /\ IsFiniteSet(taken) /\ Cardinality(taken) \in Nat
              /\ Cardinality(taken) <= GroupCap /\ Cardinality(taken) <= left
              /\ \A k \in all \ taken :
                   /\ Cardinality(taken) = GroupCap \/ Cardinality(taken) = left
                   /\ \A j \in taken : j < k
<1> DEFINE all == Candidates(response[AssetTypes[i]])
           room == Least(GroupCap, left)
<1>1. all \in SUBSET Nat /\ IsFiniteSet(all)
  <2>1. AssetTypes[i] \in AssetType
      BY BucketsDiffer
  <2>2. response[AssetTypes[i]] \in Seq(ToSet(response[AssetTypes[i]]))
      BY <2>1, ListsAreCapped
  <2>3. PICK n \in Nat : DOMAIN response[AssetTypes[i]] = 1..n
      BY <2>2
  <2>4. all \in SUBSET (1..n)
      BY <2>3 DEF Candidates
  <2>5. IsFiniteSet(1..n)
      BY FS_Interval
  <2> HIDE DEF all
  <2>6. IsFiniteSet(all)
      BY <2>4, <2>5, FS_Subset
  <2> QED
      BY <2>4, <2>6
<1>2. /\ room \in Nat /\ room <= GroupCap /\ room <= left /\ GroupCap \in Nat
      /\ room = GroupCap \/ room = left
    BY ListsAreCapped DEF Least
<1> HIDE DEF all, room
<1>3. CASE wanted \in {Absent, AssetTypes[i]}
  <2> DEFINE taken == First(room, all)
  <2>1. TakenOf(response, wanted, i, left) = taken
      BY <1>3 DEF TakenOf, Taken, room, all
  <2>2. /\ taken \subseteq all /\ IsFiniteSet(taken)
        /\ Cardinality(taken) \in Nat /\ Cardinality(taken) <= room
        /\ \A k \in all \ taken : Cardinality(taken) = room /\ \A j \in taken : j < k
      BY <1>1, <1>2, FirstFits
  <2> HIDE DEF taken
  <2>3. Cardinality(taken) <= GroupCap /\ Cardinality(taken) <= left
      BY <1>2, <2>2
  <2>4. ASSUME NEW k \in all \ taken
        PROVE  /\ Cardinality(taken) = GroupCap \/ Cardinality(taken) = left
               /\ \A j \in taken : j < k
      BY <1>2, <2>2, <2>4
  <2> QED
      BY <1>3, <2>1, <2>2, <2>3, <2>4 DEF all
<1>4. CASE wanted \notin {Absent, AssetTypes[i]}
  <2>1. TakenOf(response, wanted, i, left) = {}
      BY <1>4 DEF TakenOf
  <2>2. IsFiniteSet({}) /\ Cardinality({}) = 0 /\ 0 <= GroupCap /\ 0 <= left
      BY <1>2, FS_EmptySet
  <2> QED
      BY <1>4, <2>1, <2>2
<1> QED
    BY <1>3, <1>4

\* The buckets before the i-th have given what is missing of the limit.
LimitHolds(response, wanted, limit, i) ==
    LET left == LeftOf(response, wanted, limit)
        hits == HitsUpTo(i - 1, Shown(response, wanted, limit))
    IN /\ left[i] \in Nat /\ IsFiniteSet(hits) /\ Cardinality(hits) \in Nat
       /\ Cardinality(hits) + left[i] = limit

\* So it is for every bucket.
LEMMA LimitAlwaysHolds ==
    ASSUME NEW response \in SearchAnswer, NEW wanted, NEW limit \in Nat
    PROVE  \A i \in 1..8 : LimitHolds(response, wanted, limit, i)
<1> DEFINE holds(i) == LimitHolds(response, wanted, limit, i)
           left == LeftOf(response, wanted, limit)
           shown == Shown(response, wanted, limit)
           fails == {i \in 1..8 : ~holds(i)}
<1>1. shown = [i \in 1..8 |-> TakenOf(response, wanted, i, left[i])]
    BY BucketsDiffer DEF Shown
<1>2. \A i \in 1..8 : left[i] = IF i = 1 THEN limit
                                ELSE left[i - 1] - Cardinality(TakenOf(response, wanted, i - 1, left[i - 1]))
    BY LimitIsHandedOn
<1> HIDE DEF left, shown
<1>3. \A i \in 1..8 : holds(i) <=>
          /\ left[i] \in Nat /\ IsFiniteSet(HitsUpTo(i - 1, shown))
          /\ Cardinality(HitsUpTo(i - 1, shown)) \in Nat
          /\ Cardinality(HitsUpTo(i - 1, shown)) + left[i] = limit
    BY DEF LimitHolds, left, shown
<1> HIDE DEF holds
<1>4. holds(1)
  <2>1. HitsUpTo(0, shown) = {}
      BY DEF HitsUpTo
  <2>2. 1 - 1 = 0 /\ left[1] = limit
      BY <1>2
  <2> QED
      BY <1>3, <2>1, <2>2, FS_EmptySet
<1>5. ASSUME NEW i \in 2..8, holds(i - 1) PROVE holds(i)
  <2> DEFINE h == i - 1
  <2>1. h \in 1..8 /\ i \in 1..8 /\ i # 1
      OBVIOUS
  <2> HIDE DEF h
  <2>2. /\ left[h] \in Nat /\ IsFiniteSet(HitsUpTo(h - 1, shown))
        /\ Cardinality(HitsUpTo(h - 1, shown)) \in Nat
        /\ Cardinality(HitsUpTo(h - 1, shown)) + left[h] = limit
      BY <1>3, <1>5, <2>1 DEF h
  <2>3. /\ IsFiniteSet(shown[h]) /\ Cardinality(shown[h]) \in Nat
        /\ Cardinality(shown[h]) <= left[h]
      BY <1>1, <2>1, <2>2, BucketFits
  <2>4. /\ IsFiniteSet(HitsUpTo(h, shown))
        /\ Cardinality(HitsUpTo(h, shown))
             = Cardinality(HitsUpTo(h - 1, shown)) + Cardinality(shown[h])
      BY <2>1, <2>2, <2>3, HitsAddUp
  <2>5. left[i] = left[h] - Cardinality(shown[h])
      BY <1>1, <1>2, <2>1 DEF h
  <2>6. /\ left[i] \in Nat /\ Cardinality(HitsUpTo(h, shown)) \in Nat
        /\ Cardinality(HitsUpTo(h, shown)) + left[i] = limit
      BY <2>2, <2>3, <2>4, <2>5
  <2> QED
      BY <1>3, <2>1, <2>4, <2>6 DEF h
<1>6. fails = {}
  <2> SUFFICES ASSUME fails # {} PROVE FALSE
      OBVIOUS
  <2>1. fails \subseteq Nat
      OBVIOUS
  <2>2. PICK i \in fails : \A j \in fails : i <= j
    <3> HIDE DEF fails
    <3> QED
        BY <2>1, LeastNumber
  <2>3. i \in 2..8 /\ ~holds(i)
    <3>1. i \in 1..8 /\ ~holds(i) /\ i # 1
        BY <1>4
    <3> QED
        BY <3>1
  <2>4. i - 1 \in 1..8 /\ ~(i <= i - 1)
      BY <2>3
  <2>5. holds(i - 1)
      BY <2>2, <2>4
  <2> QED
      BY <1>5, <2>3, <2>5
<1> QED
    BY <1>6 DEF holds

\* All the hits: no more than the limit, and more than those of the first i buckets only
\* when these left some of it.
LEMMA HitsFit ==
    ASSUME NEW response \in SearchAnswer, NEW wanted, NEW limit \in Nat
    PROVE  LET shown == Shown(response, wanted, limit)
               left == LeftOf(response, wanted, limit)
               hits == HitsUpTo(8, shown)
           IN /\ IsFiniteSet(hits) /\ Cardinality(hits) \in Nat /\ Cardinality(hits) <= limit
              /\ \A i \in 1..8 :
                   /\ left[i] \in Nat /\ shown[i] = TakenOf(response, wanted, i, left[i])
                   /\ Cardinality(shown[i]) = left[i] => Cardinality(hits) = limit
<1> DEFINE shown == Shown(response, wanted, limit)
           left == LeftOf(response, wanted, limit)
           hits == HitsUpTo(8, shown)
<1>1. \A i \in 1..8 : shown[i] = TakenOf(response, wanted, i, left[i])
    BY BucketsDiffer DEF Shown
<1>2. \A i \in 1..8 : /\ left[i] \in Nat /\ IsFiniteSet(HitsUpTo(i - 1, shown))
                      /\ Cardinality(HitsUpTo(i - 1, shown)) \in Nat
                      /\ Cardinality(HitsUpTo(i - 1, shown)) + left[i] = limit
    BY LimitAlwaysHolds DEF LimitHolds
<1> HIDE DEF shown, left
<1>3. \A i \in 1..8 : /\ IsFiniteSet(shown[i]) /\ Cardinality(shown[i]) \in Nat
                      /\ Cardinality(shown[i]) <= left[i]
  <2> SUFFICES ASSUME NEW i \in 1..8
               PROVE  /\ IsFiniteSet(shown[i]) /\ Cardinality(shown[i]) \in Nat
                      /\ Cardinality(shown[i]) <= left[i]
      OBVIOUS
  <2> DEFINE n == left[i]
  <2>1. n \in Nat /\ shown[i] = TakenOf(response, wanted, i, n)
      BY <1>1, <1>2
  <2> HIDE DEF n
  <2>2. /\ IsFiniteSet(TakenOf(response, wanted, i, n))
        /\ Cardinality(TakenOf(response, wanted, i, n)) \in Nat
        /\ Cardinality(TakenOf(response, wanted, i, n)) <= n
      BY <2>1, BucketFits
  <2> QED
      BY <2>1, <2>2 DEF n
<1>4. \A i \in 1..8 : /\ IsFiniteSet(HitsUpTo(i, shown))
                      /\ Cardinality(HitsUpTo(i, shown))
                           = Cardinality(HitsUpTo(i - 1, shown)) + Cardinality(shown[i])
    BY <1>2, <1>3, HitsAddUp
<1>5. \A i \in 1..8 : /\ Cardinality(HitsUpTo(i, shown)) \in Nat
                      /\ Cardinality(HitsUpTo(i, shown)) <= limit
                      /\ Cardinality(shown[i]) = left[i] => Cardinality(HitsUpTo(i, shown)) = limit
    BY <1>2, <1>3, <1>4
<1>6. IsFiniteSet(hits) /\ Cardinality(hits) \in Nat /\ Cardinality(hits) <= limit
    BY <1>4, <1>5
<1>7. ASSUME NEW i \in 1..8, Cardinality(shown[i]) = left[i] PROVE Cardinality(hits) = limit
  <2>1. HitsUpTo(i, shown) \in SUBSET hits
    <3>1. \A j \in 1..i : j \in 1..8
        OBVIOUS
    <3> QED
        BY <3>1 DEF HitsUpTo
  <2>2. Cardinality(HitsUpTo(i, shown)) <= Cardinality(hits)
      BY <1>6, <2>1, FS_Subset
  <2> QED
      BY <1>5, <1>6, <1>7, <2>2
<1> QED
    BY <1>1, <1>2, <1>6, <1>7 DEF shown, left

\* What is promised of the hits of a search.
HitsDropOnlyAtCap(response, a, hits) ==
    LET limit == IF a.limit = Absent THEN TotalCap ELSE a.limit
        all(t) == IF a.type \in {Absent, t} THEN Candidates(response[t]) ELSE {}
        shown(t) == {hit \in hits : hit.type = t}
    IN /\ Cardinality(hits) <= limit
       /\ \A t \in AssetType :
            /\ Cardinality(shown(t)) <= GroupCap
            /\ \A hit \in shown(t) : hit.at \in all(t)
            /\ \A k \in all(t) \ {hit.at : hit \in shown(t)} :
                 /\ Cardinality(shown(t)) = GroupCap \/ Cardinality(hits) = limit
                 /\ \A hit \in shown(t) : hit.at < k

\* The lists of a search keep it.
LEMMA SearchFits ==
    ASSUME NEW response \in SearchAnswer, NEW a \in Ask, a.kind = "search"
    PROVE  HitsDropOnlyAtCap(response, a, SearchHits(response, a.type, a.limit))
<1> DEFINE limit == IF a.limit = Absent THEN TotalCap ELSE a.limit
           all(t) == IF a.type \in {Absent, t} THEN Candidates(response[t]) ELSE {}
           places == Shown(response, a.type, limit)
           left == LeftOf(response, a.type, limit)
           hits == SearchHits(response, a.type, a.limit)
           shown(t) == {hit \in hits : hit.type = t}
<1>1. limit \in Nat
    BY ListsAreCapped
<1>2. hits = HitsUpTo(8, places)
    BY BucketsDiffer DEF SearchHits, HitsUpTo, HitsOf
<1> HIDE DEF limit, hits
<1>3. Cardinality(hits) <= limit
    BY <1>1, <1>2, HitsFit
<1>4. \A i \in 1..8 : /\ left[i] \in Nat /\ places[i] = TakenOf(response, a.type, i, left[i])
                      /\ Cardinality(places[i]) = left[i] => Cardinality(hits) = limit
    BY <1>1, <1>2, HitsFit
<1> HIDE DEF places, left
<1>5. ASSUME NEW t \in AssetType
      PROVE  /\ Cardinality(shown(t)) <= GroupCap
             /\ \A hit \in shown(t) : hit.at \in all(t)
             /\ \A k \in all(t) \ {hit.at : hit \in shown(t)} :
                  /\ Cardinality(shown(t)) = GroupCap \/ Cardinality(hits) = limit
                  /\ \A hit \in shown(t) : hit.at < k
  <2>1. PICK i \in 1..8 : t = AssetTypes[i]
      BY BucketsDiffer
  <2> DEFINE taken == places[i]
  <2>2. shown(t) = HitsOf(t, taken)
    <3>1. ASSUME NEW hit \in HitsOf(t, taken) PROVE hit \in hits /\ hit.type = t
        BY <1>2, <2>1 DEF HitsUpTo, HitsOf
    <3>2. ASSUME NEW hit \in hits, hit.type = t PROVE hit \in HitsOf(t, taken)
      <4>1. PICK j \in 1..8 : hit \in HitsOf(AssetTypes[j], places[j])
          BY <1>2 DEF HitsUpTo
      <4>2. AssetTypes[j] = AssetTypes[i]
          BY <2>1, <3>2, <4>1 DEF HitsOf
      <4> QED
          BY <2>1, <4>1, <4>2, BucketsDiffer
    <3> QED
        BY <3>1, <3>2
  <2>3. /\ taken \subseteq all(t) /\ IsFiniteSet(taken) /\ Cardinality(taken) \in Nat
        /\ Cardinality(taken) <= GroupCap
        /\ \A k \in all(t) \ taken :
             /\ Cardinality(taken) = GroupCap \/ Cardinality(taken) = left[i]
             /\ \A j \in taken : j < k
    <3> DEFINE n == left[i]
    <3>1. n \in Nat /\ taken = TakenOf(response, a.type, i, n)
        BY <1>4
    <3> HIDE DEF n, taken, all
    <3>2. LET bucket == IF a.type \in {Absent, AssetTypes[i]}
                        THEN Candidates(response[AssetTypes[i]]) ELSE {}
          IN /\ taken \subseteq bucket /\ IsFiniteSet(taken) /\ Cardinality(taken) \in Nat
             /\ Cardinality(taken) <= GroupCap
             /\ \A k \in bucket \ taken :
                  /\ Cardinality(taken) = GroupCap \/ Cardinality(taken) = n
                  /\ \A j \in taken : j < k
        BY <3>1, BucketFits
    <3> QED
        BY <2>1, <3>2 DEF n, all
  <2> HIDE DEF taken
  <2>4. Cardinality(HitsOf(t, taken)) = Cardinality(taken)
      BY <2>3, HitsAreMany
  <2>5. {hit.at : hit \in HitsOf(t, taken)} = taken
    <3>1. ASSUME NEW k \in taken PROVE \E hit \in HitsOf(t, taken) : k = hit.at
      <4>1. [type |-> t, at |-> k] \in HitsOf(t, taken)
          BY DEF HitsOf
      <4> QED
          BY <4>1
    <3> QED
        BY <3>1 DEF HitsOf
  <2>6. \A hit \in HitsOf(t, taken) : hit.at \in taken
      BY DEF HitsOf
  <2>7. Cardinality(taken) = left[i] => Cardinality(hits) = limit
      BY <1>4 DEF taken
  <2> HIDE DEF all
  <2> QED
      BY <2>2, <2>3, <2>4, <2>5, <2>6, <2>7
<1> HIDE DEF all, shown
<1> QED
    BY <1>3, <1>5 DEF limit, all, shown, hits, HitsDropOnlyAtCap

\* The index cards hold what is promised of them.
LEMMA IndexFits ==
    ASSUME NEW cards \in CardsAnswer, NEW a \in Ask, a.kind = "indices"
    PROVE  LET limit == IF a.limit = Absent THEN CardCap ELSE a.limit
               all == {k \in DOMAIN cards : CardShown(cards[k], a.region)}
               shown == IndexCards(cards, a.region, a.limit)
           IN /\ shown \subseteq all /\ Cardinality(shown) <= limit
              /\ \A k \in all \ shown : Cardinality(shown) = limit /\ \A j \in shown : j < k
<1> DEFINE limit == IF a.limit = Absent THEN CardCap ELSE a.limit
           all == {k \in DOMAIN cards : CardShown(cards[k], a.region)}
<1>1. limit \in Nat
    BY ListsAreCapped
<1>2. all \in SUBSET Nat /\ IsFiniteSet(all)
  <2>1. PICK n \in Nat : DOMAIN cards = 1..n
      BY ListsAreCapped
  <2>2. all \in SUBSET (1..n)
      BY <2>1
  <2>3. IsFiniteSet(1..n)
      BY FS_Interval
  <2> HIDE DEF all
  <2>4. IsFiniteSet(all)
      BY <2>2, <2>3, FS_Subset
  <2> QED
      BY <2>2, <2>4
<1>3. IndexCards(cards, a.region, a.limit) = First(limit, all)
    BY DEF IndexCards
<1> HIDE DEF limit, all
<1>4. /\ First(limit, all) \subseteq all /\ Cardinality(First(limit, all)) <= limit
      /\ \A k \in all \ First(limit, all) :
           Cardinality(First(limit, all)) = limit /\ \A j \in First(limit, all) : j < k
    BY <1>1, <1>2, FirstFits
<1> QED
    BY <1>3, <1>4 DEF limit, all

\* Only the two reads of lists make one, and it stays with the request it answers.
LEMMA ListStepFits == ReadInv /\ ListsMade /\ [ReadsNext]_readVars => ListsMade'
<1> SUFFICES ASSUME ReadInv, ListsMade, [ReadsNext]_readVars PROVE ListsMade'
    OBVIOUS
<1>1. stage = "read" => ask \in Ask
    BY DEF ReadInv, StageFits
<1>2. CASE ReadSearch
    BY <1>1, <1>2 DEF ReadSearch, Reply, ListsMade
<1>3. CASE ReadIndices
    BY <1>1, <1>3 DEF ReadIndices, Reply, ListsMade
<1>4. CASE answer'.kind \notin {"search", "indices"}
    BY <1>4 DEF ListsMade
<1>5. CASE answer' = answer /\ ask' = ask /\ sent' = sent
    BY <1>5 DEF ListsMade
<1>6. CASE Begin \/ Done
  <2>1. answer' = NoAnswer
      BY <1>6, Zenon DEF Begin, Done
  <2> QED
      BY <1>4, <2>1 DEF NoAnswer
<1>7. CASE ReadAccount \/ NotFound \/ TooLarge \/ CallFails
    BY <1>4, <1>7 DEF ReadAccount, NotFound, TooLarge, CallFails, Reply, Error
<1>8. CASE SearchTerm
  <2>1. UNCHANGED <<ask, sent>>
      BY <1>8 DEF SearchTerm
  <2>2. answer' = answer \/ answer'.kind \in {"error", "details"}
      BY <1>8 DEF SearchTerm, Resolves, Reply, Error, IdentityOnly
  <2> QED
      BY <1>4, <1>5, <2>1, <2>2
<1>9. CASE ReadStatic \/ FetchNext \/ CallUnauthorized
  <2>1. UNCHANGED <<ask, sent>>
      BY <1>9 DEF ReadStatic, FetchNext, CallUnauthorized
  <2>2. answer' = answer \/ answer'.kind = "error"
      BY <1>9 DEF ReadStatic, FetchNext, CallUnauthorized, Reply, Error
  <2> QED
      BY <1>4, <1>5, <2>1, <2>2
<1>10. CASE Assemble
  <2>1. answer'.kind \in {"error", "details"}
      BY <1>10 DEF Assemble, Reply, Error, Details
  <2> QED
      BY <1>4, <2>1
<1>11. CASE UNCHANGED readVars
    BY <1>5, <1>11 DEF readVars
<1> QED
    BY <1>2, <1>3, <1>6, <1>7, <1>8, <1>9, <1>10, <1>11 DEF ReadsNext

\* A search and the index cards leave something out only when a list is full
\* (to_market_search_with_caps, to_market_indices), whatever the bank sends and
\* whatever the caps.
THEOREM ListsAreFull == ReadsSpec => []ListsDropOnlyAtCap
<1>1. ReadsInit => ListsMade
    BY DEF ReadsInit, NoAnswer, ListsMade
<1>2. ListsMade => ListsDropOnlyAtCap
  <2> SUFFICES ASSUME ListsMade PROVE ListsDropOnlyAtCap
      OBVIOUS
  <2>1. CASE answer.kind = "search"
    <3>1. /\ ask \in Ask /\ ask.kind = "search" /\ sent \in SearchAnswer
          /\ answer.hits = SearchHits(sent, ask.type, ask.limit)
        BY <2>1 DEF ListsMade
    <3>2. HitsDropOnlyAtCap(sent, ask, answer.hits)
        BY <3>1, SearchFits
    <3>3. answer.kind # "indices"
        BY <2>1
    <3> QED
        BY <3>2, <3>3 DEF HitsDropOnlyAtCap, ListsDropOnlyAtCap
  <2>2. CASE answer.kind = "indices"
    <3>1. /\ ask \in Ask /\ ask.kind = "indices" /\ sent \in CardsAnswer
          /\ answer.cards = IndexCards(sent, ask.region, ask.limit)
        BY <2>2 DEF ListsMade
    <3> QED
        BY <2>2, <3>1, IndexFits DEF ListsDropOnlyAtCap
  <2>3. CASE answer.kind \notin {"search", "indices"}
      BY <2>3 DEF ListsDropOnlyAtCap
  <2> QED
      BY <2>1, <2>2, <2>3
<1> QED
    BY <1>1, <1>2, ListStepFits, ReadsFit, PTL DEF ReadsSpec

-----------------------------------------------------------------------------
(* The worker's two activities keep to their own specifications.           *)

\* Every step of the worker is a step of its walk through the statement and none of
\* its other reads, or the other way round.
THEOREM WorkerImplements == WorkerSpec => WalkSpec /\ ReadsSpec
<1>1. WorkerInit => WalkInit /\ ReadsInit
    BY DEF WorkerInit
<1>2. [WorkerNext]_WorkerVars => [WalkNext]_statementVars
    BY DEF WorkerNext, WorkerVars
<1>3. [WorkerNext]_WorkerVars => [ReadsNext]_readVars
  <2> SUFFICES ASSUME [WorkerNext]_WorkerVars PROVE [ReadsNext]_readVars
      OBVIOUS
  <2>1. CASE ReadStep
      BY <2>1 DEF ReadStep, BeginStep, ReadsNext
  <2>2. CASE UNCHANGED readVars
      BY <2>2
  <2> QED
      BY <2>1, <2>2 DEF WorkerNext, WorkerVars
<1> QED
    BY <1>1, <1>2, <1>3, PTL DEF WorkerSpec, WalkSpec, ReadsSpec

-----------------------------------------------------------------------------
(* The dividends of the movements captured.                                *)

\* The dividends reported add up (pair_dividends, latest_dividends): whatever movements
\* the bank books, and however the walk comes by them.
THEOREM DividendsAreWhole == WorkerSpec => []DividendsAddUp
<1>1. WalkTypeOK /\ Finite => DividendsAddUp
  <2> SUFFICES ASSUME WalkTypeOK, Finite PROVE DividendsAddUp
      OBVIOUS
  <2>1. statement.rows \subseteq Row
      BY WalkConstants DEF WalkTypeOK
  <2>2. Amounts(statement.rows) /\ \A r, q \in statement.rows : r.label # q
      BY <2>1, LegConstants DEF Finite, Amounts
  <2> QED
      BY <2>2, DividendsOfRows DEF DividendsAddUp
<1> QED
    BY <1>1, CapturedIsFinite, WorkerImplements, PTL

-----------------------------------------------------------------------------

\* So that what is promised of the one and of the other is promised of the worker.
THEOREM WorkerKeepsPromises ==
    WorkerSpec => /\ StatementIsWhole
                  /\ [](NamesFollowTaxonomy /\ DividendsAddUp)
                  /\ [](OneInstrument /\ SectionsAccounted /\ FieldsAgree /\ ReadsFitTimeout /\ ListsDropOnlyAtCap)
BY WorkerImplements, CapturedStatementIsWhole, NamesAreInForce, DividendsAreWhole,
   AnswersAreOfOneInstrument, SectionsAreTold, FieldsTellSources, ClientsOutlastReads,
   ListsAreFull, PTL
=============================================================================
