---------------------------- MODULE MarketReads ----------------------------
(***************************************************************************)
(* One request at the private worker, from the login to the answer: the    *)
(* market reads under run_market_read (search, indices, details) and the   *)
(* single reads of a refresh (portfolio, orders, tax).                     *)
(*                                                                         *)
(* A market call is tried up to Attempts times; `spent' adds up the time   *)
(* the calls may have taken, each attempt at its HTTP timeout.  A 401 on a *)
(* session that was reused runs the read once more after a login.          *)
(***************************************************************************)
EXTENDS AssetDetails

CONSTANTS
    Ask,             \* the requests
    SearchAnswer,    \* what global search may send
    StaticAnswer, SnapshotAnswer, EtfAnswer, EtfDataAnswer, StockAnswer, ReportsAnswer,
    CardsAnswer,     \* what indicesbar may send
    ClientTimeout,   \* the client's timeout of each kind of request
    HttpTimeout,     \* of one attempt at a call
    Attempts         \* MARKET_RETRY_ATTEMPTS

MarketKinds == {"search", "indices", "details"}
RefreshKinds == {"portfolio", "orders", "tax"}

ASSUME ReadConstants ==
    /\ \A a \in Ask : /\ a.kind \in MarketKinds \union RefreshKinds
                      /\ a.kind = "details" => a.sections \in {Absent} \union SUBSET Sections
    /\ HttpTimeout \in Nat /\ Attempts \in Nat \ {0}
    /\ ClientTimeout \in [MarketKinds \union RefreshKinds -> Nat]

\* A bucket and the cards are lists, and a limit is at least one and at most the cap.
ASSUME ListsAreCapped ==
    /\ GroupCap \in Nat \ {0} /\ TotalCap \in Nat \ {0} /\ CardCap \in Nat \ {0}
    /\ \A response \in SearchAnswer : \A t \in AssetType : response[t] \in Seq(ToSet(response[t]))
    /\ \A cards \in CardsAnswer : cards \in Seq(ToSet(cards))
    /\ \A a \in Ask : /\ a.kind = "search" => a.limit \in (1..TotalCap) \union {Absent}
                      /\ a.kind = "indices" => a.limit \in (1..CardCap) \union {Absent}

\* login(): the preflight and the login, one attempt each
LoginTime == 2 * HttpTimeout

\* What the client's timeouts are made for: a login and the calls of one read. The
\* details are read by a search of up to four terms, the static item and up to
\* four endpoints.
ASSUME TimeoutsCoverReads ==
    /\ \A kind \in RefreshKinds : LoginTime + HttpTimeout <= ClientTimeout[kind]
    /\ \A kind \in {"search", "indices"} :
         LoginTime + Attempts * HttpTimeout <= ClientTimeout[kind]
    /\ LoginTime + (4 + 1 + 4) * (Attempts * HttpTimeout) <= ClientTimeout["details"]

\* The rows of the ETF endpoints, and what a request for details may come upon.
EtfRows == UNION {ToSet(rows) : rows \in EtfAnswer \union EtfDataAnswer}
Offered(t) ==
    {raw \in UNION {ToSet(response[t]) : response \in SearchAnswer} :
       Complete(raw) /\ \E a \in Ask : a.kind = "details" /\ a.venue = raw.venue}

\* An answer is one thing or another: an item, Missing where the key may be unknown,
\* and never what stands for no answer. A bond's figures are numbers.
ASSUME AnswersAreItems ==
    /\ Absent \notin Int /\ NotFetched # Missing
    /\ \A t \in Supported : \A raw \in Offered(t) : Candidate(raw, t).key # Absent
    /\ \A x \in {NotFetched, Missing} : x \notin EtfRows /\ x \notin StockAnswer /\ x \notin ReportsAnswer
    /\ NotFetched \notin StaticAnswer /\ NotFetched \notin SnapshotAnswer
    /\ NotFetched \notin EtfAnswer /\ NotFetched \notin EtfDataAnswer
    /\ \A rows \in EtfAnswer \union EtfDataAnswer : rows \in Seq(EtfRows)
    /\ \A item \in StaticAnswer \ {Missing} :
         /\ item.bond.rate \in Int \union {Absent}
         /\ item.bond.payments \in (Nat \ {0}) \union {Absent}

\* The instrument x is the one the candidate stands for.
Same(x, candidate) ==
    IF candidate.isin # Absent THEN x.isin = candidate.isin
    ELSE x.venue = candidate.venue /\ x.symbol = FullSymbol(candidate)

\* id is one of the names of x, and neither ISINs nor symbols are taken for other names.
NameOf(id, x) ==
    /\ id \in {x.isin, <<x.isin, x.venue>>, <<x.symbol, x.venue>>}
    /\ \A t \in Supported : \A raw \in Offered(t) :
         /\ x.symbol # raw.isin /\ x.isin # <<raw.symbol, raw.class>>
         /\ x.isin \notin {<<raw.isin, raw.venue>>, <<<<raw.symbol, raw.class>>, raw.venue>>}
         /\ raw.isin \notin {<<x.isin, x.venue>>, <<x.symbol, x.venue>>}

\* What is taken from the bank as given: its rows are true about themselves, a
\* venue has one instrument of a symbol, and a stock's snapshot that is asked
\* for under a key and has the symbol of that key is of its instrument.
ASSUME BankTellsTruth ==
    /\ \A r \in EtfRows :
         /\ r.isin \in {Absent, r.of.isin} /\ r.venue \in {Absent, r.of.venue}
         /\ r.ticker \in {Absent, r.of.symbol}
         /\ r.id # Absent => NameOf(r.id, r.of)
         /\ \A t \in Supported : \A raw \in Offered(t) :
              raw.isin # Absent /\ <<raw.symbol, raw.class>> = r.of.symbol /\ raw.venue = r.of.venue
                => raw.isin = r.of.isin
    /\ \A item \in StaticAnswer \ {Missing} : item.isin \in {Absent, item.of.isin}
    /\ \A stock \in StockAnswer, raw \in Offered("stock") :
         stock.ticker = <<raw.symbol, raw.class>> => Same(stock.of, Candidate(raw, "stock"))
    /\ \A reports \in ReportsAnswer :
         reports.instrument # Absent => NameOf(reports.instrument, reports.of)

VARIABLES
    ask,        \* the request in hand
    stage,      \* where its read is
    terms,      \* search terms not tried yet
    found,      \* the candidate resolved
    in,         \* what the endpoints have sent
    reused,     \* whether the session was held from before
    recovered,  \* whether a 401 was repaired
    spent,      \* the time the calls may have taken
    answer,     \* the reply
    sent        \* history: the search or the cards it was made of

readVars == <<ask, stage, terms, found, in, reused, recovered, spent, answer, sent>>

NoAsk == [kind |-> "none"]
NothingFetched ==
    [e \in ToSet(Endpoints) \union {"static"} |-> NotFetched]
NoAnswer == [kind |-> "none"]
Error(code) == [kind |-> "error", code |-> code]

\* Variant with a bug, to test the properties: Attempts retries follow the first attempt.
CallTimeRetryingOnceMore ==
    IF ask.kind \in MarketKinds THEN (Attempts + 1) * HttpTimeout ELSE HttpTimeout

\* with_market_retry: a market call is tried up to Attempts times, without a pause
CallTime == IF ask.kind \in MarketKinds THEN Attempts * HttpTimeout ELSE HttpTimeout

ReadsInit ==
    /\ ask = NoAsk /\ stage = "idle" /\ terms = << >> /\ found = Absent
    /\ in = NothingFetched
    /\ reused = FALSE /\ recovered = FALSE /\ spent = 0
    /\ answer = NoAnswer /\ sent = Absent

FirstStage(a) == IF a.kind = "details" THEN "search" ELSE "read"

\* The read starts from nothing, at first and after a recovered 401.
Start(a) ==
    /\ stage' = FirstStage(a)
    /\ terms' = IF a.kind = "details" THEN SearchTerms(a) ELSE << >>
    /\ found' = Absent
    /\ in' = NothingFetched

\* A valid request; a refresh always logs in, a market read may hold a session.
Begin ==
    /\ stage = "idle"
    /\ ask' \in Ask
    /\ reused' \in (IF ask'.kind \in MarketKinds THEN BOOLEAN ELSE {FALSE})
    /\ recovered' = FALSE
    /\ spent' = IF reused' THEN 0 ELSE LoginTime
    /\ answer' = NoAnswer /\ sent' = Absent
    /\ Start(ask')

Reply(a) ==
    /\ answer' = a
    /\ stage' = "replied"

\* A call is made and answered.
Calls == spent' = spent + CallTime

-----------------------------------------------------------------------------
(* Reads of one call.                                                      *)

ReadSearch ==
    /\ stage = "read" /\ ask.kind = "search"
    /\ \E response \in SearchAnswer :
         /\ sent' = response
         /\ Reply([kind |-> "search",
                   hits |-> SearchHits(response, ask.type, ask.limit)])
    /\ Calls
    /\ UNCHANGED <<ask, terms, found, in, reused, recovered>>

ReadIndices ==
    /\ stage = "read" /\ ask.kind = "indices"
    /\ \E cards \in CardsAnswer :
         /\ sent' = cards
         /\ Reply([kind |-> "indices", cards |-> IndexCards(cards, ask.region, ask.limit)])
    /\ Calls
    /\ UNCHANGED <<ask, terms, found, in, reused, recovered>>

\* fetch_portfolio, fetch_raw_orders, fetch_tax_*: refresh_login and one call
ReadAccount ==
    /\ stage = "read" /\ ask.kind \in RefreshKinds
    /\ Reply([kind |-> "account"])
    /\ Calls
    /\ UNCHANGED <<ask, terms, found, in, reused, recovered, sent>>

-----------------------------------------------------------------------------
(* fetch_market_asset_details.                                             *)

\* The one candidate that matches is read, if its type is supported.
Resolves(candidate) ==
    IF candidate.type \notin Supported
    THEN Reply(Error("market_unsupported_asset_type")) /\ UNCHANGED found
    ELSE /\ found' = candidate
         /\ IF WantsOnlyIdentity(ask) THEN Reply(IdentityOnly(candidate))
            ELSE stage' = "static" /\ UNCHANGED answer

\* One candidate settles it, several are ambiguous; none sends the next term.
SearchTerm ==
    /\ stage = "search"
    /\ terms # << >>
    /\ terms' = Tail(terms)
    /\ Calls
    /\ \E response \in SearchAnswer :
         LET left == Survivors(response, ask) IN
         \/ left = {} /\ UNCHANGED <<stage, found, answer>>
         \/ /\ \E hit, other \in left : hit # other
            /\ Reply(Error("market_ambiguous_identifier")) /\ UNCHANGED found
         \/ \E hit \in left : left = {hit} /\ Resolves(CandidateAt(response, hit))
    /\ UNCHANGED <<ask, in, reused, recovered, sent>>

NotFound ==
    /\ stage = "search"
    /\ terms = << >>
    /\ Reply(Error("market_not_found"))
    /\ UNCHANGED <<ask, terms, found, in, reused, recovered, spent, sent>>

\* The static item under the candidate's key has to be the instrument's.
ReadStatic ==
    /\ stage = "static"
    /\ Calls
    /\ \E item \in StaticAnswer :
         /\ in' = [in EXCEPT !.static = item]
         /\ IF StaticVerified(IF item = Missing THEN Absent ELSE item.isin, found, ask)
            THEN stage' = "fetch" /\ UNCHANGED answer
            ELSE Reply(Error("market_unexpected_response"))
    /\ UNCHANGED <<ask, terms, found, reused, recovered, sent>>

\* The places of the endpoints that are still to be asked, and the next one.
ToFetch ==
    {k \in DOMAIN Endpoints :
       Fetched(ask, found.type, Endpoints[k]) /\ in[Endpoints[k]] = NotFetched}
NextEndpoint == Endpoints[Min(ToFetch)]

AnswersOf(e) ==
    CASE e = "snapshot" -> SnapshotAnswer
      [] e = "etf" -> EtfAnswer
      [] e \in {"composition", "returns"} -> EtfDataAnswer
      [] e = "stock" -> StockAnswer
      [] e = "reports" -> ReportsAnswer

FetchNext ==
    /\ stage = "fetch"
    /\ ToFetch # {}
    /\ \E response \in AnswersOf(NextEndpoint) : in' = [in EXCEPT ![NextEndpoint] = response]
    /\ Calls
    /\ UNCHANGED <<ask, stage, terms, found, reused, recovered, answer, sent>>

\* Everything is there: the answer, unless a part is another instrument's.
Assemble ==
    /\ stage = "fetch"
    /\ ToFetch = {}
    /\ IF Unexpected(in, found, found.type)
       THEN Reply(Error("market_unexpected_response"))
       ELSE \E dcf \in (IF found.type = "bond" THEN {"agrees", "differs", "none"} ELSE {"none"}) :
              Reply(Details(ask, in, found, found.type, dcf))
    /\ UNCHANGED <<ask, terms, found, in, reused, recovered, spent, sent>>

\* validate_response_size
TooLarge ==
    /\ stage = "fetch"
    /\ ToFetch = {}
    /\ Reply(Error("market_unexpected_response"))
    /\ UNCHANGED <<ask, terms, found, in, reused, recovered, spent, sent>>

-----------------------------------------------------------------------------
(* Failures of a call.                                                     *)

Calling ==
    \/ stage \in {"read", "static"}
    \/ stage = "search" /\ terms # << >>
    \/ stage = "fetch" /\ ToFetch # {}

\* with_market_retry has used its attempts up, or the error is final.
CallFails ==
    /\ Calling
    /\ Calls
    /\ \E code \in {"market_upstream_failure", "market_unexpected_response",
                    "market_rate_limited", "internal"} : Reply(Error(code))
    /\ UNCHANGED <<ask, terms, found, in, reused, recovered, sent>>

\* A 401: on a reused session there is one login, and the read starts over.
CallUnauthorized ==
    /\ Calling
    /\ IF reused /\ ~recovered
       THEN /\ Start(ask)
            /\ recovered' = TRUE
            /\ spent' = spent + CallTime + LoginTime
            /\ UNCHANGED answer
       ELSE /\ Reply(Error("market_auth_required"))
            /\ Calls
            /\ UNCHANGED <<terms, found, in, recovered>>
    /\ UNCHANGED <<ask, reused, sent>>

\* The worker turns to the next request.
Done ==
    /\ stage = "replied"
    /\ ask' = NoAsk /\ stage' = "idle" /\ terms' = << >> /\ found' = Absent
    /\ in' = NothingFetched
    /\ reused' = FALSE /\ recovered' = FALSE /\ spent' = 0
    /\ answer' = NoAnswer /\ sent' = Absent

ReadsNext ==
    \/ Begin
    \/ ReadSearch \/ ReadIndices \/ ReadAccount
    \/ SearchTerm \/ NotFound \/ ReadStatic \/ FetchNext \/ Assemble \/ TooLarge
    \/ CallFails \/ CallUnauthorized
    \/ Done

ReadsSpec == ReadsInit /\ [][ReadsNext]_readVars

-----------------------------------------------------------------------------
(* What is to hold.                                                        *)

\* What the answer was made of, as far as it says which instrument it is of.
Sources ==
    {MatchingRow(in[e], found) : e \in {"etf", "composition", "returns"}}
      \union (IF Item(in.stock) /\ in.stock.ticker # Absent
                   /\ ~DroppedDigit(in.stock, found) THEN {in.stock} ELSE {})
      \union (IF Item(in.reports) /\ in.reports.instrument # Absent THEN {in.reports} ELSE {})
      \union (IF found.isin # Absent THEN {in.static} ELSE {})

\* An answer is of one instrument, the one that was asked for: its venue, its
\* symbol and the ISIN the caller expects, and no row of another instrument or
\* of another listing's namesake goes into it, provided the bank's rows are
\* true about themselves.  A ticker that lacks the digit of the share class is
\* taken for the candidate's.
OneInstrument ==
    answer.kind = "details" =>
        /\ Matches(found, ask)
        /\ ask.isin # Absent => found.isin = ask.isin
        /\ \A x \in Sources : Item(x) => Same(x.of, found)

\* No section asked for disappears without a word: it is in the answer or
\* reported missing, never both; only the listing and the quote go silently
\* when the bank has no item under the key.  A bond's section comes with its
\* figures or with the warning that they were not to be had, and figures are
\* made only of constant coupons.
SectionsAccounted ==
    (answer.kind = "details" /\ ~WantsOnlyIdentity(ask)) =>
        /\ answer.sections \cap answer.missing = {}
        /\ ask.sections # Absent =>
             \A s \in ask.sections \ {"identity", "external_enrichment"} :
                \/ s \in answer.sections \union answer.missing
                \/ s = "listing" /\ in.static = Missing
                \/ s = "quote" /\ in.snapshot = Missing
        /\ ask.sections = Absent =>
             DefaultSections[answer.type] \ {"listing", "quote"} \subseteq answer.sections
        /\ ("bond" \in answer.sections
              /\ "bond_analytics_unavailable" \notin answer.warnings) =>
             LET bond == BondFacts(in) IN
             /\ \/ bond.type \in {"fixed", "zero_coupon"}
                \/ bond.type = Absent /\ bond.rate = 0
             /\ bond.expiry > 0 /\ QuoteFacts(in).gross

\* Every source_ref of a field is listed among the sources, and a stock's quote
\* is in the unit its currency names, wherever that currency was found.
FieldsAgree ==
    answer.kind = "details" =>
        /\ answer.refs \subseteq answer.sources
        /\ (answer.type = "stock" /\ "quote" \in answer.sections) =>
             (answer.scaled <=> answer.currency = "GBP")

\* The time the worker may take for a request, every attempt at its HTTP
\* timeout, is within the client's timeout for its kind, so that the client
\* does not give up first; the second run after a 401 is beyond that promise.
ReadsFitTimeout == ask.kind # "none" /\ ~recovered => spent <= ClientTimeout[ask.kind]

\* A search shows the first complete candidates of the buckets asked for, GroupCap
\* of a bucket and its limit in all at most, and it leaves one out only when its
\* bucket or the whole answer is full; the index cards likewise.
ListsDropOnlyAtCap ==
    /\ answer.kind = "search" =>
         LET limit == IF ask.limit = Absent THEN TotalCap ELSE ask.limit
             all(t) == IF ask.type \in {Absent, t} THEN Candidates(sent[t]) ELSE {}
             shown(t) == {hit \in answer.hits : hit.type = t}
         IN /\ Cardinality(answer.hits) <= limit
            /\ \A t \in AssetType :
                 /\ Cardinality(shown(t)) <= GroupCap
                 /\ \A hit \in shown(t) : hit.at \in all(t)
                 /\ \A k \in all(t) \ {hit.at : hit \in shown(t)} :
                      /\ Cardinality(shown(t)) = GroupCap \/ Cardinality(answer.hits) = limit
                      /\ \A hit \in shown(t) : hit.at < k
    /\ answer.kind = "indices" =>
         LET limit == IF ask.limit = Absent THEN CardCap ELSE ask.limit
             all == {k \in DOMAIN sent : CardShown(sent[k], ask.region)}
         IN /\ answer.cards \subseteq all /\ Cardinality(answer.cards) <= limit
            /\ \A k \in all \ answer.cards :
                 Cardinality(answer.cards) = limit /\ \A j \in answer.cards : j < k
=============================================================================
