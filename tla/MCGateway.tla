----------------------------- MODULE MCGateway -----------------------------
EXTENDS Gateway

Owner == [kid |-> "k1", good |-> TRUE, email |-> "owner", commonName |-> Unset]
MCTokens ==
    {NoToken, Owner, [Owner EXCEPT !.kid = "k2"], [Owner EXCEPT !.good = FALSE],
     [Owner EXCEPT !.email = "guest"], [Owner EXCEPT !.email = Unset, !.commonName = "client"]}

Ask(valid, external, expected) == [valid |-> valid, external |-> external, expected |-> expected]
MCAsks ==
    {Ask(TRUE, FALSE, Nothing), Ask(FALSE, FALSE, Nothing), Ask(TRUE, TRUE, Nothing), Ask(TRUE, TRUE, "I1")}

MCCallTools ==
    {"portfolio_get_freshness", "portfolio_get_history", "movements_get_latest",
     "market_get_zero_commission_etfs", "market_search_asset", "market_get_asset_details",
     "private_portfolio_refresh_live_sensitive", "no_such_tool"}

Full == {RequiredCapability(t) : t \in Tool}
Narrow == {"portfolio.shareable.read", "market.authenticated.read"}
MCPolicies == {Full, Narrow}

Asset(type, isin) == [type |-> type, isin |-> isin, symbol |-> "A"]
MCAssets == {Asset("stock", "I1"), Asset("stock", Nothing), Asset("etf", "I1"), Asset("etf", Nothing),
             Asset("bond", "I1")}
Profile(isin, ticker, analysed, usable) ==
    [isin |-> isin, ticker |-> ticker, analysed |-> analysed, usable |-> usable]
MCStockPages ==
    {[profiles |-> ps] :
       ps \in {<< >>, <<Profile("I2", "B", TRUE, TRUE), Profile("I1", "A", FALSE, TRUE)>>,
               <<Profile(Nothing, Nothing, FALSE, FALSE)>>, <<Profile("I1", "A", TRUE, TRUE)>>}}
MCEtfPages ==
    {[fields |-> TRUE, isin |-> "I1"], [fields |-> TRUE, isin |-> "I2"], [fields |-> FALSE, isin |-> "I1"]}

\* A deployment with both identities pinned and every socket; the others are
\* told by what differs.
Both ==
    [issuer |-> "team", audience |-> "aud", jwksOrigin |-> "team", accessDisabled |-> FALSE,
     email |-> "owner", commonName |-> "client",
     connector |-> [form |-> "unset", names |-> {}],
     stockBase |-> "base", stockHashes |-> "hash", etfBase |-> "base", etfHashes |-> "hash",
     refreshSocket |-> "r", controlSocket |-> "c", liveSocket |-> "l"]
NoAccess == [Both EXCEPT !.issuer = Unset, !.audience = Unset, !.jwksOrigin = Unset]
Widened == [form |-> "plus", names |-> {"market_search_asset", "market_get_asset_details"}]
Accepted ==
    {Both,
     [Both EXCEPT !.commonName = Blank, !.connector = Widened, !.stockBase = Blank, !.stockHashes = Unset],
     [NoAccess EXCEPT !.accessDisabled = TRUE, !.stockBase = Unset, !.stockHashes = Unset,
                      !.etfBase = Unset, !.etfHashes = Unset,
                      !.refreshSocket = Blank, !.liveSocket = Unset, !.controlSocket = Unset],
     [Both EXCEPT !.email = Unset, !.controlSocket = Unset],
     [Both EXCEPT !.connector.form = "all", !.etfBase = Unset, !.etfHashes = Blank],
     [Both EXCEPT !.commonName = Unset, !.connector = [form |-> "list", names |-> {"movements_get_latest"}]]}
Misconfigured ==
    {NoAccess, [Both EXCEPT !.jwksOrigin = "other"], [Both EXCEPT !.email = Blank, !.commonName = Unset],
     [Both EXCEPT !.email = Unset, !.connector = Widened], [Both EXCEPT !.stockHashes = "separators"],
     [Both EXCEPT !.connector = [form |-> "list", names |-> {"no_such_tool"}]],
     [Both EXCEPT !.liveSocket = Unset]}
MCStartsIn == [e \in Accepted \union Misconfigured |->
    IF e = Both THEN 2 ELSE IF e \in Accepted THEN 1 ELSE IF e = [Both EXCEPT !.jwksOrigin = "other"] THEN 3
    ELSE IF e.liveSocket = Unset THEN 1 ELSE 0]
MCEnvironments == Accepted \union Misconfigured
=============================================================================
