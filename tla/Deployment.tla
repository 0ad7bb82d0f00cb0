----------------------------- MODULE Deployment -----------------------------
(***************************************************************************)
(* What the environment of the serving roles configures: who is let in at  *)
(* the gateway, which tools a connector sees, and which sockets a          *)
(* store-server binds. A role whose environment is refused does not start. *)
(***************************************************************************)
EXTENDS Sequences

Unset == "unset"
Blank == "blank"

\* The variables that are trimmed count as unset when they are blank.
Given(value) == value \notin {Unset, Blank}

-----------------------------------------------------------------------------
(* The tools of the gateway and the capability each of them needs.         *)

ShareableTool ==
    {"portfolio_get_freshness", "portfolio_get_latest_shareable_report",
     "portfolio_get_allocation_history"}
AbsoluteTool ==
    {"portfolio_get_latest_snapshot_summary", "portfolio_get_latest_full_snapshot",
     "portfolio_get_history", "portfolio_get_position_history"}
OrdersTool == {"orders_get_latest_monitor"}
TaxTool == {"tax_get_latest_carry_forward", "tax_get_latest_minus_by_year"}
MovementsTool == {"movements_get_latest", "movements_get_dividends"}
PublicTool == {"market_get_zero_commission_etfs"}
MarketTool == {"market_search_asset", "market_get_asset_details", "market_get_indices"}
RefreshTool ==
    {"private_portfolio_refresh_live_sensitive", "private_orders_refresh_live_sensitive",
     "private_tax_refresh_live_sensitive", "private_movements_refresh_live_sensitive"}

CachedTool == ShareableTool \union AbsoluteTool \union OrdersTool \union TaxTool \union MovementsTool
Tool == CachedTool \union PublicTool \union MarketTool \union RefreshTool

RequiredCapability(tool) ==
    CASE tool \in ShareableTool -> "portfolio.shareable.read"
      [] tool \in AbsoluteTool -> "portfolio.cached.full_read"
      [] tool \in OrdersTool -> "orders.cached.read"
      [] tool \in TaxTool -> "tax.cached.read"
      [] tool \in MovementsTool -> "movements.cached.read"
      [] tool \in PublicTool -> "market.read"
      [] tool \in MarketTool -> "market.authenticated.read"
      [] tool = "private_portfolio_refresh_live_sensitive" -> "portfolio.live.refresh"
      [] tool = "private_orders_refresh_live_sensitive" -> "orders.live.refresh"
      [] tool = "private_tax_refresh_live_sensitive" -> "tax.live.refresh"
      [] tool = "private_movements_refresh_live_sensitive" -> "movements.live.refresh"

DefaultConnectorTools ==
    ShareableTool \union OrdersTool \union TaxTool \union PublicTool
      \union (RefreshTool \ {"private_movements_refresh_live_sensitive"})

-----------------------------------------------------------------------------

\* Access needs the issuer, audience and key source together, the keys on the
\* issuer's own origin and at least one identity pinned. There is no Access at
\* all only when it is disabled explicitly.
AccessCore(env) == {env.issuer, env.audience, env.jwksOrigin}
AccessAccepted(env) ==
    \/ /\ Unset \notin AccessCore(env)
       /\ env.jwksOrigin = env.issuer
       /\ Given(env.email) \/ Given(env.commonName)
    \/ AccessCore(env) = {Unset} /\ env.accessDisabled

BuildAccess(env) ==
    LET on == Unset \notin AccessCore(env)
    IN [on |-> on, email |-> IF on THEN env.email ELSE Unset,
        commonName |-> IF on THEN env.commonName ELSE Unset]

\* The tools a connector may call: with an email pinned the default list, the
\* list with additions, a list of its own or every tool.
ConnectorAllowlist(env) ==
    LET form == env.connector.form
    IN IF ~Given(BuildAccess(env).email) \/ form = "all" THEN Tool
       ELSE (IF form = "list" THEN {} ELSE DefaultConnectorTools)
              \union (IF form = "unset" THEN {} ELSE env.connector.names)

ConnectorAccepted(env) ==
    IF Given(BuildAccess(env).email) THEN ConnectorAllowlist(env) \subseteq Tool
    ELSE env.connector.form = "unset"

\* An enrichment route: its base and its host hashes together.
Route(base, hashes) == Given(base) /\ Given(hashes)
RouteAccepted(base, hashes) == Given(base) = Given(hashes) /\ hashes # "separators"

GatewayAccepted(env) ==
    /\ AccessAccepted(env) /\ ConnectorAccepted(env)
    /\ RouteAccepted(env.stockBase, env.stockHashes)
    /\ RouteAccepted(env.etfBase, env.etfHashes)

GatewayConfig(env) ==
    [access |-> BuildAccess(env), allow |-> ConnectorAllowlist(env),
     stock |-> Route(env.stockBase, env.stockHashes), etf |-> Route(env.etfBase, env.etfHashes),
     refresh |-> Given(env.refreshSocket), control |-> Given(env.controlSocket)]

\* The controller's sockets need each other and the worker's.
StoreServerAccepted(env) ==
    /\ Given(env.refreshSocket) = Given(env.liveSocket)
    /\ Given(env.controlSocket) => Given(env.refreshSocket)
=============================================================================
