---------------------------- MODULE GatewayCalls ----------------------------
(***************************************************************************)
(* A tool call at the gateway: the Access token, the tools of the channel,  *)
(* the gateway's policy, the server behind the tool's socket with a policy  *)
(* of its own, the public pages that supplement the details of an asset,    *)
(* and the audit line of what the client is told.                           *)
(***************************************************************************)
EXTENDS ServerStart, Enrichment

CONSTANTS
    KeyIds,        \* the signing keys Cloudflare may publish
    FirstKeys,     \* those published when the gateway starts
    MaxRotations,  \* bound on the changes of the published keys
    Tokens,        \* the tokens callers present, NoToken among them
    CallTools,     \* the tool names called
    Asks,          \* the parameters of a call: [valid, external, expected]
    Assets,        \* the assets the details are about: [type, isin, symbol]
    StockPages, EtfPages

ASSUME CallsAssumption == FirstKeys \subseteq KeyIds

VARIABLES
    gateway,       \* the gateway: [accepted, config, policy]
    published,     \* the keys at the JWKS endpoint
    keys,          \* the verifier's keys
    fetched,       \* history: the keys published when they were last fetched
    rotations,
    call,          \* the call in hand
    audit,         \* the audit lines it has left
    acted          \* what was done for it beyond the gateway

keyVars == <<published, keys, fetched, rotations>>
callVars == <<call, audit, acted>>

NoToken == [kid |-> "none", good |-> FALSE, email |-> Unset, commonName |-> Unset]
NoReply == "none"
NoAsset == [type |-> "none", isin |-> Nothing, symbol |-> Nothing]
Idle == [stage |-> "idle"]

CallsInit ==
    /\ gateway \in [accepted : {GatewayAccepted(env)}, config : {GatewayConfig(env)}, policy : IF GatewayAccepted(env) THEN Policies ELSE {{}}]
    /\ published = FirstKeys
    /\ keys = published          \* the start is refused without keys
    /\ fetched = published
    /\ rotations = 0
    /\ call = Idle /\ audit = << >> /\ acted = {}

-----------------------------------------------------------------------------
(* Signing keys.                                                           *)

Rotate ==
    /\ rotations < MaxRotations
    /\ \E new \in SUBSET KeyIds \ {published} : published' = new
    /\ rotations' = rotations + 1
    /\ UNCHANGED <<keys, fetched>>

\* Variant with a bug, to test the properties: new keys are added to the old.
FetchKeysAdding ==
    /\ published # {}
    /\ keys' = keys \union published
    /\ fetched' = published
    /\ UNCHANGED <<published, rotations>>

\* The refresher swaps in the keys it fetched. A fetch that fails or brings no
\* key changes nothing.
FetchKeys ==
    /\ published # {}
    /\ keys' = published
    /\ fetched' = published
    /\ UNCHANGED <<published, rotations>>

-----------------------------------------------------------------------------
(* The answer and the audit line of a call.                                *)

Line(tool, code) == [tool |-> tool, code |-> code]
ExternalTool == "external_enrichment.market_get_asset_details"

\* Refused before any tool runs: no audit line.
Rejects(code) ==
    /\ call' = [call EXCEPT !.stage = "answered", !.answer = code]
    /\ UNCHANGED <<audit, acted>>

Answers(code) ==
    /\ call' = [call EXCEPT !.stage = "answered", !.answer = code]
    /\ audit' = Append(audit, Line(call.tool, code))

-----------------------------------------------------------------------------

\* Bound: calls and starts do not overlap, and the keys are settled once a
\* server has started. Crashes may come at any time.
CallArrives(tool, token, ask) ==
    /\ call.stage = "idle" /\ gateway.accepted /\ Quiet
    /\ call' = [stage |-> "arrived", tool |-> tool, token |-> token, ask |-> ask,
                channel |-> "connector", known |-> {}, server |-> 0, reply |-> NoReply,
                asset |-> NoAsset, warnings |-> {}, report |-> Failed, answer |-> "none"]
    /\ UNCHANGED <<audit, acted>>

MatchesPin(pin, claim) == Given(pin) /\ claim = pin

\* Variant with a bug, to test the properties: any key will do.
VerifiedByAnyKey(token, access) ==
    /\ token.good
    /\ MatchesPin(access.email, token.email) \/ MatchesPin(access.commonName, token.commonName)

Verified(token, access) ==
    /\ token.kid \in keys
    /\ token.good            \* signature, issuer, audience and expiry
    /\ MatchesPin(access.email, token.email) \/ MatchesPin(access.commonName, token.commonName)

Channel(token, access) ==
    IF ~access.on THEN "connector"
    ELSE IF MatchesPin(access.commonName, token.commonName) THEN "cli" ELSE "connector"

\* enforce_access and the tool list of the channel. The call keeps, as history, the
\* keys that were known to be published when it was let in.
Admit ==
    LET access == gateway.config.access
        channel == Channel(call.token, access)
        allow == IF channel = "cli" THEN Tool ELSE gateway.config.allow
    IN /\ call.stage = "arrived"
       /\ IF access.on /\ ~Verified(call.token, access) THEN Rejects("unauthorized")
          ELSE IF call.tool \notin allow THEN Rejects("tool not found")
          ELSE /\ call' = [call EXCEPT !.stage = "admitted", !.channel = channel, !.known = fetched]
               /\ UNCHANGED <<audit, acted>>

Allows(policy, tool) == RequiredCapability(tool) \in policy

\* What the gateway answers by itself, in the order it checks.
GateCode ==
    LET c == gateway.config
        denied == \/ ~Allows(gateway.policy, call.tool)
                  \/ call.ask.external /\ "market.read" \notin gateway.policy
    IN CASE denied -> "policy_denied"
         [] ~denied /\ ~call.ask.valid -> "invalid_request"
         [] ~denied /\ call.ask.valid /\ call.tool \in PublicTool /\ ~(c.stock \/ c.etf)
              -> "market_unconfigured"
         [] ~denied /\ call.ask.valid /\ call.tool \in RefreshTool /\ ~c.refresh
              -> "live_refresh_unconfigured"
         [] ~denied /\ call.ask.valid /\ call.tool \in MarketTool /\ ~c.control
              -> "market_control_unconfigured"
         [] OTHER -> "ok"

Gate ==
    /\ call.stage = "admitted"
    /\ IF GateCode # "ok" THEN Answers(GateCode) /\ UNCHANGED acted
       ELSE /\ call' = [call EXCEPT !.stage = IF call.tool \in PublicTool THEN "public" ELSE "connecting"]
            /\ UNCHANGED <<audit, acted>>

\* The public list, read by the gateway itself.
ReadPublicList ==
    /\ call.stage = "public"
    /\ \E code \in {"ok", "upstream"} : Answers(code)
    /\ acted' = acted \union {"public list"}

-----------------------------------------------------------------------------
(* The server behind a socket.                                             *)

Socket(tool) ==
    CASE tool \in CachedTool -> "query" [] tool \in MarketTool -> "control" [] tool \in RefreshTool -> "refresh"

Connect ==
    /\ call.stage = "connecting"
    /\ IF Listener(Socket(call.tool)) = {} THEN Answers("internal")
       ELSE /\ call' = [call EXCEPT !.stage = "serving", !.server = files[Socket(call.tool)]]
            /\ UNCHANGED audit
    /\ UNCHANGED acted

Replied(reply) == [call EXCEPT !.stage = "replied", !.reply = reply]

\* The server's own checks of what it was sent.
ServerAllows == call.ask.valid /\ Allows(server[call.server].policy, call.tool)

ServerRefuses ==
    /\ call.stage = "serving" /\ Alive(call.server)
    /\ ~ServerAllows
    /\ call' = Replied("invalid_request")
    /\ UNCHANGED <<audit, acted>>

\* The handler acts and replies: with the result, with a result of another
\* kind (a server of another version), or with a safe error. Only the details
\* tell of an asset.
ServerActs ==
    /\ call.stage = "serving" /\ Alive(call.server)
    /\ ServerAllows
    /\ acted' = acted \union {"served"}
    /\ \/ \E reply \in {"ok", "mismatched", "safe_error"} \ (IF call.tool \in RefreshTool THEN {"mismatched"} ELSE {}) :
            /\ call.tool # "market_get_asset_details" \/ reply # "ok"
            /\ call' = Replied(reply)
       \/ /\ call.tool = "market_get_asset_details"
          /\ \E asset \in Assets : call' = [Replied("ok") EXCEPT !.asset = asset]
    /\ UNCHANGED audit

\* A panic of a handler: the loops of the controller answer it, the loop of the
\* cached reads ends with its process.
HandlerPanics ==
    /\ call.stage = "serving" /\ Alive(call.server)
    /\ ServerAllows
    /\ acted' = acted \union {"served"}
    /\ IF Socket(call.tool) = "query"
         THEN Exits(call.server) /\ UNCHANGED call
         ELSE call' = Replied("internal") /\ UNCHANGED server
    /\ UNCHANGED audit

\* The reply does not come: the connection was cut or the wait is over. Work
\* the gateway no longer waits for is not followed here.
NoReplyComes ==
    /\ call.stage = "serving"
    /\ Answers("internal")
    /\ UNCHANGED acted

\* Variant with a bug, to test the properties: the audit line is written when
\* the reply comes, before its kind is looked at.
ReceiveAuditingReply ==
    LET protocol == IF call.tool \in MarketTool THEN "controller_protocol_error" ELSE "unexpected_response"
        told == IF call.reply = "mismatched" THEN protocol ELSE call.reply
    IN /\ call.stage = "replied"
       /\ IF call.reply = "ok" /\ call.tool = "market_get_asset_details"
            THEN /\ call' = [call EXCEPT !.stage = IF call.ask.external THEN "supplement" ELSE "sizing"]
                 /\ UNCHANGED audit
            ELSE /\ call' = [call EXCEPT !.stage = "answered", !.answer = told]
                 /\ audit' = Append(audit, Line(call.tool, IF call.reply = "mismatched" THEN "ok" ELSE told))
       /\ UNCHANGED acted

\* A result of the wrong kind is an error to the client as in the audit. One
\* of the details that is too large on receipt is among the errors replied.
Receive ==
    LET protocol == IF call.tool \in MarketTool THEN "controller_protocol_error" ELSE "unexpected_response"
    IN /\ call.stage = "replied"
       /\ CASE call.reply = "mismatched" -> Answers(protocol)
            [] call.reply \notin {"mismatched", "ok"} -> Answers(call.reply)
            [] call.reply = "ok" /\ call.tool = "market_get_asset_details" ->
                 /\ call' = [call EXCEPT !.stage = IF call.ask.external THEN "supplement" ELSE "sizing"]
                 /\ UNCHANGED audit
            [] OTHER -> Answers("ok")
       /\ UNCHANGED acted

-----------------------------------------------------------------------------
(* The supplement of the details.                                          *)

Supplemented(report, warnings) ==
    call' = [call EXCEPT !.stage = "sizing", !.report = report, !.warnings = warnings]

Warned(code) == Supplemented(Failed, {code}) /\ UNCHANGED <<audit, acted>>

\* A fetch leaves an audit line of its own; one that fails is a warning.
Fetched(report, warnings) ==
    /\ audit' = Append(audit, Line(ExternalTool, IF report.ok THEN "ok" ELSE "failed"))
    /\ IF report.ok THEN Supplemented(report, warnings)
                    ELSE Supplemented(Failed, {"external_enrichment_failed"})

SupplementStock ==
    /\ call.stage = "supplement" /\ call.asset.type = "stock"
    /\ IF ~gateway.config.stock THEN Warned("external_enrichment_unconfigured")
       ELSE /\ \/ Fetched(Failed, {})
               \/ \E page \in StockPages :
                    LET report == StockReport(page, call.ask.expected)
                    IN Fetched(report, IF report.ok THEN StockWarnings(call.asset, report) ELSE {})
            /\ acted' = acted \union {"external page"}

SupplementEtf ==
    /\ call.stage = "supplement" /\ call.asset.type = "etf"
    /\ CASE ~gateway.config.etf -> Warned("external_enrichment_unconfigured")
         [] gateway.config.etf /\ call.asset.isin = Nothing -> Warned("external_enrichment_missing_isin")
         [] OTHER ->
              /\ \/ Fetched(Failed, {})
                 \/ \E page \in EtfPages : Fetched(EtfReport(page, call.asset.isin, call.ask.expected), {})
              /\ acted' = IF EtfFetches(call.asset.isin, call.ask.expected)
                            THEN acted \union {"external page"} ELSE acted

SupplementOther ==
    /\ call.stage = "supplement" /\ call.asset.type \notin {"stock", "etf"}
    /\ Warned("external_enrichment_unsupported_asset_type")

\* The details with their supplement may be larger than a reply may be.
CheckSize ==
    /\ call.stage = "sizing"
    /\ \E code \in {"ok", "market_unexpected_response"} : Answers(code)
    /\ UNCHANGED acted

ClientDone ==
    /\ call.stage = "answered"
    /\ call' = Idle /\ audit' = << >> /\ acted' = {}

CallStep ==
    \/ Admit \/ Gate \/ ReadPublicList \/ Connect \/ ServerRefuses \/ ServerActs
    \/ NoReplyComes \/ Receive
    \/ SupplementStock \/ SupplementEtf \/ SupplementOther \/ CheckSize
    \/ ClientDone
=============================================================================
