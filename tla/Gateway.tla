------------------------------- MODULE Gateway -------------------------------
(***************************************************************************)
(* The gateway, its signing keys, and the servers that start and die behind *)
(* their sockets (ServerStart), under the tool calls of the owner           *)
(* (GatewayCalls).                                                          *)
(***************************************************************************)
EXTENDS GatewayCalls

CONSTANTS
    Environments,   \* the environments of the deployments looked at
    StartsIn        \* bound on the starts under each of them

vars == <<startVars, gateway, keyVars, callVars>>

Init ==
    /\ env \in Environments
    /\ StartsInit
    /\ CallsInit

\* Bounds: the keys rotate before the first start, and nothing starts after they
\* did or while a call is in hand; at most two starts overlap.
KeysMove ==
    /\ \/ call.stage = "idle" /\ server[1].pc = "unborn" /\ Rotate
       \/ keys # published /\ FetchKeys
    /\ UNCHANGED <<startVars, gateway, callVars>>

StartsMove ==
    /\ \/ /\ call.stage = "idle" /\ rotations = 0
          /\ Cardinality({n \in Process : MidStart(n)}) < 2
          /\ \E n \in Process, v \in Versions :
               /\ n <= StartsIn[env]
               /\ \/ \E p \in Policies : Start(n, "server", v, p)
                  \/ Start(n, "backup", v, {})
       \/ \E n \in Process : StartStep(n)
       \/ \E n \in Process : Crash(n)
    /\ UNCHANGED <<gateway, keyVars, callVars>>

CallsMove ==
    /\ \/ \E tool \in CallTools, token \in Tokens, ask \in Asks :
            /\ ask.external \/ ask.expected # Nothing => tool = "market_get_asset_details"
            /\ CallArrives(tool, token, ask)
            /\ UNCHANGED server
       \/ CallStep /\ UNCHANGED server
       \/ HandlerPanics
    /\ UNCHANGED <<env, schema, userVersion, files, severed, gateway, keyVars>>

Next == KeysMove \/ StartsMove \/ CallsMove

\* The refresher fetches the keys every ten minutes for as long as the gateway
\* runs, and the endpoint does not fail for ever.
Spec == Init /\ [][Next]_vars /\ WF_vars(FetchKeys /\ UNCHANGED <<startVars, gateway, callVars>>)

-----------------------------------------------------------------------------

\* Nothing is done for a call without leave: under Access the token is a good one, of
\* a pinned identity and signed with a key that was published when the keys were last
\* fetched before the call was let in, and there is no Access only where the
\* deployment gives none of it and says so; under a pinned email a connector reaches
\* the tools its list names, the default ones when it names none; the gateway's policy
\* and the policy of the server that acts both grant what the tool discloses; a public
\* page is fetched only for details that asked for it, under market.read, and only
\* where the route for the asset's kind is configured, the public list only where one
\* of the routes is.
ServedWithLeave ==
    call.stage # "idle" /\ acted # {} =>
      /\ \/ AccessCore(env) = {Unset} /\ env.accessDisabled
         \/ /\ call.token.good /\ call.token.kid \in call.known
            /\ \/ Given(env.email) /\ call.token.email = env.email
               \/ Given(env.commonName) /\ call.token.commonName = env.commonName
      /\ \/ env.connector.form = "all" \/ ~Given(BuildAccess(env).email)
         \/ Given(env.commonName) /\ call.token.commonName = env.commonName
         \/ call.tool \in DefaultConnectorTools /\ env.connector.form # "list"
         \/ call.tool \in env.connector.names
      /\ call.ask.valid
      /\ Allows(gateway.policy, call.tool)
      /\ "served" \in acted /\ Alive(call.server) => Allows(server[call.server].policy, call.tool)
      /\ "external page" \in acted =>
           /\ call.ask.external /\ "market.read" \in gateway.policy /\ call.reply = "ok"
           /\ \/ call.asset.type = "stock" /\ Given(env.stockBase) /\ Given(env.stockHashes)
              \/ call.asset.type = "etf" /\ Given(env.etfBase) /\ Given(env.etfHashes)
      /\ "public list" \in acted =>
           \/ Given(env.stockBase) /\ Given(env.stockHashes)
           \/ Given(env.etfBase) /\ Given(env.etfHashes)

\* The audit tells what happened to the client: a call that is answered by the
\* gateway or beyond it leaves one line, with the code the client gets, one that
\* is turned away at the door leaves none, and a fetch of a public page leaves
\* one more, before it. A supplement that was asked for is there or its absence
\* is warned about; one that is there shows the expected ISIN, for an ETF the
\* ISIN of Fineco, and a disagreement with Fineco's ISIN is warned about.
AuditTellsAnswer ==
    call.stage = "answered" =>
      /\ call.answer \in {"unauthorized", "tool not found"} <=> audit = << >>
      /\ audit # << >> =>
           /\ Last(audit) = Line(call.tool, call.answer)
           /\ Len(audit) = 1 \/ (Len(audit) = 2 /\ audit[1].tool = ExternalTool)
      /\ "external page" \in acted => Len(audit) = 2
      /\ call.report.ok => Len(audit) = 2 /\ audit[1] = Line(ExternalTool, "ok")
      /\ call.tool = "market_get_asset_details" /\ call.answer = "ok" =>
           /\ call.ask.external <=> call.report.ok \/ call.warnings # {}
           /\ call.report.ok =>
                /\ call.ask.expected \in {Nothing, call.report.isin}
                /\ call.asset.type = "etf" => call.report.isin = call.asset.isin
                /\ \/ Nothing \in {call.asset.isin, call.report.isin}
                   \/ call.asset.isin = call.report.isin
                   \/ "external_enrichment_isin_disagreement" \in call.warnings

\* A key that stays published is trusted from some time on, and one that stays
\* withdrawn, while another is published, is not.
KeysCatchUp ==
    \A k \in KeyIds :
      /\ <>[](k \in published) => <>[](k \in keys)
      /\ <>[](k \notin published /\ published # {}) => <>[](k \notin keys)
=============================================================================
