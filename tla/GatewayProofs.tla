--------------------------- MODULE GatewayProofs ---------------------------
(***************************************************************************)
(* Proofs about the calls of Gateway, for any deployment, policies, tokens *)
(* and keys: nothing is done for a call without leave (ServedWithLeave),   *)
(* and its audit tells what was done and answered (AuditTellsAnswer).      *)
(***************************************************************************)
EXTENDS ServerStartProofs

-----------------------------------------------------------------------------
(* The invariant.                                                          *)

\* The gateway is what the environment made of it.
Configured ==
    /\ gateway.accepted = GatewayAccepted(env) /\ gateway.config = GatewayConfig(env)
    /\ keys = fetched

CallFields ==
    {"stage", "tool", "token", "ask", "channel", "known", "server", "reply", "asset",
     "warnings", "report", "answer"}

\* Where a call may be once it was let in, and once the gateway has passed it on.
Inside == {"admitted", "public", "connecting", "serving", "replied", "supplement", "sizing"}
Passed == Inside \ {"admitted"}
Done(stages) == call.stage \in stages \/ (call.stage = "answered" /\ acted # {})

\* The token and the channel are good for the tool.
LetIn ==
    /\ \/ AccessCore(env) = {Unset} /\ env.accessDisabled
       \/ /\ call.token.good /\ call.token.kid \in call.known
          /\ \/ Given(env.email) /\ call.token.email = env.email
             \/ Given(env.commonName) /\ call.token.commonName = env.commonName
    /\ \/ env.connector.form = "all" \/ ~Given(BuildAccess(env).email)
       \/ Given(env.commonName) /\ call.token.commonName = env.commonName
       \/ call.tool \in DefaultConnectorTools /\ env.connector.form # "list"
       \/ call.tool \in env.connector.names

\* The gateway's own policy grants what is asked for.
Granted ==
    /\ call.ask.valid /\ Allows(gateway.policy, call.tool)
    /\ call.ask.external => "market.read" \in gateway.policy

\* The page of an asset of this type has a route, and the public list has one.
PageRouted(type) ==
    \/ type = "stock" /\ Given(env.stockBase) /\ Given(env.stockHashes)
    \/ type = "etf" /\ Given(env.etfBase) /\ Given(env.etfHashes)
ListRouted ==
    \/ Given(env.stockBase) /\ Given(env.stockHashes)
    \/ Given(env.etfBase) /\ Given(env.etfHashes)

\* What the call has come to, and what it has come by.
CallFits ==
    /\ call.stage \in {"idle", "arrived", "answered"} \union Inside
    /\ call.stage # "idle" => DOMAIN call = CallFields
    /\ call.stage \in {"idle", "arrived", "admitted", "public", "connecting"} => acted = {}
    /\ call.stage \in {"serving", "replied", "supplement"} => "external page" \notin acted
    /\ call.stage = "arrived" => gateway.accepted
    /\ Done(Inside) => LetIn
    /\ Done(Passed) => Granted
    /\ call.stage = "serving" => call.server \in Process /\ server[call.server].pc # "unborn"
    /\ call.stage # "idle" /\ "served" \in acted =>
         /\ call.server \in Process /\ server[call.server].pc # "unborn"
         /\ Alive(call.server) => Allows(server[call.server].policy, call.tool)
    /\ call.stage = "supplement" => call.ask.external /\ call.reply = "ok"
    /\ call.stage # "idle" /\ "external page" \in acted =>
         call.ask.external /\ PageRouted(call.asset.type) /\ call.reply = "ok"
    /\ call.stage = "public" => ListRouted
    /\ call.stage # "idle" /\ "public list" \in acted => ListRouted

LeaveInv == Configured /\ CallFits
-----------------------------------------------------------------------------
(* The deployment and the servers.                                         *)

\* Neither the environment nor the gateway changes, and the keys come from the
\* endpoint.
LEMMA ConfiguredKept ==
    ASSUME Configured, [Next]_vars
    PROVE  Configured' /\ UNCHANGED <<env, gateway>>
<1>1. UNCHANGED <<env, gateway>>
    BY DEF Next, vars, startVars, KeysMove, StartsMove, CallsMove, Start, StartStep, ReadVersion,
           Migrate, Probe, Unlink, Bind, Crash
<1>2. keys' = fetched'
    BY DEF Configured, Next, vars, keyVars, KeysMove, Rotate, FetchKeys, StartsMove, CallsMove
<1> QED
    BY <1>1, <1>2 DEF Configured

\* A process that goes on keeps its policy.
LEMMA AdvancedPolicy ==
    ASSUME NEW p \in ProcessRecord
    PROVE  Advanced(p).pc \notin {"unborn", "dead"} => Advanced(p).policy = p.policy
<1>1. CASE Advanced(p) = Gone("dead")
    BY <1>1 DEF Gone
<1>2. CASE Advanced(p) = [p EXCEPT !.stages = Tail(p.stages), !.pc = FirstStep(Tail(p.stages), p.role)]
    BY <1>2 DEF ProcessRecord
<1> QED
    BY <1>1, <1>2 DEF Advanced

\* Whoever was started is never started again, and keeps its policy while it lives.
Stays(m) ==
    server[m].pc # "unborn" =>
      /\ server'[m].pc # "unborn"
      /\ server'[m].pc # "dead" => Alive(m) /\ server'[m].policy = server[m].policy

\* A process moves on with the policy it has, or dies.
LEMMA MoveStays ==
    ASSUME StartsInv, NEW n \in Process, NEW p \in ProcessRecord, Moves(n, p), p.pc # "unborn",
           \/ p.pc = "dead" \/ server[n].pc = "unborn"
           \/ Alive(n) /\ p.policy = server[n].policy
    PROVE  \A m \in Process : Stays(m)
<1>1. /\ server \in [Process -> ProcessRecord]
      /\ server'[n] = p /\ \A m \in Process \ {n} : server'[m] = server[m]
    BY Typed DEF Moves
<1> QED
    BY <1>1 DEF Stays, Alive

\* Dying is such a move.
LEMMA ExitStays ==
    ASSUME StartsInv, NEW n \in Process, Exits(n)
    PROVE  \A m \in Process : Stays(m)
<1>1. Gone("dead") \in ProcessRecord /\ Gone("dead").pc = "dead"
    BY GoneFits
<1> QED
    BY <1>1, MoveStays DEF Exits

\* Every step of a start or a crash is such a move.
LEMMA StartsStay ==
    ASSUME StartsInv, StartsMove
    PROVE  \A m \in Process : Stays(m)
<1>1. ASSUME NEW n \in Process, NEW role \in {"server", "backup"}, NEW v \in Versions,
             NEW policy \in Policies \union {{}}, Start(n, role, v, policy)
      PROVE  \A m \in Process : Stays(m)
  <2>1. server[n].pc = "unborn" /\ server \in [Process -> ProcessRecord]
      BY <1>1, Typed DEF Start
  <2>2. PICK p : Moves(n, p) /\ p.pc = "open"
      BY <1>1 DEF Start
  <2>3. server'[n] = p /\ \A m \in Process \ {n} : server'[m] = server[m]
      BY <2>1, <2>2 DEF Moves
  <2> QED
      BY <2>1, <2>3 DEF Stays, Alive
<1>2. ASSUME NEW n \in Process, StartStep(n)
      PROVE  \A m \in Process : Stays(m)
  <2>1. server[n] \in ProcessRecord /\ StagesFit(server[n])
      BY ProcessFits
  <2>2. Alive(n)
      BY <1>2 DEF StartStep, ReadVersion, Migrate, Probe, Unlink, Bind, Alive
  <2>3. ASSUME NEW p \in ProcessRecord, StagesFit(p), p.stages # << >>, p.policy = server[n].policy,
               Moves(n, Advanced(p))
        PROVE  \A m \in Process : Stays(m)
    <3>1. Advanced(p) \in ProcessRecord /\ Advanced(p).pc # "unborn"
        BY <2>3, AdvancedFits
    <3>2. Advanced(p).pc = "dead" \/ Advanced(p).policy = server[n].policy
        BY <2>3, <3>1, AdvancedPolicy
    <3> QED
        BY <2>2, <2>3, <3>1, <3>2, MoveStays
  <2>4. ASSUME NEW pc \in {"migrate", "unlink", "bind"}, NEW found \in 0..LatestVersion,
               NEW p, p = [server[n] EXCEPT !.pc = pc, !.found = found], Moves(n, p)
        PROVE  \A m \in Process : Stays(m)
    <3>1. p \in ProcessRecord /\ p.pc = pc /\ p.policy = server[n].policy
        BY <2>1, <2>4 DEF ProcessRecord
    <3> QED
        BY <2>2, <2>4, <3>1, MoveStays
  <2>5. server[n].found \in 0..LatestVersion /\ userVersion \in 0..LatestVersion /\ 0 \in 0..LatestVersion
      BY <2>1, Typed, LatestIsLatest DEF ProcessRecord
  <2>6. ASSUME NEW pc \in {"unlink", "bind"}, Moves(n, [server[n] EXCEPT !.pc = pc])
        PROVE  \A m \in Process : Stays(m)
    <3>1. [server[n] EXCEPT !.pc = pc] = [server[n] EXCEPT !.pc = pc, !.found = server[n].found]
        BY <2>1 DEF ProcessRecord
    <3> QED
        BY <2>4, <2>5, <2>6, <3>1
  <2>7. CASE ReadVersion(n)
    <3>1. server[n].stages # << >>
        BY <2>1, <2>7 DEF ReadVersion, StagesFit
    <3>2. \/ Moves(n, Advanced(server[n])) \/ Exits(n)
          \/ Moves(n, [server[n] EXCEPT !.pc = "migrate", !.found = userVersion])
        BY <2>7 DEF ReadVersion
    <3> QED
        BY <2>1, <2>3, <2>4, <2>5, <3>1, <3>2, ExitStays
  <2>8. CASE Migrate(n)
    <3> PICK p : p = [server[n] EXCEPT !.found = 0]
        OBVIOUS
    <3>1. /\ p \in ProcessRecord /\ p.policy = server[n].policy /\ p.stages = server[n].stages
          /\ p.pc = server[n].pc
        BY <2>1, <2>5 DEF ProcessRecord
    <3>2. StagesFit(p) /\ p.stages # << >>
        BY <2>1, <2>8, <3>1 DEF Migrate, StagesFit
    <3>3. Exits(n) \/ Moves(n, Advanced(p))
        BY <2>8 DEF Migrate
    <3> QED
        BY <2>3, <3>1, <3>2, <3>3, ExitStays
  <2>9. CASE Probe(n)
    <3>1. \/ Moves(n, [server[n] EXCEPT !.pc = "bind"]) \/ Exits(n)
          \/ Moves(n, [server[n] EXCEPT !.pc = "unlink"])
        BY <2>9 DEF Probe
    <3> QED
        BY <2>6, <3>1, ExitStays
  <2>10. CASE Unlink(n)
    <3>1. Exits(n) \/ Moves(n, [server[n] EXCEPT !.pc = "bind"])
        BY <2>10 DEF Unlink
    <3> QED
        BY <2>6, <3>1, ExitStays
  <2>11. CASE Bind(n)
    <3>1. server[n].stages # << >>
        BY <2>1, <2>11 DEF Bind, StagesFit
    <3>2. Exits(n) \/ Moves(n, Advanced(server[n]))
        BY <2>11 DEF Bind
    <3> QED
        BY <2>1, <2>3, <3>1, <3>2, ExitStays
  <2> QED
      BY <1>2, <2>7, <2>8, <2>9, <2>10, <2>11 DEF StartStep
<1>3. ASSUME NEW n \in Process, Crash(n) PROVE \A m \in Process : Stays(m)
    BY <1>3, ExitStays DEF Crash
<1> QED
    BY <1>1, <1>2, <1>3 DEF StartsMove
-----------------------------------------------------------------------------
(* The call.                                                               *)

\* Leave is about the deployment, the token, the tool and what is asked for.
LEMMA SameLeave ==
    ASSUME UNCHANGED <<env, gateway>>,
           call'.token = call.token, call'.known = call.known, call'.tool = call.tool,
           call'.ask = call.ask
    PROVE  (LetIn' <=> LetIn) /\ (Granted' <=> Granted)
    BY DEF LetIn, Granted

\* The routes are about the deployment alone.
LEMMA SameRoutes ==
    ASSUME UNCHANGED env
    PROVE  (ListRouted' <=> ListRouted) /\ \A type : PageRouted(type)' <=> PageRouted(type)
    BY DEF ListRouted, PageRouted

\* The gateway has a route exactly when its environment gives both halves of it.
LEMMA RoutesConfigured ==
    ASSUME Configured
    PROVE  /\ gateway.config.stock => PageRouted("stock")
           /\ gateway.config.etf => PageRouted("etf")
<1>1. /\ gateway.config.stock = Route(env.stockBase, env.stockHashes)
      /\ gateway.config.etf = Route(env.etfBase, env.etfHashes)
    BY DEF Configured, GatewayConfig
<1> QED
    BY <1>1 DEF Route, PageRouted

\* What a call has come to stays as it is when servers start and die.
LEMMA ServersMove ==
    ASSUME CallFits, UNCHANGED <<env, gateway, callVars>>, \A m \in Process : Stays(m)
    PROVE  CallFits'
<1>1. UNCHANGED <<call, acted>>
    BY DEF callVars
<1>2. (LetIn' <=> LetIn) /\ (Granted' <=> Granted)
    BY <1>1, SameLeave
<1>3. (Done(Inside)' <=> Done(Inside)) /\ (Done(Passed)' <=> Done(Passed))
    BY <1>1 DEF Done
<1>4. ASSUME call.server \in Process, server[call.server].pc # "unborn"
      PROVE  /\ server'[call.server].pc # "unborn"
             /\ Alive(call.server)' => Alive(call.server) /\ server'[call.server].policy = server[call.server].policy
  <2>1. Stays(call.server)
      BY <1>4
  <2> QED
      BY <1>1, <1>4, <2>1 DEF Stays, Alive
<1>5. call'.stage = "serving" => call'.server \in Process /\ server'[call'.server].pc # "unborn"
    BY <1>1, <1>4 DEF CallFits
<1>6. call'.stage # "idle" /\ "served" \in acted' =>
         /\ call'.server \in Process /\ server'[call'.server].pc # "unborn"
         /\ Alive(call.server)' => Allows(server'[call'.server].policy, call'.tool)
    BY <1>1, <1>4 DEF CallFits
<1> QED
    BY <1>1, <1>2, <1>3, <1>5, <1>6, SameRoutes DEF CallFits

\* The gateway answers, or passes the call on: nothing more is done for it.
LEMMA CallGoesOn ==
    ASSUME CallFits, UNCHANGED <<env, gateway, server, acted>>, call.stage # "idle",
           NEW stage \in (Inside \ {"serving"}) \union {"answered"}, NEW answer, NEW channel,
           call' = [call EXCEPT !.stage = stage, !.answer = answer, !.channel = channel],
           stage \in Inside => LetIn, stage \in Passed => Granted,
           Done(Inside) \/ call.stage = "arrived", Done(Passed) \/ acted = {},
           stage \in {"admitted", "public", "connecting"} => acted = {},
           stage \in {"replied", "supplement"} => "external page" \notin acted,
           stage = "supplement" => call.ask.external /\ call.reply = "ok",
           stage = "public" => ListRouted
    PROVE  CallFits'
<1>1. /\ DOMAIN call' = CallFields /\ call'.stage = stage /\ call'.known = call.known
      /\ call'.token = call.token /\ call'.tool = call.tool /\ call'.ask = call.ask
      /\ call'.server = call.server /\ call'.reply = call.reply /\ call'.asset = call.asset
    BY DEF CallFits, CallFields
<1>2. (LetIn' <=> LetIn) /\ (Granted' <=> Granted)
    BY <1>1, SameLeave
<1>3. acted # {} => LetIn /\ Granted
    BY DEF CallFits, Done
<1>4. (Done(Inside)' => LetIn') /\ (Done(Passed)' => Granted')
    BY <1>1, <1>2, <1>3 DEF Done
<1>5. Alive(call.server)' <=> Alive(call.server)
    BY <1>1 DEF Alive
<1>6. call'.stage \notin {"idle", "arrived", "serving"}
    BY <1>1 DEF Inside
<1> QED
    BY <1>1, <1>4, <1>5, <1>6, SameRoutes DEF CallFits

\* The gateway may answer a call at any time without doing anything for it.
LEMMA AnsweringKeeps ==
    ASSUME CallFits, UNCHANGED <<env, gateway, server, acted>>, call.stage # "idle",
           Done(Inside) \/ call.stage = "arrived", Done(Passed) \/ acted = {},
           NEW code, Answers(code)
    PROVE  CallFits'
<1>1. call' = [call EXCEPT !.stage = "answered", !.answer = code, !.channel = call.channel]
    BY DEF Answers, CallFits, CallFields
<1>2. "answered" \notin Inside /\ "answered" \notin Passed
    BY DEF Inside, Passed
<1>3. PICK stage \in (Inside \ {"serving"}) \union {"answered"} : stage = "answered"
    OBVIOUS
<1>4. call' = [call EXCEPT !.stage = stage, !.answer = code, !.channel = call.channel]
    BY <1>1, <1>3
<1>5. /\ stage \notin Inside /\ stage \notin Passed
      /\ stage \notin {"admitted", "public", "connecting", "replied", "supplement"}
    BY <1>2, <1>3
<1> QED
    BY <1>4, <1>5, CallGoesOn

\* A call arrives at a gateway that runs.
LEMMA ArrivalFits ==
    ASSUME CallFits, NEW tool, NEW token, NEW ask, CallArrives(tool, token, ask),
           UNCHANGED <<env, gateway, server>>
    PROVE  CallFits'
<1>1. acted' = {} /\ call'.stage = "arrived" /\ gateway'.accepted /\ DOMAIN call' = CallFields
    BY DEF CallArrives, CallFits, CallFields
<1> QED
    BY <1>1 DEF CallFits, Done, Inside, Passed

\* Only a token with a pinned identity, under a published key, gets a tool of its
\* channel, unless the deployment has no Access.
LEMMA AdmitFits ==
    ASSUME Configured, CallFits, Admit, UNCHANGED <<env, gateway, server>>
    PROVE  CallFits'
<1> DEFINE access == gateway.config.access
           channel == Channel(call.token, access)
           allow == IF channel = "cli" THEN Tool ELSE gateway.config.allow
<1>1. call.stage = "arrived" /\ acted = {} /\ GatewayAccepted(env) /\ DOMAIN call = CallFields
    BY DEF Admit, CallFits, Configured
<1>2. CASE Rejects("unauthorized") \/ Rejects("tool not found")
  <2>1. call'.stage = "answered" /\ acted' = {} /\ DOMAIN call' = CallFields
      BY <1>1, <1>2 DEF Rejects, CallFields
  <2> QED
      BY <2>1 DEF CallFits, Done, Inside, Passed
<1>3. CASE /\ ~(access.on /\ ~Verified(call.token, access)) /\ call.tool \in allow
           /\ call' = [call EXCEPT !.stage = "admitted", !.channel = channel, !.known = fetched]
           /\ UNCHANGED acted
  <2>1. /\ access.on <=> Unset \notin AccessCore(env)
        /\ access.email = IF access.on THEN env.email ELSE Unset
        /\ access.commonName = IF access.on THEN env.commonName ELSE Unset
        /\ access.email = BuildAccess(env).email
        /\ gateway.config.allow = ConnectorAllowlist(env)
    <3>1. gateway.config.access = BuildAccess(env) /\ gateway.config.allow = ConnectorAllowlist(env)
        BY DEF Configured, GatewayConfig
    <3>2. /\ BuildAccess(env).on <=> Unset \notin AccessCore(env)
          /\ BuildAccess(env).email = IF Unset \notin AccessCore(env) THEN env.email ELSE Unset
          /\ BuildAccess(env).commonName = IF Unset \notin AccessCore(env) THEN env.commonName ELSE Unset
        BY DEF BuildAccess
    <3> QED
        BY <3>1, <3>2
  <2>2. ~Given(Unset)
      BY DEF Given
  <2>3. access.on \/ (AccessCore(env) = {Unset} /\ env.accessDisabled)
      BY <1>1, <2>1 DEF GatewayAccepted, AccessAccepted
  <2>4. access.on => call.token.good /\ call.token.kid \in fetched
      BY <1>3 DEF Verified, Configured
  <2>5. access.on => \/ Given(env.email) /\ call.token.email = env.email
                     \/ Given(env.commonName) /\ call.token.commonName = env.commonName
      BY <1>3, <2>1 DEF Verified, MatchesPin
  <2>6. channel = "cli" => Given(env.commonName) /\ call.token.commonName = env.commonName
      BY <2>1, <2>2 DEF Channel, MatchesPin
  <2>7. channel # "cli" =>
          \/ env.connector.form = "all" \/ ~Given(BuildAccess(env).email)
          \/ call.tool \in DefaultConnectorTools /\ env.connector.form # "list"
          \/ call.tool \in env.connector.names
      BY <1>3, <2>1 DEF ConnectorAllowlist
  <2>8. /\ DOMAIN call' = CallFields /\ call'.stage = "admitted" /\ call'.known = fetched
        /\ call'.token = call.token /\ call'.tool = call.tool /\ acted' = {}
      BY <1>1, <1>3 DEF CallFields
  <2>9. LetIn'
      BY <2>3, <2>4, <2>5, <2>6, <2>7, <2>8 DEF LetIn
  <2> QED
      BY <2>8, <2>9 DEF CallFits, Done, Inside, Passed
<1> QED
    BY <1>2, <1>3 DEF Admit

\* The gateway's policy is asked before anything is passed on.
LEMMA GateFits ==
    ASSUME Configured, CallFits, Gate, UNCHANGED <<env, gateway, server>>
    PROVE  CallFits'
<1>1. call.stage = "admitted" /\ acted = {} /\ DOMAIN call = CallFields /\ Done(Inside) /\ LetIn
    BY DEF Gate, CallFits, Done, Inside
<1>2. UNCHANGED acted
    BY DEF Gate
<1>3. CASE Answers(GateCode)
    BY <1>1, <1>2, <1>3, AnsweringKeeps
<1>4. CASE /\ GateCode = "ok"
           /\ call' = [call EXCEPT !.stage = IF call.tool \in PublicTool THEN "public" ELSE "connecting"]
  <2>1. Granted
      BY <1>4 DEF GateCode, Granted
  <2>2. PICK stage \in {"public", "connecting"} :
          /\ call' = [call EXCEPT !.stage = stage]
          /\ stage = "public" => call.tool \in PublicTool
      BY <1>4
  <2>3. call' = [call EXCEPT !.stage = stage, !.answer = call.answer, !.channel = call.channel]
      BY <1>1, <2>2 DEF CallFields
  <2>4. stage = "public" => ListRouted
    <3>1. call.tool \in PublicTool => gateway.config.stock \/ gateway.config.etf
        BY <1>4 DEF GateCode
    <3>2. /\ gateway.config.stock = Route(env.stockBase, env.stockHashes)
          /\ gateway.config.etf = Route(env.etfBase, env.etfHashes)
        BY DEF Configured, GatewayConfig
    <3> QED
        BY <2>2, <3>1, <3>2 DEF Route, ListRouted
  <2> QED
      BY <1>1, <1>2, <2>1, <2>3, <2>4, CallGoesOn DEF Inside, Passed
<1> QED
    BY <1>3, <1>4 DEF Gate
\* The server a call reaches is one that listens.
LEMMA ConnectFits ==
    ASSUME StartsInv, CallFits, Connect, UNCHANGED <<env, gateway, server>>
    PROVE  CallFits'
<1> DEFINE s == Socket(call.tool)
<1>1. /\ call.stage = "connecting" /\ acted = {} /\ DOMAIN call = CallFields /\ LetIn /\ Granted
      /\ Done(Inside)
    BY DEF Connect, CallFits, Done, Inside, Passed
<1>2. UNCHANGED acted
    BY DEF Connect
<1>3. CASE Answers("internal")
    BY <1>1, <1>2, <1>3, AnsweringKeeps
<1>4. CASE Listener(s) # {} /\ call' = [call EXCEPT !.stage = "serving", !.server = files[s]]
  <2>1. files[s] \in Process /\ server[files[s]].pc # "unborn"
      BY <1>4 DEF Listener, Alive
  <2>2. /\ call'.stage = "serving" /\ call'.server = files[s] /\ DOMAIN call' = CallFields
        /\ call'.token = call.token /\ call'.known = call.known /\ call'.tool = call.tool
        /\ call'.ask = call.ask /\ call'.reply = call.reply /\ call'.asset = call.asset
      BY <1>1, <1>4 DEF CallFields
  <2>3. LetIn' /\ Granted'
      BY <1>1, <2>2, SameLeave
  <2> QED
      BY <1>1, <1>2, <2>1, <2>2, <2>3 DEF CallFits, Inside
<1> QED
    BY <1>3, <1>4 DEF Connect
\* Something is done for a call that was passed on, or it is answered.
LEMMA CallActs ==
    ASSUME CallFits, UNCHANGED <<env, gateway>>, call.stage \in Passed,
           DOMAIN call' = CallFields, call'.stage \in {"replied", "sizing", "answered"},
           call'.token = call.token, call'.tool = call.tool, call'.ask = call.ask,
           call'.known = call.known, call'.server = call.server,
           call'.stage = "replied" => "external page" \notin acted',
           "served" \in acted' =>
             /\ call.server \in Process /\ server'[call.server].pc # "unborn"
             /\ server'[call.server].pc # "dead" => Allows(server'[call.server].policy, call.tool),
           "external page" \in acted' =>
             call.ask.external /\ PageRouted(call'.asset.type) /\ call'.reply = "ok",
           "public list" \in acted' => ListRouted
    PROVE  CallFits'
<1>1. LetIn /\ Granted
    BY DEF CallFits, Done, Inside, Passed
<1>2. LetIn' /\ Granted'
    BY <1>1, SameLeave
<1>3. Alive(call.server)' => server'[call'.server].pc # "dead"
    BY DEF Alive
<1> QED
    BY <1>2, <1>3, SameRoutes DEF CallFits, Inside

\* What was served before is served still when no server moves.
LEMMA StillServed ==
    ASSUME CallFits, call.stage # "idle", UNCHANGED server, "served" \in acted
    PROVE  /\ call.server \in Process /\ server'[call.server].pc # "unborn"
           /\ server'[call.server].pc # "dead" => Allows(server'[call.server].policy, call.tool)
    BY DEF CallFits, Alive

\* Every other step of a call: the server refuses, acts, panics or is silent, its
\* answer is received and supplemented, and the client has it.
LEMMA StepFits ==
    ASSUME StartsInv, Configured, CallFits, UNCHANGED <<env, gateway>>,
           \/ UNCHANGED server /\ (\/ ReadPublicList \/ ServerRefuses \/ ServerActs \/ NoReplyComes
                                  \/ Receive \/ SupplementStock \/ SupplementEtf
                                  \/ SupplementOther \/ CheckSize \/ ClientDone)
           \/ HandlerPanics
    PROVE  CallFits'
<1>1. ASSUME call.stage # "idle" PROVE DOMAIN call = CallFields
    BY <1>1 DEF CallFits
<1>2. ASSUME call.stage \in Passed PROVE call.stage # "idle" /\ Done(Inside) /\ Done(Passed)
    BY <1>2 DEF Inside, Passed, Done
<1>3. \A stage \in {"public", "serving", "replied", "supplement", "sizing"} : stage \in Passed
    BY DEF Inside, Passed
<1>4. ASSUME call.stage \in Passed, NEW code, Answers(code), UNCHANGED <<server, acted>>
      PROVE  CallFits'
    BY <1>2, <1>4, AnsweringKeeps
<1>5. CASE UNCHANGED server /\ ReadPublicList
  <2>1. PICK code : Answers(code) /\ acted' = {"public list"} /\ call.stage = "public"
      BY <1>5 DEF ReadPublicList, CallFits
  <2>2. /\ DOMAIN call' = CallFields /\ call'.stage = "answered" /\ call'.token = call.token
        /\ call'.tool = call.tool /\ call'.ask = call.ask /\ call'.server = call.server
        /\ call'.known = call.known
      BY <1>1, <2>1 DEF Answers, CallFields
  <2>3. ListRouted
      BY <2>1 DEF CallFits
  <2> QED
      BY <1>3, <2>1, <2>2, <2>3, CallActs
<1>6. ASSUME NEW reply, call' = Replied(reply) \/ \E asset : call' = [Replied(reply) EXCEPT !.asset = asset],
             call.stage = "serving", acted' \subseteq acted \union {"served"},
             "served" \in acted' =>
               /\ call.server \in Process /\ server'[call.server].pc # "unborn"
               /\ server'[call.server].pc # "dead" => Allows(server'[call.server].policy, call.tool)
      PROVE  CallFits'
  <2>1. /\ DOMAIN call' = CallFields /\ call'.stage = "replied" /\ call'.token = call.token
        /\ call'.tool = call.tool /\ call'.ask = call.ask /\ call'.server = call.server
        /\ call'.known = call.known
    <3>1. CASE call' = Replied(reply)
        BY <1>1, <1>6, <3>1 DEF Replied, CallFields
    <3>2. ASSUME NEW asset, call' = [Replied(reply) EXCEPT !.asset = asset]
          PROVE  /\ DOMAIN call' = CallFields /\ call'.stage = "replied" /\ call'.token = call.token
                 /\ call'.tool = call.tool /\ call'.ask = call.ask /\ call'.server = call.server
                 /\ call'.known = call.known
        BY <1>1, <1>6, <3>2 DEF Replied, CallFields
    <3> QED
        BY <1>6, <3>1, <3>2
  <2>2. "external page" \notin acted' /\ ("public list" \in acted' => ListRouted)
      BY <1>6 DEF CallFits
  <2> QED
      BY <1>3, <1>6, <2>1, <2>2, CallActs
<1>7. call.stage = "serving" => call.server \in Process /\ server[call.server].pc # "unborn"
    BY DEF CallFits
<1>8. CASE UNCHANGED server /\ ServerRefuses
    BY <1>6, <1>8, StillServed DEF ServerRefuses
<1>9. CASE UNCHANGED server /\ ServerActs
  <2>1. /\ call.stage = "serving" /\ Allows(server[call.server].policy, call.tool)
        /\ acted' = acted \union {"served"}
      BY <1>9 DEF ServerActs, ServerAllows
  <2>2. PICK reply : call' = Replied(reply) \/ \E asset : call' = [Replied(reply) EXCEPT !.asset = asset]
      BY <1>9 DEF ServerActs
  <2> QED
      BY <1>6, <1>7, <1>9, <2>1, <2>2
<1>10. CASE HandlerPanics
  <2>1. /\ call.stage = "serving" /\ Allows(server[call.server].policy, call.tool)
        /\ acted' = acted \union {"served"}
      BY <1>10 DEF HandlerPanics, ServerAllows
  <2>2. CASE call' = Replied("internal") /\ UNCHANGED server
      BY <1>6, <1>7, <2>1, <2>2
  <2>3. CASE Exits(call.server) /\ UNCHANGED call
    <3>1. server'[call.server].pc = "dead"
        BY <1>7, <2>1, <2>3, Typed DEF Exits, Moves, Gone
    <3>2. LetIn' /\ Granted'
      <4>1. LetIn /\ Granted
          BY <1>2, <1>3, <2>1 DEF CallFits
      <4> QED
          BY <2>3, <4>1, SameLeave
    <3>3. call' = call /\ "external page" \notin acted' /\ DOMAIN call = CallFields
        BY <1>1, <2>1, <2>3 DEF CallFits
    <3>4. ~Alive(call.server)'
        BY <3>1, <3>3 DEF Alive
    <3> QED
        BY <1>7, <2>1, <3>1, <3>2, <3>3, <3>4, SameRoutes DEF CallFits
  <2> QED
      BY <1>10, <2>2, <2>3 DEF HandlerPanics
<1>11. CASE UNCHANGED server /\ NoReplyComes
    BY <1>3, <1>4, <1>11 DEF NoReplyComes
<1>12. CASE UNCHANGED server /\ Receive
  <2>1. call.stage = "replied" /\ UNCHANGED acted /\ "external page" \notin acted
      BY <1>12 DEF Receive, CallFits
  <2>2. CASE \E code : Answers(code)
      BY <1>3, <1>4, <1>12, <2>1, <2>2
  <2>3. CASE /\ call.reply = "ok"
             /\ call' = [call EXCEPT !.stage = IF call.ask.external THEN "supplement" ELSE "sizing"]
    <3>1. PICK stage \in {"supplement", "sizing"} :
            /\ call' = [call EXCEPT !.stage = stage]
            /\ stage = "supplement" => call.ask.external
        BY <2>3
    <3>2. call' = [call EXCEPT !.stage = stage, !.answer = call.answer, !.channel = call.channel]
        BY <1>1, <2>1, <3>1 DEF CallFields
    <3>3. LetIn /\ Granted /\ Done(Inside) /\ Done(Passed)
        BY <1>2, <1>3, <2>1 DEF CallFits
    <3>4. stage \in Inside \ {"serving"} /\ stage \notin {"admitted", "public", "connecting"}
        BY DEF Inside
    <3>5. UNCHANGED server /\ call.stage # "idle" /\ (stage = "supplement" => call.ask.external /\ call.reply = "ok")
        BY <1>12, <2>1, <2>3, <3>1
    <3> QED
        BY <2>1, <3>2, <3>3, <3>4, <3>5, CallGoesOn
  <2> QED
      BY <1>12, <2>2, <2>3 DEF Receive
<1>13. ASSUME call.stage = "supplement", UNCHANGED server,
              NEW report, NEW warnings, Supplemented(report, warnings),
              \/ acted' = acted
              \/ acted' = acted \union {"external page"} /\ PageRouted(call.asset.type)
       PROVE  CallFits'
  <2>1. /\ DOMAIN call' = CallFields /\ call'.stage = "sizing" /\ call'.token = call.token
        /\ call'.tool = call.tool /\ call'.ask = call.ask /\ call'.server = call.server
        /\ call'.known = call.known
        /\ call'.asset = call.asset /\ call'.reply = call.reply
      BY <1>1, <1>13 DEF Supplemented, CallFields
  <2>2. call.ask.external /\ call.reply = "ok" /\ "external page" \notin acted
      BY <1>13 DEF CallFits
  <2>3. "served" \in acted' =>
          /\ call.server \in Process /\ server'[call.server].pc # "unborn"
          /\ server'[call.server].pc # "dead" => Allows(server'[call.server].policy, call.tool)
    <3>1. ASSUME "served" \in acted' PROVE "served" \in acted
      <4>1. CASE acted' = acted
          BY <3>1, <4>1
      <4>2. CASE acted' = acted \union {"external page"}
          BY <3>1, <4>2
      <4> QED
          BY <1>13, <4>1, <4>2
    <3> QED
        BY <1>13, <3>1, StillServed
  <2>4. "external page" \in acted' =>
          call.ask.external /\ PageRouted(call'.asset.type) /\ call'.reply = "ok"
      BY <1>13, <2>1, <2>2
  <2>5. "public list" \in acted' => ListRouted
    <3>1. call.stage # "idle" /\ ("public list" \in acted => ListRouted)
        BY <1>13 DEF CallFits
    <3>2. "public list" \in acted' => "public list" \in acted
      <4>1. CASE acted' = acted
          BY <4>1
      <4>2. CASE acted' = acted \union {"external page"}
          BY <4>2
      <4> QED
          BY <1>13, <4>1, <4>2
    <3> QED
        BY <3>1, <3>2
  <2>6. call.stage \in Passed /\ call'.stage \in {"replied", "sizing", "answered"} /\ call'.stage # "replied"
      BY <1>3, <1>13, <2>1
  <2> QED
      BY <2>1, <2>3, <2>4, <2>5, <2>6, CallActs
<1>14. CASE UNCHANGED server /\ SupplementStock
  <2>1. call.stage = "supplement" /\ call.asset.type = "stock"
      BY <1>14 DEF SupplementStock
  <2>2. \/ acted' = acted
        \/ acted' = acted \union {"external page"} /\ gateway.config.stock
      BY <1>14 DEF SupplementStock, Warned, Fetched
  <2>3. gateway.config.stock => PageRouted(call.asset.type)
      BY <2>1, RoutesConfigured
  <2>4. PICK report, warnings : Supplemented(report, warnings)
      BY <1>14 DEF SupplementStock, Warned, Fetched
  <2>5. \/ acted' = acted
        \/ acted' = acted \union {"external page"} /\ PageRouted(call.asset.type)
      BY <2>2, <2>3
  <2> QED
      BY <1>13, <1>14, <2>1, <2>4, <2>5
<1>15. CASE UNCHANGED server /\ SupplementEtf
  <2>1. call.stage = "supplement" /\ call.asset.type = "etf"
      BY <1>15 DEF SupplementEtf
  <2>2. \/ acted' = acted
        \/ acted' = acted \union {"external page"} /\ gateway.config.etf
      BY <1>15 DEF SupplementEtf, Warned, Fetched
  <2>3. gateway.config.etf => PageRouted(call.asset.type)
      BY <2>1, RoutesConfigured
  <2>4. PICK report, warnings : Supplemented(report, warnings)
      BY <1>15 DEF SupplementEtf, Warned, Fetched
  <2>5. \/ acted' = acted
        \/ acted' = acted \union {"external page"} /\ PageRouted(call.asset.type)
      BY <2>2, <2>3
  <2> QED
      BY <1>13, <1>15, <2>1, <2>4, <2>5
<1>16. CASE UNCHANGED server /\ SupplementOther
    BY <1>13, <1>16 DEF SupplementOther, Warned
<1>17. CASE UNCHANGED server /\ CheckSize
    BY <1>3, <1>4, <1>17 DEF CheckSize
<1>18. CASE UNCHANGED server /\ ClientDone
  <2>1. call'.stage = "idle" /\ acted' = {}
      BY <1>18 DEF ClientDone, Idle
  <2> QED
      BY <2>1 DEF CallFits, Done, Inside, Passed
<1> QED
    BY <1>5, <1>8, <1>9, <1>10, <1>11, <1>12, <1>14, <1>15, <1>16, <1>17, <1>18

\* Every step of a call keeps what the call has come to.
LEMMA CallsKeep ==
    ASSUME StartsInv, LeaveInv, CallsMove, UNCHANGED <<env, gateway>>
    PROVE  CallFits'
<1>1. ASSUME NEW tool, NEW token, NEW ask, CallArrives(tool, token, ask), UNCHANGED server
      PROVE  CallFits'
    BY <1>1, ArrivalFits DEF LeaveInv
<1>2. CASE UNCHANGED server /\ Admit
    BY <1>2, AdmitFits DEF LeaveInv
<1>3. CASE UNCHANGED server /\ Gate
    BY <1>3, GateFits DEF LeaveInv
<1>4. CASE UNCHANGED server /\ Connect
    BY <1>4, ConnectFits DEF LeaveInv
<1>5. CASE \/ HandlerPanics
           \/ UNCHANGED server /\ (\/ ReadPublicList \/ ServerRefuses \/ ServerActs \/ NoReplyComes
                                  \/ Receive \/ SupplementStock \/ SupplementEtf
                                  \/ SupplementOther \/ CheckSize \/ ClientDone)
    BY <1>5, StepFits DEF LeaveInv
<1>6. \/ \E tool \in CallTools, token \in Tokens, ask \in Asks :
          CallArrives(tool, token, ask) /\ UNCHANGED server
      \/ CallStep /\ UNCHANGED server
      \/ HandlerPanics
    BY DEF CallsMove
<1> QED
    BY <1>1, <1>2, <1>3, <1>4, <1>5, <1>6 DEF CallStep

\* Every step keeps the invariant.
LEMMA NextKeepsLeave ==
    ASSUME StartsInv, LeaveInv, [Next]_vars
    PROVE  LeaveInv'
<1>1. Configured' /\ UNCHANGED <<env, gateway>>
    BY ConfiguredKept DEF LeaveInv
<1>2. CASE UNCHANGED <<callVars, server>>
    BY <1>1, <1>2, ServersMove DEF LeaveInv, Stays, Alive
<1>3. CASE KeysMove \/ UNCHANGED vars
    BY <1>2, <1>3 DEF KeysMove, vars, startVars
<1>4. CASE StartsMove
    BY <1>1, <1>4, StartsStay, ServersMove DEF LeaveInv, StartsMove
<1>5. CASE CallsMove
    BY <1>1, <1>5, CallsKeep DEF LeaveInv
<1> QED
    BY <1>1, <1>2, <1>3, <1>4, <1>5 DEF Next, LeaveInv

\* There is no call at first.
LEMMA LeaveInitFits == ASSUME Init PROVE LeaveInv
<1>1. call.stage = "idle" /\ acted = {}
    BY DEF Init, CallsInit, Idle
<1>2. Configured
    BY DEF Init, CallsInit, Configured
<1> QED
    BY <1>1, <1>2 DEF LeaveInv, CallFits, Done, Inside, Passed

\* What the call has come by is leave.
LEMMA LeaveIsGiven == LeaveInv => ServedWithLeave
<1> SUFFICES ASSUME LeaveInv, call.stage # "idle", acted # {} PROVE ServedWithLeave
    BY DEF ServedWithLeave
<1>1. Done(Inside) /\ Done(Passed)
    BY DEF LeaveInv, CallFits, Done, Inside, Passed
<1>2. LetIn /\ Granted
    BY <1>1 DEF LeaveInv, CallFits
<1> QED
    BY <1>2 DEF LeaveInv, CallFits, LetIn, Granted, PageRouted, ListRouted, ServedWithLeave

\* Nothing is done for a call without leave (Access, the tools of the channel, the
\* policies of the gateway and of the server that acts, and the conditions of the
\* public pages), whatever is deployed, asked and crashed.
THEOREM CallsAreServedWithLeave == Spec => []ServedWithLeave
<1>1. Init => StartsInv /\ LeaveInv
    BY StartsInitFits, LeaveInitFits DEF Init
<1>2. (StartsInv /\ LeaveInv) /\ [Next]_vars => (StartsInv /\ LeaveInv)'
    BY NextKeepsStarts, NextKeepsLeave
<1>3. StartsInv /\ LeaveInv => ServedWithLeave
    BY LeaveIsGiven
<1> QED
    BY <1>1, <1>2, <1>3, PTL DEF Spec
-----------------------------------------------------------------------------
(* What the audit tells.                                                   *)

Details == "market_get_asset_details"
TurnedAway == {"unauthorized", "tool not found"}
Replies == {NoReply, "ok", "mismatched", "safe_error", "invalid_request", "internal"}

\* A report is about the instrument asked for, and its disagreement is warned about.
ReportFits ==
    call.report.ok =>
      /\ call.ask.expected \in {Nothing, call.report.isin}
      /\ call.asset.type = "etf" => call.report.isin = call.asset.isin
      /\ \/ Nothing \in {call.asset.isin, call.report.isin}
         \/ call.asset.isin = call.report.isin
         \/ "external_enrichment_isin_disagreement" \in call.warnings

\* The supplement was asked for just when it is there or warned about.
Supplementing ==
    /\ call.ask.external <=> call.report.ok \/ call.warnings # {}
    /\ ReportFits

\* The lines of the supplement: none, or that of the fetch.
LinesFit(lines) ==
    \/ lines = << >> /\ "external page" \notin acted /\ ~call.report.ok
    \/ \E code \in {"ok", "failed"} :
         /\ lines = <<Line(ExternalTool, code)>>
         /\ call.report.ok => code = "ok"

\* Nothing was said of the call and nothing supplements it yet.
Unsaid == audit = << >> /\ call.report = Failed /\ call.warnings = {}

\* A call that is answered was turned away, or its own line is the last.
AnswerFits ==
    \/ call.answer \in TurnedAway /\ audit = << >> /\ acted = {} /\ ~call.report.ok
    \/ /\ call.answer \notin TurnedAway
       /\ \E lines : audit = Append(lines, Line(call.tool, call.answer)) /\ LinesFit(lines)
       /\ call.tool = Details /\ call.answer = "ok" => Supplementing

\* What the audit says of a call at each of its stages.
AuditFits ==
    /\ call.stage = "idle" => audit = << >>
    /\ call.stage \notin {"idle", "sizing", "answered"} => Unsaid
    /\ call.stage # "idle" => call.reply \in Replies
    /\ call.stage = "public" => call.tool # Details
    /\ call.stage = "supplement" => call.tool = Details
    /\ call.stage = "sizing" => call.tool = Details /\ LinesFit(audit) /\ Supplementing
    /\ call.stage = "answered" => AnswerFits

\* The gateway answers by a line of its own, after those of the supplement.
LEMMA AnswerSays ==
    ASSUME DOMAIN call = CallFields, call.reply \in Replies, NEW code, code \notin TurnedAway,
           Answers(code), LinesFit(audit), "external page" \in acted' => "external page" \in acted,
           call.tool = Details /\ code = "ok" => Supplementing
    PROVE  AuditFits'
<1>1. /\ call'.stage = "answered" /\ call'.answer = code /\ call'.reply = call.reply
      /\ call'.tool = call.tool /\ call'.ask = call.ask /\ call'.asset = call.asset
      /\ call'.report = call.report /\ call'.warnings = call.warnings
      /\ audit' = Append(audit, Line(call.tool, code))
    BY DEF Answers, CallFields
<1>2. Supplementing' <=> Supplementing
    BY <1>1 DEF Supplementing, ReportFits
<1>3. \/ audit = << >> /\ "external page" \notin acted' /\ ~call'.report.ok
      \/ \E told \in {"ok", "failed"} :
           /\ audit = <<Line(ExternalTool, told)>>
           /\ call'.report.ok => told = "ok"
    BY <1>1 DEF LinesFit
<1>4. AnswerFits'
  <2>1. \E lines :
          /\ audit' = Append(lines, Line(call'.tool, call'.answer))
          /\ \/ lines = << >> /\ "external page" \notin acted' /\ ~call'.report.ok
             \/ \E told \in {"ok", "failed"} :
                  /\ lines = <<Line(ExternalTool, told)>>
                  /\ call'.report.ok => told = "ok"
      <3>1. audit' = Append(audit, Line(call'.tool, call'.answer))
          BY <1>1
      <3> QED
          BY <3>1, <1>3
  <2>2. call'.answer \notin TurnedAway
      BY <1>1
  <2>3. call'.tool = Details /\ call'.answer = "ok" => Supplementing'
      BY <1>1, <1>2
  <2> QED
      BY <2>1, <2>2, <2>3 DEF AnswerFits, LinesFit
<1> QED
    BY <1>1, <1>4 DEF AuditFits

\* A call that is not supplemented yet moves to another stage without a word.
LEMMA SaysNothing ==
    ASSUME Unsaid, UNCHANGED audit, call'.report = call.report, call'.warnings = call.warnings,
           call'.stage \notin {"idle", "sizing", "answered"}, call'.reply \in Replies,
           call'.stage = "public" => call'.tool # Details,
           call'.stage = "supplement" => call'.tool = Details
    PROVE  AuditFits'
BY DEF AuditFits, Unsaid

\* The first line of an audit is its only one, and the second one its last.
LEMMA FirstLine == ASSUME NEW line PROVE Append(<< >>, line) = <<line>>
OBVIOUS

\* The second line of an audit leaves the first as it is.
LEMMA SecondLine ==
    ASSUME NEW first, NEW second
    PROVE  LET lines == Append(<<first>>, second)
           IN Len(lines) = 2 /\ lines[1] = first /\ Last(lines) = second /\ lines # << >>
<1> DEFINE lines == Append(<<first>>, second)
<1>1. <<first>> \in Seq({first, second}) /\ Len(<<first>>) = 1 /\ <<first>>[1] = first
    OBVIOUS
<1>2. Len(lines) = 2 /\ lines[1] = first /\ lines[2] = second
    BY <1>1
<1> QED
    BY <1>2 DEF Last

\* Before the supplement there is nothing to tell of it.
LEMMA UnsaidFits ==
    ASSUME Unsaid, "external page" \notin acted
    PROVE  LinesFit(audit) /\ ReportFits
<1>1. ~Failed.ok
    BY DEF Failed
<1> QED
    BY <1>1 DEF Unsaid, LinesFit, ReportFits

\* A report on a stock page shows the expected ISIN, and its disagreement with
\* Fineco's is warned about.
LEMMA StockReportFits ==
    ASSUME NEW page, NEW expected, NEW asset, StockReport(page, expected).ok
    PROVE  LET report == StockReport(page, expected)
           IN /\ expected \in {Nothing, report.isin}
              /\ \/ Nothing \in {asset.isin, report.isin}
                 \/ asset.isin = report.isin
                 \/ "external_enrichment_isin_disagreement" \in StockWarnings(asset, report)
<1> DEFINE report == StockReport(page, expected)
           profile == ProfileOf(page.profiles, expected)
<1> HIDE DEF profile
<1>1. report = IF profile = << >> THEN Failed
               ELSE IF expected # Nothing /\ profile[1].isin # expected THEN Failed
               ELSE [ok |-> TRUE, isin |-> profile[1].isin, ticker |-> profile[1].ticker]
    BY DEF StockReport, profile
<1>2. expected \in {Nothing, report.isin}
    BY <1>1 DEF Failed
<1> HIDE DEF report
<1>3. asset.isin # Nothing /\ report.isin # Nothing /\ asset.isin # report.isin =>
        "external_enrichment_isin_disagreement" \in StockWarnings(asset, report)
    BY DEF StockWarnings
<1> QED
    BY <1>2, <1>3 DEF report

\* A report on an ETF page shows Fineco's ISIN, and the expected one.
LEMMA EtfReportFits ==
    ASSUME NEW page, NEW isin, NEW expected, EtfReport(page, isin, expected).ok
    PROVE  /\ EtfReport(page, isin, expected).isin = isin
           /\ expected \in {Nothing, isin}
BY DEF EtfReport, EtfFetches, Failed

\* Whatever is fetched or missing, the supplement is there or warned about.
LEMMA SupplementFits ==
    ASSUME DOMAIN call = CallFields, call.reply \in Replies, call.stage = "supplement",
           call.ask.external, call.tool = Details, Unsaid,
           SupplementStock \/ SupplementEtf \/ SupplementOther, "external page" \notin acted
    PROVE  AuditFits'
<1>1. ASSUME NEW report, NEW warnings, Supplemented(report, warnings),
             report.ok \/ warnings # {},
             report.ok =>
               /\ call.ask.expected \in {Nothing, report.isin}
               /\ call.asset.type = "etf" => report.isin = call.asset.isin
               /\ \/ Nothing \in {call.asset.isin, report.isin}
                  \/ call.asset.isin = report.isin
                  \/ "external_enrichment_isin_disagreement" \in warnings,
             \/ audit' = << >> /\ "external page" \notin acted' /\ ~report.ok
             \/ \E code \in {"ok", "failed"} :
                  /\ audit' = <<Line(ExternalTool, code)>>
                  /\ report.ok => code = "ok"
      PROVE  AuditFits'
  <2>1. /\ call'.stage = "sizing" /\ call'.report = report /\ call'.warnings = warnings
        /\ call'.reply = call.reply /\ call'.tool = Details /\ call'.ask = call.ask
        /\ call'.asset = call.asset
      BY <1>1 DEF Supplemented, CallFields
  <2>2. Supplementing'
      BY <1>1, <2>1 DEF Supplementing, ReportFits
  <2>3. LinesFit(audit)'
      BY <1>1, <2>1 DEF LinesFit
  <2> QED
      BY <2>1, <2>2, <2>3 DEF AuditFits
<1>2. ASSUME NEW code, Warned(code) PROVE AuditFits'
  <2>1. Supplemented(Failed, {code}) /\ audit' = << >> /\ "external page" \notin acted' /\ ~Failed.ok
      BY <1>2 DEF Warned, Unsaid, Failed
  <2> QED
      BY <1>1, <2>1
<1>3. ASSUME NEW report, NEW warnings, Fetched(report, warnings),
             report.ok =>
               /\ call.ask.expected \in {Nothing, report.isin}
               /\ call.asset.type = "etf" => report.isin = call.asset.isin
               /\ \/ Nothing \in {call.asset.isin, report.isin}
                  \/ call.asset.isin = report.isin
                  \/ "external_enrichment_isin_disagreement" \in warnings
      PROVE  AuditFits'
  <2>1. /\ report.ok => audit' = Append(<< >>, Line(ExternalTool, "ok"))
        /\ ~report.ok => audit' = Append(<< >>, Line(ExternalTool, "failed"))
      BY <1>3 DEF Fetched, Unsaid
  <2>2. CASE report.ok
    <3>3. Supplemented(report, warnings)
        BY <1>3, <2>2 DEF Fetched
    <3>1. audit' = <<Line(ExternalTool, "ok")>>
        BY <2>1, <2>2, FirstLine
    <3>2. \E code \in {"ok", "failed"} :
            audit' = <<Line(ExternalTool, code)>> /\ (report.ok => code = "ok")
        BY <3>1
    <3> QED
        BY <1>1, <1>3, <2>2, <3>2, <3>3
  <2>3. CASE ~report.ok
    <3>1. Supplemented(Failed, {"external_enrichment_failed"})
        BY <1>3, <2>3 DEF Fetched
    <3>2. audit' = <<Line(ExternalTool, "failed")>>
        BY <2>1, <2>3, FirstLine
    <3>3. ~Failed.ok
        BY DEF Failed
    <3>4. \E code \in {"ok", "failed"} :
            audit' = <<Line(ExternalTool, code)>> /\ (Failed.ok => code = "ok")
        BY <3>2, <3>3
    <3> QED
        BY <1>1, <3>1, <3>3, <3>4
  <2> QED
      BY <2>2, <2>3
<1>4. ASSUME NEW warnings, Fetched(Failed, warnings) PROVE AuditFits'
  <2>1. ~Failed.ok
      BY DEF Failed
  <2> QED
      BY <1>3, <1>4, <2>1
<1>5. CASE SupplementStock
  <2>1. call.asset.type # "etf"
      BY <1>5 DEF SupplementStock
  <2>2. ASSUME NEW page \in StockPages, NEW report, report = StockReport(page, call.ask.expected),
               Fetched(report, IF report.ok THEN StockWarnings(call.asset, report) ELSE {})
        PROVE  AuditFits'
      BY <1>3, <2>1, <2>2, StockReportFits
  <2> QED
      BY <1>2, <1>4, <1>5, <2>2 DEF SupplementStock
<1>6. CASE SupplementEtf
  <2>1. ASSUME NEW page \in EtfPages,
               Fetched(EtfReport(page, call.asset.isin, call.ask.expected), {})
        PROVE  AuditFits'
    <3>1. EtfReport(page, call.asset.isin, call.ask.expected).ok =>
            /\ EtfReport(page, call.asset.isin, call.ask.expected).isin = call.asset.isin
            /\ call.ask.expected \in {Nothing, call.asset.isin}
        BY EtfReportFits
    <3> QED
        BY <1>3, <2>1, <3>1
  <2>2. CASE ~gateway.config.etf
      BY <1>2, <1>6, <2>2 DEF SupplementEtf
  <2>3. CASE gateway.config.etf /\ call.asset.isin = Nothing
      BY <1>2, <1>6, <2>3 DEF SupplementEtf
  <2>4. CASE gateway.config.etf /\ call.asset.isin # Nothing
    <3>1. \/ Fetched(Failed, {})
          \/ \E page \in EtfPages : Fetched(EtfReport(page, call.asset.isin, call.ask.expected), {})
        BY <1>6, <2>4 DEF SupplementEtf
    <3> QED
        BY <1>4, <2>1, <3>1
  <2> QED
      BY <2>2, <2>3, <2>4
<1>7. CASE SupplementOther
    BY <1>2, <1>7 DEF SupplementOther
<1> QED
    BY <1>5, <1>6, <1>7

\* What the gateway answers by itself is not what it answers at the door.
LEMMA GateTells == GateCode \notin TurnedAway
<1>1. GateCode \in {"policy_denied", "invalid_request", "market_unconfigured",
                    "live_refresh_unconfigured", "market_control_unconfigured", "ok"}
    BY DEF GateCode
<1> QED
    BY <1>1 DEF TurnedAway

\* A call is turned away without a line, or let in.
LEMMA DoorTells ==
    ASSUME CallFits, AuditFits, \/ Admit
                                \/ \E tool, token, ask : CallArrives(tool, token, ask)
    PROVE  AuditFits'
<1>1. ASSUME NEW tool, NEW token, NEW ask, CallArrives(tool, token, ask) PROVE AuditFits'
    BY <1>1 DEF CallArrives, AuditFits, Unsaid, Replies
<1>2. CASE Admit
  <2>1. call.stage = "arrived" /\ acted = {} /\ DOMAIN call = CallFields
      BY <1>2 DEF Admit, CallFits
  <2>2. Unsaid /\ call.reply \in Replies
      BY <2>1 DEF AuditFits
  <2>3. ASSUME NEW code \in TurnedAway, Rejects(code) PROVE AuditFits'
    <3>1. /\ call'.stage = "answered" /\ call'.answer = code /\ call'.reply = call.reply
          /\ call'.report = Failed /\ audit' = << >> /\ acted' = {}
        BY <2>1, <2>2, <2>3 DEF Rejects, CallFields, Unsaid
    <3>2. ~call'.report.ok
        BY <3>1 DEF Failed
    <3> QED
        BY <2>2, <2>3, <3>1, <3>2 DEF AuditFits, AnswerFits
  <2>4. ASSUME NEW channel,
               call' = [call EXCEPT !.stage = "admitted", !.channel = channel, !.known = fetched],
               UNCHANGED audit
        PROVE  AuditFits'
    <3>1. /\ call'.stage = "admitted" /\ call'.reply = call.reply /\ call'.report = call.report
          /\ call'.warnings = call.warnings
        BY <2>1, <2>4 DEF CallFields
    <3> QED
        BY <2>2, <2>4, <3>1, SaysNothing
  <2>5. "unauthorized" \in TurnedAway /\ "tool not found" \in TurnedAway
      BY DEF TurnedAway
  <2>6. \/ Rejects("unauthorized") \/ Rejects("tool not found")
        \/ \E channel :
             /\ call' = [call EXCEPT !.stage = "admitted", !.channel = channel, !.known = fetched]
             /\ UNCHANGED audit
      BY <1>2 DEF Admit
  <2> QED
      BY <2>3, <2>4, <2>5, <2>6
<1> QED
    BY <1>1, <1>2

\* A call that is inside goes on without a word, or is answered with its line.
LEMMA InsideTells ==
    ASSUME CallFits, AuditFits, \/ Gate \/ ReadPublicList \/ Connect \/ ServerRefuses \/ ServerActs
                                \/ NoReplyComes \/ HandlerPanics
    PROVE  AuditFits'
<1>1. call.stage \in {"admitted", "public", "connecting", "serving"}
    BY DEF Gate, ReadPublicList, Connect, ServerRefuses, ServerActs, NoReplyComes, HandlerPanics
<1>2. DOMAIN call = CallFields /\ Unsaid /\ call.reply \in Replies /\ "external page" \notin acted
    BY <1>1 DEF CallFits, AuditFits
<1>3. ASSUME NEW code, code \notin TurnedAway, Answers(code), "external page" \notin acted',
             call.tool # Details \/ code # "ok"
      PROVE  AuditFits'
    BY <1>2, <1>3, UnsaidFits, AnswerSays
<1>4. ASSUME NEW reply \in Replies, UNCHANGED audit,
             call' = Replied(reply) \/ \E asset : call' = [Replied(reply) EXCEPT !.asset = asset]
      PROVE  AuditFits'
  <2>1. /\ call'.stage = "replied" /\ call'.reply = reply /\ call'.report = call.report
        /\ call'.warnings = call.warnings
    <3>1. CASE call' = Replied(reply)
        BY <1>2, <3>1 DEF Replied, CallFields
    <3>2. ASSUME NEW asset, call' = [Replied(reply) EXCEPT !.asset = asset]
          PROVE  /\ call'.stage = "replied" /\ call'.reply = reply /\ call'.report = call.report
                 /\ call'.warnings = call.warnings
        BY <1>2, <3>2 DEF Replied, CallFields
    <3> QED
        BY <1>4, <3>1, <3>2
  <2> QED
      BY <1>2, <1>4, <2>1, SaysNothing
<1>5. ASSUME NEW stage \in {"public", "connecting"}, UNCHANGED audit,
             call' = [call EXCEPT !.stage = stage], stage = "public" => call.tool # Details
      PROVE  AuditFits'
  <2>1. /\ call'.stage = stage /\ call'.reply = call.reply /\ call'.report = call.report
        /\ call'.warnings = call.warnings /\ call'.tool = call.tool
      BY <1>2, <1>5 DEF CallFields
  <2> QED
      BY <1>2, <1>5, <2>1, SaysNothing
<1>6. CASE Gate
  <2>1. CASE GateCode # "ok" /\ Answers(GateCode) /\ UNCHANGED acted
      BY <1>2, <1>3, <2>1, GateTells
  <2>2. CASE /\ call' = [call EXCEPT !.stage = IF call.tool \in PublicTool THEN "public" ELSE "connecting"]
             /\ UNCHANGED audit
    <3>1. PICK stage \in {"public", "connecting"} :
            call' = [call EXCEPT !.stage = stage] /\ (stage = "public" => call.tool \in PublicTool)
        BY <2>2
    <3> QED
        BY <1>5, <2>2, <3>1 DEF PublicTool, Details
  <2> QED
      BY <1>6, <2>1, <2>2 DEF Gate
<1>7. CASE ReadPublicList
  <2>1. PICK code \in {"ok", "upstream"} : Answers(code)
      BY <1>7 DEF ReadPublicList
  <2>2. call.tool # Details /\ "external page" \notin acted'
      BY <1>2, <1>7 DEF ReadPublicList, AuditFits
  <2> QED
      BY <1>3, <2>1, <2>2 DEF TurnedAway
<1>8. CASE Connect
  <2>1. CASE Answers("internal")
      BY <1>2, <1>3, <1>8, <2>1 DEF Connect, TurnedAway
  <2>2. CASE /\ call' = [call EXCEPT !.stage = "serving", !.server = files[Socket(call.tool)]]
             /\ UNCHANGED audit
    <3>1. /\ call'.stage = "serving" /\ call'.reply = call.reply /\ call'.report = call.report
          /\ call'.warnings = call.warnings
        BY <1>2, <2>2 DEF CallFields
    <3> QED
        BY <1>2, <2>2, <3>1, SaysNothing
  <2> QED
      BY <1>8, <2>1, <2>2 DEF Connect
<1>9. CASE ServerRefuses
    BY <1>4, <1>9 DEF ServerRefuses, Replies
<1>10. CASE ServerActs
  <2>1. PICK reply \in {"ok", "mismatched", "safe_error"} :
          call' = Replied(reply) \/ \E asset : call' = [Replied(reply) EXCEPT !.asset = asset]
      BY <1>10 DEF ServerActs
  <2> QED
      BY <1>4, <1>10, <2>1 DEF ServerActs, Replies
<1>11. CASE NoReplyComes
    BY <1>2, <1>3, <1>11 DEF NoReplyComes, TurnedAway
<1>12. CASE HandlerPanics
  <2>1. CASE call' = Replied("internal")
      BY <1>4, <1>12, <2>1 DEF HandlerPanics, Replies
  <2>2. CASE UNCHANGED call
      BY <1>1, <1>2, <1>12, <2>2, SaysNothing DEF HandlerPanics, AuditFits
  <2> QED
      BY <1>12, <2>1, <2>2 DEF HandlerPanics
<1> QED
    BY <1>6, <1>7, <1>8, <1>9, <1>10, <1>11, <1>12

\* What is received is what the audit tells, and a result too large is an error in
\* both.
LEMMA ReceiptTells ==
    ASSUME CallFits, AuditFits, Receive \/ CheckSize \/ ClientDone
    PROVE  AuditFits'
<1>1. CASE Receive
  <2>1. /\ call.stage = "replied" /\ UNCHANGED acted /\ DOMAIN call = CallFields /\ Unsaid
        /\ call.reply \in Replies /\ "external page" \notin acted
      BY <1>1 DEF Receive, CallFits, AuditFits
  <2>2. ASSUME NEW code, Answers(code), code \notin TurnedAway, call.tool # Details \/ code # "ok"
        PROVE  AuditFits'
      BY <2>1, <2>2, UnsaidFits, AnswerSays
  <2>3. CASE call.reply = "mismatched"
    <3>1. Answers("controller_protocol_error") \/ Answers("unexpected_response")
        BY <1>1, <2>3 DEF Receive
    <3> QED
        BY <2>2, <3>1 DEF TurnedAway
  <2>4. CASE call.reply \notin {"mismatched", "ok"}
    <3>1. Answers(call.reply)
        BY <1>1, <2>4 DEF Receive
    <3> QED
        BY <2>1, <2>2, <2>4, <3>1 DEF TurnedAway, Replies, NoReply
  <2>5. CASE call.reply = "ok" /\ call.tool = Details
    <3>1. /\ call' = [call EXCEPT !.stage = IF call.ask.external THEN "supplement" ELSE "sizing"]
          /\ UNCHANGED audit
        BY <1>1, <2>5 DEF Receive, Details
    <3>2. /\ call'.stage = IF call.ask.external THEN "supplement" ELSE "sizing"
          /\ call'.reply = call.reply /\ call'.report = call.report /\ call'.warnings = call.warnings
          /\ call'.tool = call.tool /\ call'.ask = call.ask /\ call'.asset = call.asset
        BY <2>1, <3>1 DEF CallFields
    <3>3. CASE call.ask.external
      <4>1. call'.stage = "supplement" /\ call'.tool = Details
          BY <2>5, <3>2, <3>3
      <4> QED
          BY <2>1, <3>1, <3>2, <4>1, SaysNothing
    <3>4. CASE ~call.ask.external
      <4>1. /\ audit' = << >> /\ "external page" \notin acted' /\ ~call'.report.ok
            /\ call'.warnings = {}
        <5>1. ~Failed.ok
            BY DEF Failed
        <5> QED
            BY <2>1, <3>1, <3>2, <5>1 DEF Unsaid
      <4>2. call'.stage = "sizing" /\ ~call'.ask.external
          BY <3>2, <3>4
      <4>3. LinesFit(audit)' /\ Supplementing'
          BY <4>1, <4>2 DEF LinesFit, Supplementing, ReportFits
      <4> QED
          BY <2>1, <2>5, <3>2, <4>2, <4>3 DEF AuditFits
    <3> QED
        BY <3>3, <3>4
  <2>6. CASE call.reply = "ok" /\ call.tool # Details
    <3>1. Answers("ok")
        BY <1>1, <2>6 DEF Receive, Details
    <3> QED
        BY <2>2, <2>6, <3>1 DEF TurnedAway
  <2> QED
      BY <2>3, <2>4, <2>5, <2>6
<1>2. CASE CheckSize
  <2>1. PICK code \in {"ok", "market_unexpected_response"} : Answers(code)
      BY <1>2 DEF CheckSize
  <2>2. /\ UNCHANGED acted /\ DOMAIN call = CallFields /\ LinesFit(audit) /\ Supplementing
        /\ call.reply \in Replies
      BY <1>2 DEF CheckSize, CallFits, AuditFits
  <2>3. code \notin TurnedAway
      BY DEF TurnedAway
  <2> QED
      BY <2>1, <2>2, <2>3, AnswerSays
<1>3. CASE ClientDone
    BY <1>3 DEF ClientDone, Idle, AuditFits
<1> QED
    BY <1>1, <1>2, <1>3

\* Every step keeps what the audit says.
LEMMA NextKeepsAudit ==
    ASSUME CallFits, AuditFits, [Next]_vars
    PROVE  AuditFits'
<1>1. CASE UNCHANGED callVars
    BY <1>1 DEF callVars, AuditFits, AnswerFits, LinesFit, Unsaid, Supplementing, ReportFits
<1>2. CASE KeysMove \/ StartsMove \/ UNCHANGED vars
    BY <1>1, <1>2 DEF KeysMove, StartsMove, vars
<1>3. CASE CallsMove
  <2>1. CASE SupplementStock \/ SupplementEtf \/ SupplementOther
    <3>1. call.stage = "supplement"
        BY <2>1 DEF SupplementStock, SupplementEtf, SupplementOther
    <3>2. /\ DOMAIN call = CallFields /\ call.ask.external /\ "external page" \notin acted
          /\ Unsaid /\ call.reply \in Replies
        BY <3>1 DEF CallFits, AuditFits
    <3>3. call.tool = Details
        BY <3>1 DEF AuditFits
    <3> QED
        BY <2>1, <3>1, <3>2, <3>3, SupplementFits
  <2> QED
      BY <1>3, <2>1, DoorTells, InsideTells, ReceiptTells DEF CallsMove, CallStep
<1> QED
    BY <1>2, <1>3 DEF Next

\* What the audit says of an answered call is what the property asks.
LEMMA AuditIsTold == AuditFits => AuditTellsAnswer
<1> SUFFICES ASSUME AuditFits, call.stage = "answered" PROVE AuditTellsAnswer
    BY DEF AuditTellsAnswer
<1>1. CASE call.answer \in TurnedAway /\ audit = << >> /\ acted = {} /\ ~call.report.ok
    BY <1>1 DEF AuditTellsAnswer, TurnedAway
<1>2. ASSUME NEW lines, audit = Append(lines, Line(call.tool, call.answer)), LinesFit(lines),
             call.answer \notin TurnedAway,
             call.tool = Details /\ call.answer = "ok" => Supplementing
      PROVE  AuditTellsAnswer
  <2>1. ASSUME NEW own, own = Line(call.tool, call.answer), audit = Append(lines, own)
        PROVE  /\ audit # << >> /\ Last(audit) = own
               /\ Len(audit) = 1 \/ (Len(audit) = 2 /\ audit[1].tool = ExternalTool)
               /\ "external page" \in acted => Len(audit) = 2
               /\ call.report.ok => Len(audit) = 2 /\ audit[1] = Line(ExternalTool, "ok")
    <3>1. CASE lines = << >> /\ "external page" \notin acted /\ ~call.report.ok
      <4>1. audit = <<own>>
          BY <2>1, <3>1, FirstLine
      <4> QED
          BY <3>1, <4>1 DEF Last
    <3>2. ASSUME NEW code \in {"ok", "failed"}, lines = <<Line(ExternalTool, code)>>,
                 call.report.ok => code = "ok"
          PROVE  /\ audit # << >> /\ Last(audit) = own
                 /\ Len(audit) = 2 /\ audit[1].tool = ExternalTool
                 /\ call.report.ok => audit[1] = Line(ExternalTool, "ok")
      <4> PICK first : first = Line(ExternalTool, code)
          OBVIOUS
      <4>1. first.tool = ExternalTool /\ audit = Append(<<first>>, own)
          BY <2>1, <3>2 DEF Line
      <4> QED
          BY <3>2, <4>1, SecondLine
    <3> QED
        BY <1>2, <3>1, <3>2 DEF LinesFit
  <2>2. /\ audit # << >>
        /\ Last(audit) = Line(call.tool, call.answer)
        /\ Len(audit) = 1 \/ (Len(audit) = 2 /\ audit[1].tool = ExternalTool)
        /\ "external page" \in acted => Len(audit) = 2
        /\ call.report.ok => Len(audit) = 2 /\ audit[1] = Line(ExternalTool, "ok")
      BY <1>2, <2>1
  <2> QED
      BY <1>2, <2>2 DEF AuditTellsAnswer, TurnedAway, Supplementing, ReportFits, Details
<1> QED
    BY <1>1, <1>2 DEF AuditFits, AnswerFits

\* The audit tells what happened to the client, whatever the replies, the pages and
\* the crashes: the code of its line is the code of the answer, a fetched page has
\* a line of its own, and a supplement that is missing or disagrees is warned about.
THEOREM AuditIsTrue == Spec => []AuditTellsAnswer
<1>1. Init => AuditFits
    BY DEF Init, CallsInit, Idle, AuditFits
<1>2. Init => StartsInv /\ LeaveInv
    BY StartsInitFits, LeaveInitFits DEF Init
<1>3. (StartsInv /\ LeaveInv /\ AuditFits) /\ [Next]_vars => (StartsInv /\ LeaveInv /\ AuditFits)'
    BY NextKeepsStarts, NextKeepsLeave, NextKeepsAudit DEF LeaveInv
<1> QED
    BY <1>1, <1>2, <1>3, AuditIsTold, PTL DEF Spec
=============================================================================
