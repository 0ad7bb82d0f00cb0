----------------------------- MODULE ServerStart -----------------------------
(***************************************************************************)
(* How store-servers and backups start on one database and one set of      *)
(* sockets: a start opens the store, which brings the schema up to its     *)
(* binary's version, and then takes each socket path in turn: probe, remove *)
(* a stale socket, bind. A start or a serving process may die at any step. *)
(***************************************************************************)
EXTENDS Deployment, Integers

CONSTANTS
    MaxStarts,    \* bound on the processes started
    Versions,     \* the schema versions of the binaries in use
    Policies      \* the capability policies the policy file may hold

ASSUME StartsAssumption ==
    /\ MaxStarts \in Nat
    /\ Versions \subseteq Nat \ {0} /\ \E v \in Versions : \A w \in Versions : w <= v

VARIABLES
    env,          \* the environment of the deployment
    schema,       \* how often each step of the schema has been applied
    userVersion,  \* PRAGMA user_version
    files,        \* what is at each socket path: the process that bound it, 0 or NotASocket
    server,       \* the processes, in the order they were started
    severed       \* who removed whose listening socket

startVars == <<env, schema, userVersion, files, server, severed>>

Sockets == {"refresh", "control", "query"}
NotASocket == -1
Process == 1..MaxStarts
LatestVersion == CHOOSE v \in Versions : \A w \in Versions : w <= v

Gone(pc) == [pc |-> pc, role |-> "none", supported |-> 0, found |-> 0, stages |-> << >>,
             policy |-> {}, standing |-> {}]

Alive(n) == server[n].pc \notin {"unborn", "dead"}
MidStart(n) == Alive(n) /\ server[n].pc # "serving"
Quiet == \A n \in Process : ~MidStart(n)

\* The process that answers a connection to a path, if one does.
Listener(s) == {n \in Process : files[s] = n /\ Alive(n)}

StartsInit ==
    /\ schema = [v \in 1..LatestVersion |-> 0]
    /\ userVersion = 0
    /\ files \in {[s \in Sockets |-> 0], [s \in Sockets |-> IF s = "query" THEN NotASocket ELSE 0]}
    /\ server = [n \in Process |-> Gone("unborn")]
    /\ severed = {}

-----------------------------------------------------------------------------

\* The stages of a start: the store is opened for the controller, which binds the
\* sockets it is given, and once more for the cached reads.
Stages(role) ==
    CASE role = "backup" -> <<"store">>
      [] role # "backup" /\ ~Given(env.refreshSocket) -> <<"store", "query">>
      [] role # "backup" /\ Given(env.refreshSocket) /\ ~Given(env.controlSocket) ->
           <<"store", "refresh", "store", "query">>
      [] OTHER -> <<"store", "refresh", "control", "store", "query">>

FirstStep(stages, role) ==
    CASE stages = << >> /\ role = "backup" -> "dead"
      [] stages = << >> -> "serving"
      [] stages # << >> /\ Head(stages) = "store" -> "open"
      [] OTHER -> "probe"

Advanced(p) ==
    LET rest == Tail(p.stages)
        next == FirstStep(rest, p.role)
    IN IF next = "dead" THEN Gone("dead") ELSE [p EXCEPT !.stages = rest, !.pc = next]

Moves(n, p) == server' = [server EXCEPT ![n] = p]
Exits(n) == Moves(n, Gone("dead"))

\* The environment is read and the policy file loaded.
Start(n, role, supported, policy) ==
    /\ server[n].pc = "unborn"
    /\ \A m \in 1..(n - 1) : server[m].pc # "unborn"
    /\ role = "server" => StoreServerAccepted(env)
    /\ Moves(n, [pc |-> "open", role |-> role, supported |-> supported, found |-> 0,
                 stages |-> Stages(role), policy |-> policy,
                 standing |-> {t \in Process \X Sockets : t[1] \in Listener(t[2])}])
    /\ UNCHANGED <<env, schema, userVersion, files, severed>>

\* migrate reads the version outside the transaction that acts on it.
ReadVersion(n) ==
    LET p == server[n]
    IN /\ p.pc = "open"
       /\ CASE userVersion = p.supported -> Moves(n, Advanced(p))
            [] userVersion > p.supported -> Exits(n)
            [] OTHER -> Moves(n, [p EXCEPT !.pc = "migrate", !.found = userVersion])
       /\ UNCHANGED <<env, schema, userVersion, files, severed>>

\* The missing steps in one transaction: a step that is already applied fails,
\* as its tables and indexes exist, and everything is rolled back.
Migrate(n) ==
    LET p == server[n]
        missing == (p.found + 1)..p.supported
    IN /\ p.pc = "migrate"
       /\ IF \E v \in missing : schema[v] > 0
            THEN Exits(n) /\ UNCHANGED <<schema, userVersion>>
            ELSE /\ schema' = [v \in DOMAIN schema |-> IF v \in missing THEN schema[v] + 1 ELSE schema[v]]
                 /\ userVersion' = p.supported
                 /\ Moves(n, Advanced([p EXCEPT !.found = 0]))
       /\ UNCHANGED <<env, files, severed>>

\* Variant with a bug, to test the properties: the socket is removed without
\* asking whether it answers.
ProbeNothing(n) ==
    LET p == server[n]
        s == Head(p.stages)
    IN /\ p.pc = "probe"
       /\ CASE files[s] = 0 -> Moves(n, [p EXCEPT !.pc = "bind"])
            [] files[s] = NotASocket -> Exits(n)
            [] OTHER -> Moves(n, [p EXCEPT !.pc = "unlink"])
       /\ UNCHANGED <<env, schema, userVersion, files, severed>>

\* prepare_socket_path: nothing to do at a free path, refuse a file that is no
\* socket or a socket that answers, otherwise remove the socket.
Probe(n) ==
    LET p == server[n]
        s == Head(p.stages)
    IN /\ p.pc = "probe"
       /\ CASE files[s] = 0 -> Moves(n, [p EXCEPT !.pc = "bind"])
            [] files[s] = NotASocket \/ Listener(s) # {} -> Exits(n)
            [] OTHER -> Moves(n, [p EXCEPT !.pc = "unlink"])
       /\ UNCHANGED <<env, schema, userVersion, files, severed>>

Unlink(n) ==
    LET p == server[n]
        s == Head(p.stages)
    IN /\ p.pc = "unlink"
       /\ IF files[s] = 0
            THEN Exits(n) /\ UNCHANGED <<files, severed>>
            ELSE /\ files' = [files EXCEPT ![s] = 0]
                 /\ severed' = severed \union {<<n, m, s>> : m \in Listener(s)}
                 /\ Moves(n, [p EXCEPT !.pc = "bind"])
       /\ UNCHANGED <<env, schema, userVersion>>

\* bind fails at a path that exists; the socket is then restricted to its mode.
Bind(n) ==
    LET p == server[n]
        s == Head(p.stages)
    IN /\ p.pc = "bind"
       /\ IF files[s] # 0
            THEN Exits(n) /\ UNCHANGED files
            ELSE files' = [files EXCEPT ![s] = n] /\ Moves(n, Advanced(p))
       /\ UNCHANGED <<env, schema, userVersion, severed>>

StartStep(n) == ReadVersion(n) \/ Migrate(n) \/ Probe(n) \/ Unlink(n) \/ Bind(n)

\* The process dies; its socket files stay.
Crash(n) ==
    /\ Alive(n)
    /\ Exits(n)
    /\ UNCHANGED <<env, schema, userVersion, files, severed>>

-----------------------------------------------------------------------------

Stage == Sockets \union {"store"}

\* Every variable holds a value the processes or their files could hold.
StartsTypeOK ==
    /\ schema \in [1..LatestVersion -> Nat] /\ userVersion \in 0..LatestVersion
    /\ files \in [Sockets -> Process \union {0, NotASocket}]
    /\ server \in [Process ->
         [pc : {"unborn", "open", "migrate", "probe", "unlink", "bind", "serving", "dead"},
          role : {"none", "server", "backup"}, supported : Versions \union {0},
          found : 0..LatestVersion, stages : Seq(Stage), policy : Policies \union {{}},
          standing : SUBSET (Process \X Sockets)]]
    /\ severed \subseteq Process \X Process \X Sockets

\* Whatever starts at once, every step of the schema is applied exactly once and
\* the version tells which.
SchemaFitsVersion ==
    \A v \in DOMAIN schema : schema[v] = (IF v <= userVersion THEN 1 ELSE 0)

\* A process goes on only with a store that is at least as new as its binary, and
\* migrates from an older version, which was at most this one.
StoreFits(p) ==
    /\ p.pc \in {"probe", "unlink", "bind", "serving"} => p.supported <= userVersion
    /\ p.pc = "migrate" => p.found <= userVersion /\ p.found < p.supported

\* A process takes the stages of its start in turn, each socket once.
StagesFit(p) ==
    /\ p.pc \in {"open", "migrate"} => p.stages # << >> /\ Head(p.stages) = "store"
    /\ p.pc \in {"probe", "unlink", "bind"} => p.stages # << >> /\ Head(p.stages) \in Sockets
    /\ \A i, j \in DOMAIN p.stages : p.stages[i] = p.stages[j] /\ p.stages[i] # "store" => i = j

\* m was started and does not have the socket s before it any more.
IsPast(m, s) == server[m].pc # "unborn" /\ s \notin {server[m].stages[i] : i \in DOMAIN server[m].stages}

\* Who is or was at a path does not come there again, and a process that is about
\* to remove a socket does not find there who was listening when it began.
PathsFit ==
    /\ \A s \in Sockets : files[s] \in Process => IsPast(files[s], s)
    /\ \A n, m \in Process, s \in Sockets : <<m, s>> \in server[n].standing =>
         /\ IsPast(m, s)
         /\ server[n].pc = "unlink" /\ s = Head(server[n].stages) => m \notin Listener(s)

\* A start never takes a path from a process that was listening there when the
\* start began (starts that overlap may take it from each other: probe, unlink and
\* bind are three steps).
NobodySevered ==
    \A n, m \in Process, s \in Sockets :
        <<n, m, s>> \in severed => server[n].pc # "unborn" /\ <<m, s>> \notin server[n].standing

\* The store and the sockets under starts that overlap and die at any step.
StartsInv ==
    /\ StartsTypeOK /\ SchemaFitsVersion
    /\ \A n \in Process : StoreFits(server[n]) /\ StagesFit(server[n])
    /\ PathsFit /\ NobodySevered
=============================================================================
