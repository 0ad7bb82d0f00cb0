------------------------- MODULE ServerStartProofs -------------------------
(***************************************************************************)
(* Proofs about the starts of Gateway, for any environments, versions and  *)
(* number of processes: the schema is whole, and no start takes a socket   *)
(* from who was listening when it began.                                   *)
(***************************************************************************)
EXTENDS Gateway, SequenceTheorems, TLAPS

-----------------------------------------------------------------------------
(* Processes.                                                              *)

ProcessRecord ==
    [pc : {"unborn", "open", "migrate", "probe", "unlink", "bind", "serving", "dead"},
     role : {"none", "server", "backup"}, supported : Versions \union {0},
     found : 0..LatestVersion, stages : Seq(Stage), policy : Policies \union {{}},
     standing : SUBSET (Process \X Sockets)]

\* The sockets p has yet to take.
Ahead(p) == {p.stages[i] : i \in DOMAIN p.stages}

\* The newest version is a version, and no version is newer.
LEMMA LatestIsLatest ==
    /\ LatestVersion \in Versions /\ LatestVersion \in Nat \ {0}
    /\ \A v \in Versions : v \in 1..LatestVersion
    /\ Versions \union {0} \subseteq Nat /\ 0..LatestVersion \subseteq Nat
<1> DEFINE P(v) == v \in Versions /\ \A w \in Versions : w <= v
<1>1. \E v : P(v)
    BY StartsAssumption
<1>2. P(LatestVersion)
    BY <1>1 DEF LatestVersion
<1>3. Versions \subseteq Nat \ {0}
    BY StartsAssumption
<1> HIDE DEF P
<1>4. LatestVersion \in Versions /\ \A w \in Versions : w <= LatestVersion
    BY <1>2 DEF P
<1> QED
    BY <1>3, <1>4

\* A process that is gone wants nothing and knows of nobody.
LEMMA GoneFits ==
    ASSUME NEW pc \in {"unborn", "dead"}
    PROVE  /\ Gone(pc) \in ProcessRecord /\ StagesFit(Gone(pc))
           /\ Gone(pc).pc = pc /\ Gone(pc).supported = 0 /\ Gone(pc).standing = {} /\ Ahead(Gone(pc)) = {}
<1> USE DEF Gone
<1>1. Gone(pc) \in ProcessRecord
    BY LatestIsLatest DEF ProcessRecord
<1> QED
    BY <1>1 DEF StagesFit, Ahead

\* The end of a sequence of stages is one of stages, each socket once.
LEMMA RestOfStages ==
    ASSUME NEW p \in ProcessRecord, StagesFit(p), p.stages # << >>
    PROVE  /\ Tail(p.stages) \in Seq(Stage)
           /\ Head(p.stages) \in Ahead(p)
           /\ {Tail(p.stages)[i] : i \in DOMAIN Tail(p.stages)} \subseteq Ahead(p)
           /\ Head(p.stages) # "store" =>
                Head(p.stages) \notin {Tail(p.stages)[i] : i \in DOMAIN Tail(p.stages)}
           /\ \A i, j \in DOMAIN Tail(p.stages) :
                Tail(p.stages)[i] = Tail(p.stages)[j] /\ Tail(p.stages)[i] # "store" => i = j
<1> DEFINE m == Len(p.stages)
<1>1. p.stages \in Seq(Stage)
    BY DEF ProcessRecord
<1>2. m \in Nat \ {0} /\ DOMAIN p.stages = 1..m
    BY <1>1, EmptySeq, LenProperties
<1>3. /\ Tail(p.stages) \in Seq(Stage) /\ DOMAIN Tail(p.stages) = 1..(m - 1)
      /\ \A i \in 1..(m - 1) : Tail(p.stages)[i] = p.stages[i + 1] /\ i + 1 \in 1..m /\ i + 1 # 1
    BY <1>1, <1>2, HeadTailProperties, LenProperties
<1>4. Head(p.stages) = p.stages[1] /\ 1 \in 1..m
    BY <1>1, <1>2
<1>5. \A i, j \in 1..m : p.stages[i] = p.stages[j] /\ p.stages[i] # "store" => i = j
    BY <1>2 DEF StagesFit
<1> HIDE DEF m
<1>6. {Tail(p.stages)[i] : i \in DOMAIN Tail(p.stages)} \subseteq Ahead(p)
  <2>1. \A i \in 1..(m - 1) : Tail(p.stages)[i] \in {p.stages[j] : j \in 1..m}
      BY <1>3
  <2> QED
      BY <1>2, <1>3, <2>1 DEF Ahead
<1>7. Head(p.stages) # "store" =>
        Head(p.stages) \notin {Tail(p.stages)[i] : i \in DOMAIN Tail(p.stages)}
  <2> SUFFICES ASSUME Head(p.stages) # "store", NEW i \in 1..(m - 1),
                      Head(p.stages) = Tail(p.stages)[i]
               PROVE  FALSE
      BY <1>3
  <2>1. p.stages[1] = p.stages[i + 1] /\ p.stages[1] # "store" /\ i + 1 \in 1..m /\ i + 1 # 1
      BY <1>3, <1>4
  <2> QED
      BY <1>4, <1>5, <2>1
<1>8. \A i, j \in 1..(m - 1) :
        Tail(p.stages)[i] = Tail(p.stages)[j] /\ Tail(p.stages)[i] # "store" => i = j
  <2> TAKE i, j \in 1..(m - 1)
  <2> HAVE Tail(p.stages)[i] = Tail(p.stages)[j] /\ Tail(p.stages)[i] # "store"
  <2>1. i + 1 = j + 1
      BY <1>3, <1>5
  <2> QED
      BY <2>1
<1> QED
    BY <1>2, <1>3, <1>4, <1>6, <1>7, <1>8 DEF Ahead

\* A process that goes on is at its next stage, serves or is gone.
LEMMA AdvancedFits ==
    ASSUME NEW p \in ProcessRecord, StagesFit(p), p.stages # << >>
    PROVE  /\ Advanced(p) \in ProcessRecord /\ StagesFit(Advanced(p))
           /\ Advanced(p).supported \in {0, p.supported}
           /\ Advanced(p).pc \in {"dead", "serving", "open", "probe"}
           /\ Advanced(p).standing \in {{}, p.standing}
           /\ Ahead(Advanced(p)) \subseteq Ahead(p)
           /\ Head(p.stages) # "store" => Head(p.stages) \notin Ahead(Advanced(p))
<1> DEFINE rest == Tail(p.stages)
           next == FirstStep(rest, p.role)
<1>1. /\ rest \in Seq(Stage)
      /\ {rest[i] : i \in DOMAIN rest} \subseteq Ahead(p)
      /\ Head(p.stages) # "store" => Head(p.stages) \notin {rest[i] : i \in DOMAIN rest}
      /\ \A i, j \in DOMAIN rest : rest[i] = rest[j] /\ rest[i] # "store" => i = j
    BY RestOfStages
<1>2. rest # << >> => Head(rest) \in Stage
    BY <1>1
<1>3. /\ next \in {"dead", "serving", "open", "probe"}
      /\ next = "open" => rest # << >> /\ Head(rest) = "store"
      /\ next = "probe" => rest # << >> /\ Head(rest) \in Sockets
    BY <1>2 DEF FirstStep, Stage
<1> HIDE DEF rest, next
<1>4. CASE next = "dead"
  <2>1. Advanced(p) = Gone("dead")
      BY <1>4 DEF Advanced, rest, next
  <2> QED
      BY <2>1, GoneFits
<1>5. CASE next # "dead"
  <2> DEFINE q == [p EXCEPT !.stages = rest, !.pc = next]
  <2>1. Advanced(p) = q
      BY <1>5 DEF Advanced, rest, next
  <2>2. /\ q \in ProcessRecord /\ q.stages = rest /\ q.pc = next /\ q.supported = p.supported
        /\ q.standing = p.standing
      BY <1>1, <1>3 DEF ProcessRecord
  <2> HIDE DEF q
  <2>3. StagesFit(q)
      BY <1>1, <1>3, <2>2 DEF StagesFit
  <2>4. Ahead(q) = {rest[i] : i \in DOMAIN rest}
      BY <2>2 DEF Ahead
  <2> QED
      BY <1>1, <1>3, <2>1, <2>2, <2>3, <2>4
<1> QED
    BY <1>4, <1>5

-----------------------------------------------------------------------------
(* Steps.                                                                  *)

\* The state as the steps need it.
LEMMA Typed ==
    ASSUME StartsInv
    PROVE  /\ server \in [Process -> ProcessRecord]
           /\ userVersion \in 0..LatestVersion /\ schema \in [1..LatestVersion -> Nat]
           /\ files \in [Sockets -> Process \union {0, NotASocket}]
           /\ Process \subseteq Nat \ {0} /\ NotASocket \notin Process /\ 0 \notin Process
    BY StartsAssumption DEF StartsInv, StartsTypeOK, ProcessRecord, Process, NotASocket

\* A step of one process keeps the invariant if its new state fits, it takes a path
\* only where its start has come to and knows nobody new but who listens.
LEMMA StepKeeps ==
    ASSUME StartsInv, NEW n \in Process, NEW p \in ProcessRecord,
           server' = [server EXCEPT ![n] = p], p.pc # "unborn",
           schema' \in [1..LatestVersion -> Nat], userVersion' \in 0..LatestVersion,
           userVersion <= userVersion', SchemaFitsVersion',
           StoreFits(p)', StagesFit(p),
           \A s \in Sockets : IsPast(n, s) => s \notin Ahead(p),
           Alive(n) \/ server[n].pc = "unborn" \/ p.pc = "dead",
           files' \in [Sockets -> Process \union {0, NotASocket}],
           \A s \in Sockets : \/ files'[s] \in {files[s], 0}
                              \/ files'[s] = n /\ s \in Ahead(server[n]) /\ s \notin Ahead(p),
           \A m \in Process, s \in Sockets : <<m, s>> \in p.standing =>
                /\ <<m, s>> \in server[n].standing \/ (server[n].pc = "unborn" /\ m \in Listener(s))
                /\ p.pc = "unlink" /\ s = Head(p.stages) => m \notin Listener(s),
           p.pc = "unlink" => files' = files,
           severed' \subseteq Process \X Process \X Sockets,
           \A k, m \in Process, s \in Sockets : <<k, m, s>> \in severed' =>
                <<k, m, s>> \in severed \/ (k = n /\ <<m, s>> \notin p.standing)
    PROVE  StartsInv'
<1>1. /\ server \in [Process -> ProcessRecord] /\ server' \in [Process -> ProcessRecord]
      /\ server'[n] = p /\ \A m \in Process \ {n} : server'[m] = server[m]
      /\ 0 \notin Process
    BY Typed
<1>2. StartsTypeOK'
    BY <1>1 DEF StartsTypeOK, ProcessRecord
<1>3. ASSUME NEW m \in Process PROVE StoreFits(server[m])' /\ StagesFit(server[m])'
  <2>1. CASE m = n
      BY <1>1, <2>1 DEF StoreFits, StagesFit
  <2>2. CASE m # n
    <3>1. StoreFits(server[m]) /\ StagesFit(server[m]) /\ server'[m] = server[m]
        BY <1>1, <2>2 DEF StartsInv
    <3>2. /\ server[m].supported \in Nat /\ server[m].found \in Nat
          /\ userVersion \in Nat /\ userVersion' \in Nat
      <4>1. server[m].supported \in Versions \union {0} /\ server[m].found \in 0..LatestVersion
          BY <1>1 DEF ProcessRecord
      <4>2. server[m].supported \in Nat /\ server[m].found \in Nat
          BY <4>1, LatestIsLatest
      <4>3. userVersion \in 0..LatestVersion /\ userVersion' \in 0..LatestVersion
          BY Typed
      <4> QED
          BY <4>2, <4>3, LatestIsLatest
    <3> QED
        BY <3>1, <3>2 DEF StoreFits, StagesFit
  <2> QED
      BY <2>1, <2>2
<1>4. ASSUME NEW m \in Process, NEW s \in Sockets, IsPast(m, s) PROVE IsPast(m, s)'
  <2>1. CASE m = n
      BY <1>1, <1>4, <2>1 DEF IsPast, Ahead
  <2>2. CASE m # n
      BY <1>1, <1>4, <2>2 DEF IsPast
  <2> QED
      BY <2>1, <2>2
<1>5. ASSUME NEW m \in Process, NEW s \in Sockets, IsPast(m, s), m \in Listener(s)'
      PROVE  m \in Listener(s)
  <2>1. files'[s] = m /\ Alive(m)'
      BY <1>5 DEF Listener
  <2>2. Alive(m)
      BY <1>1, <1>5, <2>1 DEF Alive, IsPast
  <2>3. files[s] = m
      BY <1>1, <1>5, <2>1 DEF IsPast, Ahead
  <2> QED
      BY <2>2, <2>3 DEF Listener
<1>6. PathsFit'
  <2>1. ASSUME NEW s \in Sockets, NEW m \in Process, files'[s] = m PROVE IsPast(m, s)'
    <3>1. CASE files'[s] = files[s]
      <4>1. IsPast(m, s)
          BY <2>1, <3>1 DEF StartsInv, PathsFit
      <4> QED
          BY <1>4, <4>1
    <3>2. CASE m = n /\ s \notin Ahead(p)
        BY <1>1, <3>2 DEF IsPast, Ahead
    <3> QED
        BY <1>1, <2>1, <3>1, <3>2
  <2>2. ASSUME NEW k \in Process, NEW m \in Process, NEW s \in Sockets,
               <<m, s>> \in server'[k].standing
        PROVE  /\ IsPast(m, s)'
               /\ server'[k].pc = "unlink" /\ s = Head(server'[k].stages) => m \notin Listener(s)'
    <3>1. CASE k # n
        BY <1>1, <1>4, <1>5, <2>2, <3>1 DEF StartsInv, PathsFit
    <3>2. CASE k = n
      <4>1. <<m, s>> \in p.standing
          BY <1>1, <2>2, <3>2
      <4>2. IsPast(m, s)
          BY <4>1 DEF StartsInv, PathsFit, Listener
      <4> QED
          BY <1>1, <1>4, <1>5, <3>2, <4>1, <4>2
    <3> QED
        BY <3>1, <3>2
  <2> QED
      BY <2>1, <2>2 DEF PathsFit
<1>7. NobodySevered'
  <2> SUFFICES ASSUME NEW k \in Process, NEW m \in Process, NEW s \in Sockets, <<k, m, s>> \in severed'
               PROVE  server'[k].pc # "unborn" /\ <<m, s>> \notin server'[k].standing
      BY DEF NobodySevered
  <2>1. CASE <<k, m, s>> \in severed
      BY <1>1, <2>1 DEF StartsInv, NobodySevered
  <2>2. CASE k = n /\ <<m, s>> \notin p.standing
      BY <1>1, <2>2
  <2> QED
      BY <2>1, <2>2
<1> QED
    BY <1>2, <1>3, <1>6, <1>7 DEF StartsInv

\* What a step of one process needs to know of it.
LEMMA ProcessFits ==
    ASSUME StartsInv, NEW n \in Process
    PROVE  /\ server[n] \in ProcessRecord /\ StoreFits(server[n]) /\ StagesFit(server[n])
           /\ server[n].supported \in Nat /\ server[n].found \in Nat /\ userVersion \in Nat
<1>1. server[n] \in ProcessRecord
    BY Typed
<1>2. server[n].supported \in Versions \union {0} /\ server[n].found \in 0..LatestVersion
    BY <1>1 DEF ProcessRecord
<1>3. userVersion \in 0..LatestVersion
    BY Typed
<1> QED
    BY <1>1, <1>2, <1>3, LatestIsLatest DEF StartsInv

\* A process dies, or refuses to start: its socket files stay.
LEMMA ExitsKeeps ==
    ASSUME StartsInv, NEW n \in Process, Exits(n), UNCHANGED <<schema, userVersion, files, severed>>
    PROVE  StartsInv'
<1> DEFINE p == Gone("dead")
<1>1. /\ p \in ProcessRecord /\ StagesFit(p) /\ p.pc = "dead" /\ p.supported = 0
      /\ p.standing = {} /\ Ahead(p) = {}
    BY GoneFits
<1>2. server' = [server EXCEPT ![n] = p]
    BY DEF Exits, Moves
<1> HIDE DEF p
<1>3. StoreFits(p)'
    BY <1>1 DEF StoreFits
<1>4. userVersion <= userVersion' /\ SchemaFitsVersion'
    BY Typed, LatestIsLatest DEF StartsInv, SchemaFitsVersion
<1>5. severed' \subseteq Process \X Process \X Sockets
    BY DEF StartsInv, StartsTypeOK
<1> QED
    BY <1>1, <1>2, <1>3, <1>4, <1>5, Typed, StepKeeps

\* A start has its stages before it, each socket once.
LEMMA StagesAreFit ==
    ASSUME NEW role
    PROVE  /\ Stages(role) \in Seq(Stage) /\ Stages(role) # << >> /\ Head(Stages(role)) = "store"
           /\ \A i, j \in DOMAIN Stages(role) :
                Stages(role)[i] = Stages(role)[j] /\ Stages(role)[i] # "store" => i = j
<1> USE DEF Stage, Sockets
<1>1. CASE Stages(role) = <<"store">>
    BY <1>1
<1>2. CASE Stages(role) = <<"store", "query">>
    BY <1>2
<1>3. CASE Stages(role) = <<"store", "refresh", "store", "query">>
    BY <1>3
<1>4. CASE Stages(role) = <<"store", "refresh", "control", "store", "query">>
    BY <1>4
<1> QED
    BY <1>1, <1>2, <1>3, <1>4 DEF Stages

\* A start knows who listens, and comes to no path that somebody is past.
LEMMA StartKeeps ==
    ASSUME StartsInv, NEW n \in Process, NEW role \in {"server", "backup"},
           NEW supported \in Versions, NEW policy \in Policies \union {{}},
           Start(n, role, supported, policy)
    PROVE  StartsInv'
<1> PICK standing : standing = {t \in Process \X Sockets : t[1] \in Listener(t[2])}
    OBVIOUS
<1> PICK p : p = [pc |-> "open", role |-> role, supported |-> supported, found |-> 0,
                  stages |-> Stages(role), policy |-> policy, standing |-> standing]
    OBVIOUS
<1>1. /\ server' = [server EXCEPT ![n] = p] /\ server[n].pc = "unborn"
      /\ UNCHANGED <<schema, userVersion, files, severed>>
    BY DEF Start, Moves
<1>2. p \in ProcessRecord
  <2>1. standing \subseteq Process \X Sockets
      OBVIOUS
  <2> QED
      BY <2>1, StagesAreFit, LatestIsLatest DEF ProcessRecord
<1>3. StagesFit(p) /\ StoreFits(p)'
    BY StagesAreFit DEF StagesFit, StoreFits
<1>4. \A m \in Process, s \in Sockets : <<m, s>> \in p.standing => m \in Listener(s)
    OBVIOUS
<1>5. p.pc = "open" /\ p.standing = standing
    OBVIOUS
<1>6. \A s \in Sockets : ~IsPast(n, s)
    BY <1>1 DEF IsPast
<1>7. userVersion <= userVersion' /\ SchemaFitsVersion'
    BY <1>1, Typed, LatestIsLatest DEF StartsInv, SchemaFitsVersion
<1>8. severed' \subseteq Process \X Process \X Sockets
    BY <1>1 DEF StartsInv, StartsTypeOK
<1> QED
    BY <1>1, <1>2, <1>3, <1>4, <1>5, <1>6, <1>7, <1>8, Typed, StepKeeps
-----------------------------------------------------------------------------
(* The steps of a start.                                                   *)

\* A process that goes on to its next stage keeps the invariant if its store is new
\* enough, its own socket is the only path it takes and nothing else changes.
LEMMA AdvanceKeeps ==
    ASSUME StartsInv, NEW n \in Process, NEW p \in ProcessRecord, StagesFit(p), p.stages # << >>,
           Alive(n), p.stages = server[n].stages, p.standing = server[n].standing,
           server' = [server EXCEPT ![n] = Advanced(p)],
           schema' \in [1..LatestVersion -> Nat], userVersion' \in 0..LatestVersion,
           userVersion <= userVersion', SchemaFitsVersion', p.supported <= userVersion',
           \/ files' = files
           \/ Head(p.stages) \in Sockets /\ files' = [files EXCEPT ![Head(p.stages)] = n],
           severed' = severed
    PROVE  StartsInv'
<1> DEFINE q == Advanced(p)
<1>1. /\ q \in ProcessRecord /\ StagesFit(q) /\ q.supported \in {0, p.supported}
      /\ q.pc \in {"dead", "serving", "open", "probe"} /\ q.standing \in {{}, p.standing}
      /\ Ahead(q) \subseteq Ahead(p)
      /\ Head(p.stages) # "store" => Head(p.stages) \notin Ahead(q)
    BY AdvancedFits
<1>2. server' = [server EXCEPT ![n] = q]
    OBVIOUS
<1> HIDE DEF q
<1>3. userVersion' \in Nat
    BY LatestIsLatest
<1>4. StoreFits(q)'
    BY <1>1, <1>3 DEF StoreFits
<1>5. Ahead(p) = Ahead(server[n]) /\ Head(p.stages) \in Ahead(p)
    BY RestOfStages DEF Ahead
<1>6. \A s \in Sockets : IsPast(n, s) => s \notin Ahead(q)
    BY <1>1, <1>5 DEF IsPast, Ahead
<1>7. /\ files' \in [Sockets -> Process \union {0, NotASocket}]
      /\ \A s \in Sockets : files'[s] = files[s] \/ (files'[s] = n /\ s \in Ahead(server[n]) /\ s \notin Ahead(q))
  <2>1. CASE files' = files
      BY <2>1, Typed
  <2>2. CASE Head(p.stages) \in Sockets /\ files' = [files EXCEPT ![Head(p.stages)] = n]
    <3>1. Head(p.stages) # "store"
        BY <2>2 DEF Sockets
    <3> QED
        BY <1>1, <1>5, <2>2, <3>1, Typed
  <2> QED
      BY <2>1, <2>2
<1>8. severed' \subseteq Process \X Process \X Sockets
    BY DEF StartsInv, StartsTypeOK
<1>9. \A s \in Sockets : \/ files'[s] \in {files[s], 0}
                         \/ files'[s] = n /\ s \in Ahead(server[n]) /\ s \notin Ahead(q)
    BY <1>7
<1>10. \A m \in Process, s \in Sockets : <<m, s>> \in q.standing =>
         /\ <<m, s>> \in server[n].standing \/ (server[n].pc = "unborn" /\ m \in Listener(s))
         /\ q.pc = "unlink" /\ s = Head(q.stages) => m \notin Listener(s)
    BY <1>1
<1>11. (q.pc = "unlink" => files' = files) /\ q.pc # "unborn"
    BY <1>1
<1>12. \A k, m \in Process, s \in Sockets : <<k, m, s>> \in severed' =>
         <<k, m, s>> \in severed \/ (k = n /\ <<m, s>> \notin q.standing)
    OBVIOUS
<1> QED
    BY <1>1, <1>2, <1>4, <1>6, <1>7, <1>8, <1>9, <1>10, <1>11, <1>12, StepKeeps

\* The version is read: the store is new enough, too new, or to be migrated.
LEMMA ReadVersionKeeps ==
    ASSUME StartsInv, NEW n \in Process, ReadVersion(n)
    PROVE  StartsInv'
<1>1. /\ server[n].pc = "open" /\ UNCHANGED <<schema, userVersion, files, severed>>
      /\ server[n] \in ProcessRecord /\ StagesFit(server[n]) /\ server[n].stages # << >> /\ Alive(n)
      /\ server[n].supported \in Nat /\ userVersion \in Nat
    BY ProcessFits DEF ReadVersion, StagesFit, Alive
<1>2. /\ userVersion <= userVersion' /\ SchemaFitsVersion'
      /\ schema' \in [1..LatestVersion -> Nat] /\ userVersion' \in 0..LatestVersion
      /\ files' \in [Sockets -> Process \union {0, NotASocket}]
      /\ severed' \subseteq Process \X Process \X Sockets
  <2>1. /\ schema' = schema /\ userVersion' = userVersion /\ files' = files /\ severed' = severed
      BY <1>1
  <2>2. SchemaFitsVersion'
      BY <2>1 DEF StartsInv, SchemaFitsVersion
  <2>3. severed' \subseteq Process \X Process \X Sockets
      BY <2>1 DEF StartsInv, StartsTypeOK
  <2> QED
      BY <1>1, <2>1, <2>2, <2>3, Typed
<1>3. CASE userVersion = server[n].supported /\ Moves(n, Advanced(server[n]))
  <2>1. server[n].supported <= userVersion'
      BY <1>1, <1>3
  <2> QED
      BY <1>1, <1>2, <1>3, <2>1, AdvanceKeeps DEF Moves
<1>4. CASE Exits(n)
    BY <1>1, <1>4, ExitsKeeps
<1>5. CASE /\ userVersion < server[n].supported
           /\ Moves(n, [server[n] EXCEPT !.pc = "migrate", !.found = userVersion])
  <2> PICK p : p = [server[n] EXCEPT !.pc = "migrate", !.found = userVersion]
      OBVIOUS
  <2>1. /\ p \in ProcessRecord /\ p.pc = "migrate" /\ p.found = userVersion
        /\ p.supported = server[n].supported /\ p.stages = server[n].stages
        /\ p.standing = server[n].standing
      BY <1>1, Typed DEF ProcessRecord
  <2>2. server' = [server EXCEPT ![n] = p]
      BY <1>5 DEF Moves
  <2>3. StoreFits(p)'
      BY <1>1, <1>2, <1>5, <2>1 DEF StoreFits
  <2>4. StagesFit(p)
      BY <1>1, <2>1 DEF StagesFit
  <2>5. \A s \in Sockets : IsPast(n, s) => s \notin Ahead(p)
      BY <2>1 DEF IsPast, Ahead
  <2> QED
      BY <1>1, <1>2, <2>1, <2>2, <2>3, <2>4, <2>5, StepKeeps
<1> QED
    BY <1>1, <1>3, <1>4, <1>5 DEF ReadVersion

\* The steps of the schema that are missing from the version a process has found
\* are missing indeed, or the migration is undone.
LEMMA MigrateKeeps ==
    ASSUME StartsInv, NEW n \in Process, Migrate(n)
    PROVE  StartsInv'
<1> DEFINE missing == (server[n].found + 1)..server[n].supported
<1>1. /\ server[n].pc = "migrate" /\ UNCHANGED <<files, severed>>
      /\ server[n] \in ProcessRecord /\ StagesFit(server[n]) /\ server[n].stages # << >> /\ Alive(n)
      /\ server[n].found <= userVersion /\ server[n].found < server[n].supported
      /\ server[n].supported \in Nat /\ server[n].found \in Nat /\ userVersion \in Nat
    BY ProcessFits DEF Migrate, StagesFit, StoreFits, Alive
<1>2. CASE Exits(n) /\ UNCHANGED <<schema, userVersion>>
    BY <1>1, <1>2, ExitsKeeps
<1>3. CASE /\ \A v \in missing : ~(schema[v] > 0)
           /\ schema' = [v \in DOMAIN schema |-> IF v \in missing THEN schema[v] + 1 ELSE schema[v]]
           /\ userVersion' = server[n].supported
           /\ Moves(n, Advanced([server[n] EXCEPT !.found = 0]))
  <2>1. /\ schema \in [1..LatestVersion -> Nat] /\ LatestVersion \in Nat
        /\ \A v \in 1..LatestVersion : schema[v] = (IF v <= userVersion THEN 1 ELSE 0)
      BY Typed, LatestIsLatest DEF StartsInv, SchemaFitsVersion
  <2>2. server[n].supported \in 1..LatestVersion
    <3>1. server[n].supported \in Versions \union {0}
        BY <1>1 DEF ProcessRecord
    <3>2. server[n].supported # 0
        BY <1>1
    <3> QED
        BY <3>1, <3>2, LatestIsLatest
  <2>3. server[n].found = userVersion
    <3>1. SUFFICES ASSUME server[n].found < userVersion PROVE FALSE
        BY <1>1
    <3>2. server[n].found + 1 \in missing /\ server[n].found + 1 \in 1..LatestVersion
        BY <1>1, <2>1, <2>2
    <3>3. schema[server[n].found + 1] = 1
        BY <1>1, <2>1, <3>1, <3>2
    <3> QED
        BY <1>3, <3>2, <3>3
  <2>4. schema' \in [1..LatestVersion -> Nat]
      BY <1>3, <2>1
  <2>5. SchemaFitsVersion'
    <3> SUFFICES ASSUME NEW v \in 1..LatestVersion
                 PROVE  schema'[v] = (IF v <= userVersion' THEN 1 ELSE 0)
        BY <2>4 DEF SchemaFitsVersion
    <3>1. schema'[v] = IF v \in missing THEN schema[v] + 1 ELSE schema[v]
        BY <1>3, <2>1
    <3> QED
        BY <1>1, <1>3, <2>1, <2>3, <3>1
  <2> PICK p : p = [server[n] EXCEPT !.found = 0]
      OBVIOUS
  <2>0. Moves(n, Advanced(p))
      BY <1>3
  <2>6. /\ p \in ProcessRecord /\ p.pc = server[n].pc /\ p.supported = server[n].supported
        /\ p.stages = server[n].stages /\ p.standing = server[n].standing
    <3>1. 0 \in 0..LatestVersion
        BY <2>1
    <3> QED
        BY <1>1, <3>1 DEF ProcessRecord
  <2>7. server' = [server EXCEPT ![n] = Advanced(p)]
      BY <2>0 DEF Moves
  <2>8. StagesFit(p)
      BY <1>1, <2>6 DEF StagesFit
  <2>9. userVersion' \in 0..LatestVersion /\ userVersion <= userVersion' /\ p.supported <= userVersion'
      BY <1>1, <1>3, <2>1, <2>2, <2>3, <2>6
  <2> QED
      BY <1>1, <2>4, <2>5, <2>6, <2>7, <2>8, <2>9, AdvanceKeeps
<1> QED
    BY <1>1, <1>2, <1>3 DEF Migrate

\* A process with a socket to take goes on with it: only its own step changes.
LEMMA AtPathKeeps ==
    ASSUME StartsInv, NEW n \in Process, server[n].pc \in {"probe", "unlink"},
           NEW pc \in {"unlink", "bind"}, Moves(n, [server[n] EXCEPT !.pc = pc]),
           UNCHANGED <<schema, userVersion>>,
           NEW s \in Sockets, s = Head(server[n].stages),
           \/ files' = files /\ severed' = severed /\ (pc = "unlink" => Listener(s) = {})
           \/ /\ pc = "bind" /\ server[n].pc = "unlink"
              /\ files' = [files EXCEPT ![s] = 0]
              /\ severed' = severed \union {<<n, m, s>> : m \in Listener(s)}
    PROVE  StartsInv'
<1> PICK p : p = [server[n] EXCEPT !.pc = pc]
    OBVIOUS
<1>1. /\ server[n] \in ProcessRecord /\ StagesFit(server[n]) /\ StoreFits(server[n]) /\ Alive(n)
      /\ server[n].stages # << >> /\ s \in Sockets /\ userVersion \in Nat
      /\ server[n].supported <= userVersion
    BY ProcessFits DEF StagesFit, StoreFits, Alive
<1>2. /\ p \in ProcessRecord /\ p.pc = pc /\ p.supported = server[n].supported
      /\ p.stages = server[n].stages /\ p.standing = server[n].standing
    BY <1>1 DEF ProcessRecord
<1>3. server' = [server EXCEPT ![n] = p]
    BY DEF Moves
<1>4. StoreFits(p)' /\ StagesFit(p)
    BY <1>1, <1>2 DEF StoreFits, StagesFit
<1>5. \A t \in Sockets : IsPast(n, t) => t \notin Ahead(p)
    BY <1>2 DEF IsPast, Ahead
<1>6. /\ userVersion <= userVersion' /\ SchemaFitsVersion'
      /\ schema' \in [1..LatestVersion -> Nat] /\ userVersion' \in 0..LatestVersion
    BY <1>1, Typed DEF StartsInv, SchemaFitsVersion
<1>7. /\ files' \in [Sockets -> Process \union {0, NotASocket}]
      /\ \A t \in Sockets : files'[t] \in {files[t], 0}
    BY <1>1, Typed
<1>8. /\ severed' \subseteq Process \X Process \X Sockets
      /\ \A k, m \in Process, t \in Sockets : <<k, m, t>> \in severed' =>
           <<k, m, t>> \in severed \/ (k = n /\ <<m, t>> \notin p.standing)
  <2>1. severed \subseteq Process \X Process \X Sockets
      BY DEF StartsInv, StartsTypeOK
  <2>2. CASE severed' = severed
      BY <2>1, <2>2
  <2>3. CASE server[n].pc = "unlink" /\ severed' = severed \union {<<n, m, s>> : m \in Listener(s)}
    <3>1. \A m \in Listener(s) : m \in Process /\ <<m, s>> \notin server[n].standing
        BY <1>1, <2>3 DEF StartsInv, PathsFit, Listener
    <3>2. severed' \subseteq Process \X Process \X Sockets
      <4>1. \A m \in Listener(s) : <<n, m, s>> \in Process \X Process \X Sockets
          BY <3>1
      <4> QED
          BY <2>1, <2>3, <4>1
    <3>3. ASSUME NEW k \in Process, NEW m \in Process, NEW t \in Sockets, <<k, m, t>> \in severed',
                 <<k, m, t>> \notin severed
          PROVE  k = n /\ <<m, t>> \notin p.standing
        BY <1>2, <2>3, <3>1, <3>3
    <3> QED
        BY <3>2, <3>3
  <2> QED
      BY <2>2, <2>3
<1> QED
    BY <1>1, <1>2, <1>3, <1>4, <1>5, <1>6, <1>7, <1>8, StepKeeps

\* Probing removes nothing, and lets nothing be removed from who listens.
LEMMA ProbeKeeps ==
    ASSUME StartsInv, NEW n \in Process, Probe(n)
    PROVE  StartsInv'
<1>1. server[n].pc = "probe" /\ UNCHANGED <<schema, userVersion, files, severed>>
    BY DEF Probe
<1> PICK s \in Sockets : s = Head(server[n].stages)
    BY <1>1, ProcessFits DEF StagesFit
<1>2. \/ Moves(n, [server[n] EXCEPT !.pc = "bind"])
      \/ Exits(n)
      \/ Listener(s) = {} /\ Moves(n, [server[n] EXCEPT !.pc = "unlink"])
    BY DEF Probe
<1>3. CASE Moves(n, [server[n] EXCEPT !.pc = "bind"])
    BY <1>1, <1>3, AtPathKeeps
<1>4. CASE Exits(n)
    BY <1>1, <1>4, ExitsKeeps
<1>5. CASE Listener(s) = {} /\ Moves(n, [server[n] EXCEPT !.pc = "unlink"])
    BY <1>1, <1>5, AtPathKeeps
<1> QED
    BY <1>2, <1>3, <1>4, <1>5

\* Who listens where a socket is removed came after the start that removes it.
LEMMA UnlinkKeeps ==
    ASSUME StartsInv, NEW n \in Process, Unlink(n)
    PROVE  StartsInv'
<1>1. server[n].pc = "unlink" /\ UNCHANGED <<schema, userVersion>>
    BY DEF Unlink
<1> PICK s \in Sockets : s = Head(server[n].stages)
    BY <1>1, ProcessFits DEF StagesFit
<1>2. CASE Exits(n) /\ UNCHANGED <<files, severed>>
    BY <1>1, <1>2, ExitsKeeps
<1>3. CASE /\ files' = [files EXCEPT ![s] = 0]
           /\ severed' = severed \union {<<n, m, s>> : m \in Listener(s)}
           /\ Moves(n, [server[n] EXCEPT !.pc = "bind"])
    BY <1>1, <1>3, AtPathKeeps
<1> QED
    BY <1>2, <1>3 DEF Unlink

\* Who binds a path is past it from then on.
LEMMA BindKeeps ==
    ASSUME StartsInv, NEW n \in Process, Bind(n)
    PROVE  StartsInv'
<1> DEFINE s == Head(server[n].stages)
<1>1. /\ server[n].pc = "bind" /\ UNCHANGED <<schema, userVersion, severed>>
      /\ server[n] \in ProcessRecord /\ StagesFit(server[n]) /\ Alive(n)
      /\ server[n].stages # << >> /\ s \in Sockets /\ userVersion \in Nat
      /\ server[n].supported <= userVersion
    BY ProcessFits DEF Bind, StagesFit, StoreFits, Alive
<1>2. CASE Exits(n) /\ UNCHANGED files
    BY <1>1, <1>2, ExitsKeeps
<1>3. CASE files' = [files EXCEPT ![s] = n] /\ Moves(n, Advanced(server[n]))
  <2>1. /\ userVersion <= userVersion' /\ SchemaFitsVersion' /\ server[n].supported <= userVersion'
        /\ schema' \in [1..LatestVersion -> Nat] /\ userVersion' \in 0..LatestVersion
      BY <1>1, Typed DEF StartsInv, SchemaFitsVersion
  <2> QED
      BY <1>1, <1>3, <2>1, AdvanceKeeps DEF Moves
<1> QED
    BY <1>2, <1>3 DEF Bind
\* A process dies at any step.
LEMMA CrashKeeps ==
    ASSUME StartsInv, NEW n \in Process, Crash(n)
    PROVE  StartsInv'
<1>1. Exits(n) /\ UNCHANGED <<schema, userVersion, files, severed>>
    BY DEF Crash
<1> QED
    BY <1>1, ExitsKeeps

\* What changes no process and no file keeps the invariant.
LEMMA StartsUntouched ==
    ASSUME StartsInv, UNCHANGED <<schema, userVersion, files, server, severed>>
    PROVE  StartsInv'
<1>1. \A n \in Process : Alive(n)' <=> Alive(n)
    BY DEF Alive
<1>2. \A s \in Sockets : Listener(s)' = Listener(s)
    BY <1>1 DEF Listener
<1>3. StartsTypeOK' /\ SchemaFitsVersion' /\ NobodySevered'
    BY DEF StartsInv, StartsTypeOK, SchemaFitsVersion, NobodySevered
<1>4. \A p : StoreFits(p)' <=> StoreFits(p)
    BY DEF StoreFits
<1>5. \A n \in Process : StoreFits(server[n])' /\ StagesFit(server[n])'
    BY <1>4 DEF StartsInv, StoreFits, StagesFit
<1>6. \A m \in Process, s \in Sockets : IsPast(m, s)' <=> IsPast(m, s)
    BY DEF IsPast
<1>7. PathsFit'
    BY <1>2, <1>6 DEF StartsInv, PathsFit
<1> QED
    BY <1>3, <1>5, <1>7 DEF StartsInv

\* Nothing has started and there is no schema yet.
LEMMA StartsInitFits ==
    ASSUME StartsInit
    PROVE  StartsInv
<1> DEFINE p == Gone("unborn")
<1>1. /\ p \in ProcessRecord /\ StagesFit(p) /\ p.pc = "unborn" /\ p.standing = {}
    BY GoneFits
<1>2. server = [n \in Process |-> p]
    BY DEF StartsInit
<1> HIDE DEF p
<1>3. \A n \in Process : server[n] = p
    BY <1>2
<1>4. StartsTypeOK
  <2>1. server \in [Process -> ProcessRecord]
      BY <1>1, <1>2
  <2>2. /\ schema \in [1..LatestVersion -> Nat] /\ userVersion \in 0..LatestVersion
        /\ severed \subseteq Process \X Process \X Sockets
      BY LatestIsLatest DEF StartsInit
  <2>3. files \in [Sockets -> Process \union {0, NotASocket}]
      BY DEF StartsInit
  <2> QED
      BY <2>1, <2>2, <2>3 DEF StartsTypeOK, ProcessRecord
<1>5. SchemaFitsVersion
    BY LatestIsLatest DEF StartsInit, SchemaFitsVersion
<1>6. \A n \in Process : StoreFits(server[n]) /\ StagesFit(server[n])
    BY <1>1, <1>3 DEF StoreFits
<1>7. PathsFit
  <2>1. \A s \in Sockets : files[s] \notin Process
      BY StartsAssumption DEF StartsInit, Process, NotASocket
  <2> QED
      BY <1>1, <1>3, <2>1 DEF PathsFit
<1>8. NobodySevered
    BY DEF StartsInit, NobodySevered
<1> QED
    BY <1>4, <1>5, <1>6, <1>7, <1>8 DEF StartsInv

\* Starts are the only steps that touch the store or the sockets; a call touches a
\* process when its handler panics and takes the process with it.
LEMMA NextKeepsStarts ==
    ASSUME StartsInv, [Next]_vars
    PROVE  StartsInv'
<1>1. CASE KeysMove
    BY <1>1, StartsUntouched DEF KeysMove, startVars
<1>2. CASE StartsMove
  <2>1. ASSUME NEW n \in Process, NEW v \in Versions, NEW p \in Policies, Start(n, "server", v, p)
        PROVE  StartsInv'
      BY <2>1, StartKeeps
  <2>2. ASSUME NEW n \in Process, NEW v \in Versions, Start(n, "backup", v, {})
        PROVE  StartsInv'
      BY <2>2, StartKeeps
  <2>3. ASSUME NEW n \in Process, StartStep(n) PROVE StartsInv'
      BY <2>3, ReadVersionKeeps, MigrateKeeps, ProbeKeeps, UnlinkKeeps, BindKeeps DEF StartStep
  <2>4. ASSUME NEW n \in Process, Crash(n) PROVE StartsInv'
      BY <2>4, CrashKeeps
  <2> QED
      BY <1>2, <2>1, <2>2, <2>3, <2>4 DEF StartsMove
<1>3. CASE CallsMove
  <2>1. UNCHANGED <<schema, userVersion, files, severed>>
      BY <1>3 DEF CallsMove
  <2>2. CASE UNCHANGED server
      BY <2>1, <2>2, StartsUntouched
  <2>3. CASE HandlerPanics
    <3>1. UNCHANGED server \/ Exits(call.server)
        BY <2>3 DEF HandlerPanics
    <3>2. CASE call.server \in Process /\ Exits(call.server)
        BY <2>1, <3>2, ExitsKeeps
    <3>3. CASE call.server \notin Process /\ Exits(call.server)
      <4>1. server' = server
          BY <3>3, Typed DEF Exits, Moves
      <4> QED
          BY <2>1, <4>1, StartsUntouched
    <3> QED
        BY <2>2, <3>1, <3>2, <3>3
  <2> QED
      BY <1>3, <2>2, <2>3 DEF CallsMove
<1>4. CASE UNCHANGED vars
    BY <1>4, StartsUntouched DEF vars, startVars
<1> QED
    BY <1>1, <1>2, <1>3, <1>4 DEF Next
\* However many servers and backups of whatever versions start at once, and die at
\* whatever step (ServerStart.StartsInv): every step of the schema is applied once
\* and the version tells which, a process goes on only with a store at least as new
\* as its binary, and no start takes a path from a process that was listening there
\* when the start began (migrate, prepare_socket_path and the binds of serve.rs).
THEOREM StartsAreSafe == Spec => []StartsInv
<1>1. Init => StartsInv
    BY StartsInitFits DEF Init
<1>2. StartsInv /\ [Next]_vars => StartsInv'
    BY NextKeepsStarts
<1> QED
    BY <1>1, <1>2, PTL DEF Spec
=============================================================================
