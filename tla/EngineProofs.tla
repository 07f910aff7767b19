------------------------------ MODULE EngineProofs ------------------------------
(***************************************************************************)
(* What Engine::start has built when it returns, for configurations of any *)
(* number of sessions, ports and dictionaries, whatever failed or was      *)
(* dropped before.                                                         *)
(***************************************************************************)
EXTENDS Engine, TLAPS

\* Settings::session_configs yields a list in which every session accepts or
\* initiates.
ConfigsTyped ==
    \A c \in Configs : /\ Len(c) \in Nat /\ DOMAIN c = 1..Len(c)
                       /\ \A i \in DOMAIN c : c[i].kind \in {"acceptor", "initiator"}

\* The configurations start is done with.
Done == 1 .. next - 1

Typed ==
    /\ configs \in Configs
    /\ next \in 1 .. Len(configs) + 1
    /\ engine \in {"binding", "running"} => next = Len(configs) + 1
    /\ sessions \subseteq DOMAIN configs
    /\ DOMAIN dictionary \subseteq DOMAIN configs

\* While start is at work and until the engine is given up, its handles are
\* those of the sessions built so far, each under its key ...
ByKey ==
    engine \in {"spawning", "binding", "running"} =>
        /\ \A i \in Done : configs[i].key \in DOMAIN handles /\ handles[configs[i].key] = i
        /\ engine = "spawning" => sessions \subseteq Done

\* ... and each is dialled, or registered with its port.
ByPort ==
    engine \in {"spawning", "binding", "running"} =>
        \A i \in Done :
            IF configs[i].kind = "initiator" THEN i \in dialling
            ELSE configs[i].port \in DOMAIN acceptors /\ i \in acceptors[configs[i].port]

Listening == engine = "running" => DOMAIN acceptors \subseteq listening

\* A cached dictionary is filed under what it was loaded from.
CacheTrue == \A k \in DOMAIN cache : cache[k] = k

EInv == Typed /\ ByKey /\ ByPort /\ Listening /\ CacheTrue /\ KeysUnique /\ DictionaryAsConfigured

--------------------------------------------------------------------------------
\* start hands out the dictionaries that were asked for, from the cache or fresh.
LEMMA DictionaryLoaded ==
  ASSUME CacheTrue, NEW d
  PROVE  Given(d) = Wanted(d) /\ \A k \in DOMAIN CacheAfter(d) : CacheAfter(d)[k] = k
  <1> DEFINE w == Wanted(d)
  <1>1. w = <<w[1], w[2]>> /\ w[1] = d BY DEF Wanted
  <1>2. \A k \in DOMAIN CacheAfter(d) : CacheAfter(d)[k] = k BY DEF CacheAfter, CacheTrue
  <1>3. \A i \in 1..2 : w[i] # <<>> => w[i] \in DOMAIN CacheAfter(d)
    BY <1>1 DEF CacheAfter, Cached
  <1>4. \A i \in 1..2 : Given(d)[i] = w[i] BY <1>2, <1>3 DEF Given
  <1>5. Given(d) = <<Given(d)[1], Given(d)[2]>> BY DEF Given
  <1> QED BY <1>1, <1>2, <1>4, <1>5

LEMMA InitEngine == ASSUME ConfigsTyped PROVE Init => EInv
  <1> SUFFICES ASSUME Init PROVE EInv OBVIOUS
  <1>1. configs \in Configs /\ Len(configs) \in Nat /\ Done = {} BY DEF Init, ConfigsTyped, Done
  <1>2. DOMAIN Empty = {} BY DEF Empty
  <1> QED BY <1>1, <1>2 DEF Init, EInv, Typed, ByKey, ByPort, Listening, CacheTrue, KeysUnique,
     DictionaryAsConfigured

\* One session more.
LEMMA SpawnEngine == ASSUME ConfigsTyped, EInv, SpawnSession PROVE EInv'
  <1> DEFINE cfg == configs[next]
  <1>1. /\ engine = "spawning" /\ engine' = engine /\ next \in 1..Len(configs) /\ next' = next + 1
        /\ configs' = configs /\ listening' = listening
        /\ cfg.key \notin DOMAIN handles
        /\ cache' = CacheAfter(cfg.dict) /\ dictionary' = Put(dictionary, next, Given(cfg.dict))
        /\ handles' = Put(handles, cfg.key, next) /\ sessions' = sessions \cup {next}
        /\ dialling' = Dials(cfg) /\ acceptors' = Registered(cfg)
    BY DEF SpawnSession, IsDuplicate, EInv, Typed, ConfigsTyped
  <1>2. /\ Len(configs) \in Nat /\ DOMAIN configs = 1..Len(configs) /\ configs \in Configs
        /\ next \in DOMAIN configs
        /\ cfg.kind \in {"acceptor", "initiator"} /\ Done' = Done \cup {next} /\ next \notin Done
        /\ Done \subseteq DOMAIN configs
    BY <1>1 DEF EInv, Typed, ConfigsTyped, Done
  <1>3. cfg = configs[next] OBVIOUS
  <1> HIDE DEF cfg
  <1>4. /\ DOMAIN handles' = DOMAIN handles \cup {cfg.key} /\ handles'[cfg.key] = next
        /\ \A k \in DOMAIN handles : k # cfg.key => handles'[k] = handles[k]
    <2> DEFINE k == cfg.key
    <2> HIDE DEF k
    <2>1. handles' = Put(handles, k, next) BY <1>1 DEF k
    <2> QED BY <2>1 DEF Put, k
  <1>5. /\ DOMAIN dictionary' = DOMAIN dictionary \cup {next} /\ dictionary'[next] = Given(cfg.dict)
        /\ \A i \in DOMAIN dictionary : i # next => dictionary'[i] = dictionary[i]
    <2> DEFINE g == Given(cfg.dict)
    <2> HIDE DEF g
    <2>1. dictionary' = Put(dictionary, next, g) BY <1>1 DEF g
    <2> QED BY <2>1 DEF Put, g
  <1>6. Typed'
    BY <1>1, <1>2, <1>5 DEF EInv, Typed
  <1>7. \A i \in Done : configs[i].key \in DOMAIN handles /\ handles[configs[i].key] = i
                        /\ configs[i].key # cfg.key
    BY <1>1 DEF EInv, ByKey
  <1>8. ByKey'
    <2>1. \A i \in Done : configs[i].key \in DOMAIN handles' /\ handles'[configs[i].key] = i
      BY <1>4, <1>7
    <2>2. \A i \in Done' : configs'[i].key \in DOMAIN handles' /\ handles'[configs'[i].key] = i
      BY <1>1, <1>2, <1>3, <1>4, <2>1
    <2>3. sessions' \subseteq Done' BY <1>1, <1>2 DEF EInv, ByKey
    <2> QED BY <2>2, <2>3 DEF ByKey
  <1>9. ByPort'
    <2> DEFINE port == cfg.port
               more == {next} \cup UNION {acceptors[p] : p \in DOMAIN acceptors \cap {port}}
    <2>1. cfg.kind = "acceptor" => acceptors' = Put(acceptors, port, more)
      BY <1>1 DEF Registered
    <2>2. cfg.kind # "acceptor" => acceptors' = acceptors BY <1>1 DEF Registered
    <2>3. next \in more /\ (port \in DOMAIN acceptors => acceptors[port] \subseteq more) OBVIOUS
    <2> HIDE DEF more, port
    <2>4. cfg.kind = "acceptor" =>
            /\ DOMAIN acceptors' = DOMAIN acceptors \cup {port} /\ acceptors'[port] = more
            /\ \A p \in DOMAIN acceptors : p # port => acceptors'[p] = acceptors[p]
      BY <2>1 DEF Put
    <2>5. \A p \in DOMAIN acceptors : p \in DOMAIN acceptors' /\ acceptors[p] \subseteq acceptors'[p]
      BY <2>2, <2>3, <2>4
    <2>6. cfg.kind = "acceptor" => cfg.port \in DOMAIN acceptors' /\ next \in acceptors'[cfg.port]
      BY <2>3, <2>4 DEF port
    <2>7. dialling \subseteq dialling' /\ (cfg.kind = "initiator" => next \in dialling')
      BY <1>1 DEF Dials
    <2>8. \A i \in Done : IF configs[i].kind = "initiator" THEN i \in dialling
            ELSE configs[i].port \in DOMAIN acceptors /\ i \in acceptors[configs[i].port]
      BY <1>1 DEF EInv, ByPort
    <2>9. \A i \in Done' : IF configs'[i].kind = "initiator" THEN i \in dialling'
            ELSE configs'[i].port \in DOMAIN acceptors' /\ i \in acceptors'[configs'[i].port]
      BY <1>1, <1>2, <1>3, <2>5, <2>6, <2>7, <2>8
    <2> QED BY <2>9 DEF ByPort
  <1>10. KeysUnique'
    <2>1. \A i \in sessions : i \in Done BY <1>1 DEF EInv, ByKey
    <2> QED BY <1>1, <1>3, <1>7, <2>1 DEF EInv, KeysUnique
  <1>11. Given(cfg.dict) = Wanted(cfg.dict) /\ CacheTrue'
    <2> DEFINE d == cfg.dict
    <2> HIDE DEF d
    <2>1. Given(d) = Wanted(d) /\ \A k \in DOMAIN CacheAfter(d) : CacheAfter(d)[k] = k
      BY DictionaryLoaded DEF EInv
    <2>2. cache' = CacheAfter(d) BY <1>1 DEF d
    <2> QED BY <2>1, <2>2 DEF CacheTrue, d
  <1>12. DictionaryAsConfigured'
    <2> SUFFICES ASSUME NEW i \in DOMAIN dictionary' PROVE dictionary'[i] = Wanted(configs[i].dict)
      BY <1>1 DEF DictionaryAsConfigured, Wanted
    <2>1. CASE i = next BY <1>3, <1>5, <1>11, <2>1
    <2>2. CASE i # next BY <1>5, <2>2 DEF EInv, DictionaryAsConfigured
    <2> QED BY <2>1, <2>2
  <1> QED BY <1>1, <1>6, <1>8, <1>9, <1>10, <1>11, <1>12 DEF EInv, Listening

\* start gives up: the session it was at may have been spawned already.
LEMMA FailEngine == ASSUME ConfigsTyped, EInv, FailSession \/ FailBind PROVE EInv'
  <1>1. /\ engine' = "failed" /\ configs' = configs /\ next' = next /\ cache' = cache
        /\ dictionary' = dictionary
        /\ engine \in {"spawning", "binding"}
        /\ \/ sessions' = sessions
           \/ /\ engine = "spawning" /\ next <= Len(configs)
              /\ configs[next].key \notin DOMAIN handles /\ sessions' = sessions \cup {next}
    BY DEF FailSession, FailBind, Fail, IsDuplicate
  <1>2. Len(configs) \in Nat /\ DOMAIN configs = 1..Len(configs) BY DEF EInv, Typed, ConfigsTyped
  <1>3. engine = "spawning" =>
           \A i \in sessions : configs[i].key \in DOMAIN handles /\ i \in DOMAIN configs
    BY DEF EInv, ByKey, Typed
  <1>4. KeysUnique' BY <1>1, <1>3 DEF EInv, KeysUnique
  <1>5. Typed' BY <1>1, <1>2 DEF EInv, Typed
  <1> QED BY <1>1, <1>4, <1>5 DEF EInv, ByKey, ByPort, Listening, CacheTrue, DictionaryAsConfigured

\* Every other step leaves the registries as they are, or ends the engine.
LEMMA StepEngine == ASSUME ConfigsTyped, EInv, [Next]_vars PROVE EInv'
  <1>1. CASE SpawnSession BY <1>1, SpawnEngine
  <1>2. CASE FailSession \/ FailBind BY <1>2, FailEngine
  <1>3. CASE BeginBinding
    <2>1. Len(configs) \in Nat BY DEF EInv, Typed, ConfigsTyped
    <2>2. next = Len(configs) + 1 BY <1>3, <2>1 DEF BeginBinding, EInv, Typed
    <2> QED BY <1>3, <2>2 DEF BeginBinding, EInv, Typed, ByKey, ByPort, Listening, CacheTrue, KeysUnique,
       DictionaryAsConfigured, Done
  <1>4. CASE Started
    BY <1>4 DEF Started, EInv, Typed, ByKey, ByPort, Listening, CacheTrue, KeysUnique,
       DictionaryAsConfigured, Done
  <1>5. CASE \E p \in DOMAIN acceptors : Bind(p)
    BY <1>5 DEF Bind, EInv, Typed, ByKey, ByPort, Listening, CacheTrue, KeysUnique,
       DictionaryAsConfigured, Done
  <1>6. CASE \E i \in sessions : EngineDropped(i)
    BY <1>6 DEF EngineDropped, EInv, Typed, ByKey, ByPort, Listening, CacheTrue, KeysUnique,
       DictionaryAsConfigured, Done
  <1>7. CASE DropEngine \/ Stop
    BY <1>7 DEF DropEngine, Stop, EInv, Typed, ByKey, ByPort, Listening, CacheTrue, KeysUnique,
       DictionaryAsConfigured, Done
  <1>8. CASE Stopped \/ \E k \in DOMAIN handles : StopSession(k)
    BY <1>8 DEF Stopped, StopSession, EInv, Typed, ByKey, ByPort, Listening, CacheTrue, KeysUnique,
       DictionaryAsConfigured, Done
  <1>9. CASE SessionStops
    BY <1>9 DEF SessionStops, EInv, Typed, ByKey, ByPort, Listening, CacheTrue, KeysUnique,
       DictionaryAsConfigured, Done
  <1>10. CASE UNCHANGED vars
    BY <1>10 DEF vars, EInv, Typed, ByKey, ByPort, Listening, CacheTrue, KeysUnique,
       DictionaryAsConfigured, Done
  <1> QED BY <1>1, <1>2, <1>3, <1>4, <1>5, <1>6, <1>7, <1>8, <1>9, <1>10 DEF Next, Running, Stopping

\* When start has returned every session is reached by its key and by its dial
\* loop or the listener of its port; no two sessions that run at the same time, also
\* after a start that failed or an engine that was dropped, have the same key;
\* and the cache gives every session the dictionaries of its own settings.
THEOREM StartCorrect == ASSUME ConfigsTyped PROVE Spec => []EngineStarts
  <1>1. EInv => EngineStarts
    <2> SUFFICES ASSUME EInv, engine = "running", NEW i \in DOMAIN configs
                 PROVE  /\ handles[configs[i].key] = i
                        /\ IF configs[i].kind = "initiator" THEN i \in dialling
                           ELSE configs[i].port \in listening /\ i \in acceptors[configs[i].port]
      BY DEF EInv, EngineStarts, AllReachable
    <2>1. i \in Done BY DEF EInv, Typed, ConfigsTyped, Done
    <2> QED BY <2>1 DEF EInv, ByKey, ByPort, Listening
  <1>2. Init => EInv BY InitEngine
  <1>3. EInv /\ [Next]_vars => EInv' BY StepEngine
  <1> QED BY <1>1, <1>2, <1>3, PTL DEF Spec
================================================================================
