--------------------------------- MODULE Engine ---------------------------------
(***************************************************************************)
(* src/engine.rs: Engine::start builds the sessions of a configuration one *)
(* after the other and then binds the acceptor ports; Engine::stop aborts  *)
(* the I/O tasks and stops the sessions one after the other.               *)
(*                                                                         *)
(* A session task ends when it takes Stop, or when nobody holds a handle   *)
(* of it any more.  Transport models what happens in between.              *)
(***************************************************************************)
EXTENDS Naturals, Sequences, FiniteSets, Functions, SequencesExt

CONSTANTS
    Configs     \* the configurations: sequences of session settings

\* A session's settings: its key (BeginString, split at its dots, and CompIDs),
\* connection type, accept port, and dictionaries: <<>>, <<path>> or
\* <<transport, app>>.

VARIABLES
    configs,        \* settings.session_configs()
    engine,         \* "spawning", "binding", "running", "failed", "dropped",
                    \* "stopping", "stopped"
    next,           \* the configuration start is at
    handles,        \* key -> index of its session
    cache,          \* the dictionaries loaded so far, by cache key
    dictionary,     \* index -> the dictionaries the session was given
    acceptors,      \* port -> indices registered for it
    listening,      \* the ports whose run_acceptor is running
    dialling,       \* the sessions whose run_initiator is running
    sessions,       \* the sessions whose task is running
    stopping        \* the session Engine::stop waits for, or 0

vars == <<configs, engine, next, handles, cache, dictionary, acceptors, listening, dialling,
          sessions, stopping>>

\* SessionId::file_prefix as the dotted parts of a file name, and
\* Path::with_extension, which replaces what follows the last dot.
file_prefix(key) == Append(Front(key.begin), <<Last(key.begin), key.sender, key.target>>)
with_extension(name, ext) == Append(IF Len(name) = 1 THEN name ELSE Front(name), ext)
StoreFile(key) == with_extension(file_prefix(key), "body")

Empty == [x \in {} |-> x]
Put(f, x, v) == [y \in DOMAIN f \cup {x} |-> IF y = x THEN v ELSE f[y]]

Init == /\ configs \in Configs
        /\ engine = "spawning"
        /\ next = 1
        /\ handles = Empty
        /\ cache = Empty
        /\ dictionary = Empty
        /\ acceptors = Empty
        /\ listening = {}
        /\ dialling = {}
        /\ sessions = {}
        /\ stopping = 0

--------------------------------------------------------------------------------
\* The dictionaries for application and for admin messages.
Wanted(d) == IF Len(d) = 2 THEN <<d, <<d[1]>>>> ELSE <<d, d>>

Cached(d) == \A k \in {Wanted(d)[1], Wanted(d)[2]} \ {<<>>} : k \in DOMAIN cache

\* Mutant: the merged dictionary is filed under the transport's path.
CacheUnderTransport(d) ==
    IF Cached(d) THEN cache
    ELSE [k \in DOMAIN cache \cup {d, <<d[1]>>} |-> IF k \in {d, <<d[1]>>} THEN d ELSE cache[k]]

CacheAfter(d) ==
    IF Cached(d) THEN cache
    ELSE [k \in DOMAIN cache \cup {d, Wanted(d)[2]} |->
            IF k \in {d, Wanted(d)[2]} THEN k ELSE cache[k]]

Given(d) == [i \in 1..2 |-> IF Wanted(d)[i] = <<>> THEN <<>> ELSE CacheAfter(d)[Wanted(d)[i]]]

\* acceptors_by_port.entry(port).or_insert_with(..).insert(key, handle)
Registered(cfg) ==
    IF cfg.kind = "acceptor"
    THEN Put(acceptors, cfg.port,
             {next} \cup UNION {acceptors[p] : p \in DOMAIN acceptors \cap {cfg.port}})
    ELSE acceptors

Dials(cfg) == IF cfg.kind = "initiator" THEN dialling \cup {next} ELSE dialling

IsDuplicate(cfg) == cfg.key \in DOMAIN handles

\* One turn of the loop of start.  The dictionaries, the store, the log and
\* the TLS settings may each turn out to be unusable (FailSession).
SpawnSession ==
    /\ engine = "spawning" /\ next <= Len(configs)
    /\ LET cfg == configs[next] IN
        /\ ~IsDuplicate(cfg)
        /\ cache' = CacheAfter(cfg.dict)
        /\ dictionary' = Put(dictionary, next, Given(cfg.dict))
        /\ handles' = Put(handles, cfg.key, next)
        /\ sessions' = sessions \cup {next}
        /\ dialling' = Dials(cfg)
        /\ acceptors' = Registered(cfg)
    /\ next' = next + 1
    /\ UNCHANGED <<configs, engine, listening, stopping>>

\* start returns an error: its handles and registries are dropped, the tasks
\* it spawned are not.
Fail == /\ engine' = "failed"
        /\ handles' = Empty
        /\ acceptors' = [p \in DOMAIN acceptors \cap listening |-> acceptors[p]]
        /\ UNCHANGED <<configs, next, cache, dictionary, listening, dialling, stopping>>

FailSession ==
    /\ engine = "spawning" /\ next <= Len(configs)
    /\ Fail
    /\ \/ UNCHANGED sessions
       \/ ~IsDuplicate(configs[next]) /\ sessions' = sessions \cup {next}

BeginBinding ==
    /\ engine = "spawning" /\ next > Len(configs)
    /\ engine' = "binding"
    /\ UNCHANGED <<configs, next, handles, cache, dictionary, acceptors, listening, dialling,
                   sessions, stopping>>

Bind(port) ==
    /\ engine = "binding"
    /\ port \in DOMAIN acceptors \ listening
    /\ listening' = listening \cup {port}
    /\ UNCHANGED <<configs, engine, next, handles, cache, dictionary, acceptors, dialling,
                   sessions, stopping>>

FailBind == /\ engine = "binding"
            /\ DOMAIN acceptors \ listening # {}
            /\ Fail
            /\ UNCHANGED sessions

Started == /\ engine = "binding"
           /\ DOMAIN acceptors \subseteq listening
           /\ engine' = "running"
           /\ UNCHANGED <<configs, next, handles, cache, dictionary, acceptors, listening,
                          dialling, sessions, stopping>>

--------------------------------------------------------------------------------
\* The handles of a session are held by the engine or by start, by its
\* registry and by its dial loop.
Held(i) == \/ \E k \in DOMAIN handles : handles[k] = i
           \/ \E p \in DOMAIN acceptors : i \in acceptors[p]
           \/ i \in dialling

\* run, None: "engine dropped".
EngineDropped(i) ==
    /\ i \in sessions /\ ~Held(i)
    /\ sessions' = sessions \ {i}
    /\ UNCHANGED <<configs, engine, next, handles, cache, dictionary, acceptors, listening,
                   dialling, stopping>>

\* The Engine value goes out of scope without stop.
DropEngine ==
    /\ engine = "running"
    /\ engine' = "dropped"
    /\ handles' = Empty
    /\ UNCHANGED <<configs, next, cache, dictionary, acceptors, listening, dialling, sessions,
                   stopping>>

\* Mutant: the dial loops go on.
StopKeepsDialling ==
    /\ engine = "running"
    /\ engine' = "stopping"
    /\ listening' = {}
    /\ acceptors' = Empty
    /\ UNCHANGED <<configs, next, handles, cache, dictionary, dialling, sessions, stopping>>

\* stop: every I/O task is aborted ...
Stop == /\ engine = "running"
        /\ engine' = "stopping"
        /\ listening' = {}
        /\ acceptors' = Empty
        /\ dialling' = {}
        /\ UNCHANGED <<configs, next, handles, cache, dictionary, sessions, stopping>>

\* ... then one session after the other, in any order, is told to stop and
\* waited for.
StopSession(k) ==
    /\ engine = "stopping" /\ stopping = 0
    /\ k \in DOMAIN handles
    /\ handles' = [j \in DOMAIN handles \ {k} |-> handles[j]]
    /\ stopping' = handles[k]
    /\ UNCHANGED <<configs, engine, next, cache, dictionary, acceptors, listening, dialling,
                   sessions>>

SessionStops ==
    /\ stopping # 0
    /\ sessions' = sessions \ {stopping}
    /\ stopping' = 0
    /\ UNCHANGED <<configs, engine, next, handles, cache, dictionary, acceptors, listening,
                   dialling>>

Stopped ==
    /\ engine = "stopping" /\ stopping = 0 /\ handles = Empty
    /\ engine' = "stopped"
    /\ UNCHANGED <<configs, next, handles, cache, dictionary, acceptors, listening, dialling,
                   sessions, stopping>>

Running == \/ SpawnSession \/ BeginBinding \/ Started
           \/ \E p \in DOMAIN acceptors : Bind(p)
Stopping == SessionStops \/ Stopped \/ \E k \in DOMAIN handles : StopSession(k)

Next == \/ Running \/ FailSession \/ FailBind
        \/ \E i \in sessions : EngineDropped(i)
        \/ DropEngine \/ Stop \/ Stopping

\* Transport shows that a session answers Stop when its peer reads.
Fairness == /\ WF_vars(Running) /\ WF_vars(Stopping)
            /\ WF_vars(\E i \in sessions : EngineDropped(i))

Spec == Init /\ [][Next]_vars /\ Fairness

--------------------------------------------------------------------------------
\* While the engine runs every session can be reached: by its key, and an
\* acceptor's through the port it was configured for.
AllReachable ==
    engine = "running" =>
        \A i \in DOMAIN configs :
            /\ handles[configs[i].key] = i
            /\ IF configs[i].kind = "initiator" THEN i \in dialling
               ELSE configs[i].port \in listening /\ i \in acceptors[configs[i].port]

\* No two running sessions have the same key: they would share store files.
KeysUnique ==
    \A i, j \in sessions : configs[i].key = configs[j].key => i = j

\* No two running sessions write their numbers and messages to the same files
\* (session_id.rs, file_prefix; store.rs, "<prefix>.body").
FilesDisjoint ==
    \A i, j \in sessions : StoreFile(configs[i].key) = StoreFile(configs[j].key) => i = j

\* The cache hands every session the dictionaries of its own settings.
DictionaryAsConfigured ==
    \A i \in DOMAIN dictionary : dictionary[i] = Wanted(configs[i].dict)

\* What start promises together.
EngineStarts == AllReachable /\ KeysUnique /\ DictionaryAsConfigured

\* stop returns, and leaves neither a session nor a task that would bring up
\* a connection for one.
StopsEverything ==
    (engine = "stopping") ~>
        (engine = "stopped" /\ sessions = {} /\ dialling = {} /\ listening = {})

\* A session ends when its engine is gone, also after a start that failed
\* (session.rs, run: "engine dropped"), unless an I/O task, which only stop
\* aborts, still holds it: its dial loop or the listener of its port.
EndsWithEngine ==
    (engine \in {"failed", "dropped"}) ~>
        \A i \in sessions : i \in dialling \/ configs[i].port \in listening
================================================================================
