-------------------------------- MODULE MCRuntime --------------------------------
(***************************************************************************)
(* The tasks around the sessions, for TLC: an initiator's transport, an    *)
(* acceptor's, the channels and tasks of one connection on which one side  *)
(* or both ask for a replay, and the engine that starts and stops all of   *)
(* them.  A behaviour runs one of them; the others stay where they start.  *)
(***************************************************************************)
EXTENDS Transport

VARIABLES
    part,       \* which of them runs
    handler2, expired2, reply2, dial2, dialled2, cmds2, task2, blocked2, attached2, disc2, engine2,
    out, wire, in, todo, got, quiet, up,
    configs, phase, next, handles, cache, dictionary, acceptors, listening, dialling, tasks, stopping

acceptor_vars == <<handler2, expired2, reply2, dial2, dialled2, cmds2, task2, blocked2, attached2,
                   disc2, engine2>>
stream_vars == <<out, wire, in, todo, got, quiet, up>>
engine_vars == <<configs, phase, next, handles, cache, dictionary, acceptors, listening, dialling,
                 tasks, stopping>>

--------------------------------------------------------------------------------
AcceptorSide == INSTANCE Transport WITH
    IsInitiator <- FALSE, Conn <- {1, 2},
    handler <- handler2, expired <- expired2, reply <- reply2, dial <- dial2,
    dialled <- dialled2, cmds <- cmds2, task <- task2, blocked <- blocked2,
    attached <- attached2, disc <- disc2, engine <- engine2

\* A replay longer than the queues of both directions together, to one side;
\* one that fits, to both.
OneWay == INSTANCE Streams WITH Capacity <- 2, SocketBuffer <- 2, Asking <- {"left"}, Replay <- 8
BothWays == INSTANCE Streams WITH
    Capacity <- 2, SocketBuffer <- 2, Asking <- {"left", "right"}, Replay <- 5

--------------------------------------------------------------------------------
\* Configurations of up to three sessions.
SessionKey(minor, target) == [begin |-> <<"FIX", "4", minor>>, sender |-> "US", target |-> target]
k1 == SessionKey("4", "A")
k2 == SessionKey("4", "B")
k3 == SessionKey("2", "A")

Acceptor(k, p, d) == [key |-> k, kind |-> "acceptor", port |-> p, dict |-> d]
Initiator(k, d) == [key |-> k, kind |-> "initiator", port |-> 0, dict |-> d]

Some == {Acceptor(k, p, <<"t", "a">>) : k \in {k1, k2}, p \in {1, 2}}
        \cup {Initiator(k1, <<"t">>), Initiator(k3, <<>>), Initiator(k3, <<"t", "b">>)}
MCConfigs == UNION {[1..n -> Some] : n \in 1..3}

TheEngine == INSTANCE Engine WITH Configs <- MCConfigs, engine <- phase, sessions <- tasks

--------------------------------------------------------------------------------
RuntimeInit ==
    /\ part \in {"initiator", "acceptor", "one_way", "both_ways", "engine"}
    /\ Init /\ AcceptorSide!Init /\ TheEngine!Init
    /\ IF part = "both_ways" THEN BothWays!Init ELSE OneWay!Init
    /\ part # "engine" => configs = <<Initiator(k1, <<"t">>)>>

RuntimeNext ==
    /\ UNCHANGED part
    /\ \/ /\ part = "initiator" /\ Next
          /\ UNCHANGED <<acceptor_vars, stream_vars, engine_vars>>
       \/ /\ part = "acceptor" /\ AcceptorSide!Next
          /\ UNCHANGED <<vars, stream_vars, engine_vars>>
       \/ /\ \/ part = "one_way" /\ OneWay!Next
             \/ part = "both_ways" /\ BothWays!Next
          /\ UNCHANGED <<vars, acceptor_vars, engine_vars>>
       \/ /\ part = "engine" /\ TheEngine!Next
          /\ UNCHANGED <<vars, acceptor_vars, stream_vars>>

\* The fairness of the one that runs.
RuntimeSpec ==
    /\ RuntimeInit
    /\ [][RuntimeNext]_<<part, vars, acceptor_vars, stream_vars, engine_vars>>
    /\ \/ part = "initiator" /\ Fairness /\ WF_vars(Unblock)
       \/ part = "acceptor" /\ AcceptorSide!Fairness /\ WF_acceptor_vars(AcceptorSide!Unblock)
       \/ part = "one_way" /\ OneWay!Fairness
       \/ part = "both_ways" /\ BothWays!Fairness
       \/ part = "engine" /\ TheEngine!Fairness

--------------------------------------------------------------------------------
\* Nothing waits for ever for a session that does not answer: the dial loop
\* goes on when the session has let go of its connection, and every
\* handle_connection of an acceptor ends, its socket with the session or dropped.
ConnectionsEnd == /\ part = "initiator" => Redials
                  /\ part = "acceptor" => AcceptorSide!HandlerEnds

\* Engine::stop returns, around an initiator and around an acceptor.
EveryStopReturns == /\ part = "initiator" => StopReturns
                    /\ part = "acceptor" => AcceptorSide!StopReturns

\* A replay that was asked for arrives whole and in order, though the queues are
\* full, or the connection is given up.
ReplayArrives == /\ part = "one_way" => OneWay!ReplayArrives
                 /\ part = "both_ways" => BothWays!ReplayArrives

\* When Engine::start has returned, every session is reached by its key, and by
\* its dial loop or the listener of its port; no two have the same identity; and
\* each has the dictionary of its own settings, though the loaded ones are shared.
EngineStarts == TheEngine!EngineStarts

\* Engine::stop leaves no session, listener or dial loop behind, and a session
\* whose engine is dropped ends, unless a dial loop or a listener still holds it.
EngineEnds == part = "engine" => TheEngine!StopsEverything /\ TheEngine!EndsWithEngine

\* No two sessions of an engine use the same files.
FilesDisjoint == TheEngine!FilesDisjoint
================================================================================
