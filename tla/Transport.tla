-------------------------------- MODULE Transport --------------------------------
(***************************************************************************)
(* src/transport.rs around one session: the handlers of accepted           *)
(* connections, the dial loop of an initiator, the command channel between *)
(* them and the session task, and the end of all of them when the engine   *)
(* stops (Engine::stop of src/engine.rs, Stop in the run loop of           *)
(* src/session.rs).                                                        *)
(*                                                                         *)
(* What the session does with a connection is left open: it may lose it or *)
(* give it up at any moment (Disconnect).  A connection that nobody holds  *)
(* any more is closed: dropping the channels ends its tasks.               *)
(***************************************************************************)
EXTENDS Naturals, Sequences

CONSTANTS
    Conn,           \* the TCP connections that may come up, a set of numbers
    IsInitiator,    \* the session dials; otherwise it accepts
    UseTls,         \* SocketUseSSL
    CmdCapacity     \* of the command channel, 64 in the code

ASSUME TransportAssumption ==
    /\ Conn \subseteq Nat \ {0}
    /\ IsInitiator \in BOOLEAN
    /\ UseTls \in BOOLEAN
    /\ CmdCapacity \in Nat \ {0}

None == 0

VARIABLES
    handler,    \* Conn -> where handle_connection is
    expired,    \* Conn -> the two seconds of the handler are over
    reply,      \* Conn -> the answer to its Status
    dial,       \* where run_initiator is; "listen" for run_acceptor
    dialled,    \* the connection it dialled last
    cmds,       \* the command channel
    task,       \* the session task
    blocked,    \* it awaits room in the outbound channel
    attached,   \* the connection the session uses (outbound)
    disc,       \* the connection whose disconnected sender it holds
    engine      \* Engine::stop

handlers == <<handler, expired, reply>>
dialler == <<dial, dialled>>
session == <<task, blocked, attached, disc>>
vars == <<handlers, dialler, cmds, session, engine>>

Status(c) == [op |-> "status", conn |-> c]
Attach(c) == [op |-> "attach", conn |-> c]
Stop == [op |-> "stop", conn |-> None]

Room == Len(cmds) < CmdCapacity
Queued(c) == \E i \in DOMAIN cmds : cmds[i] = Attach(c)

Init == /\ handler = [c \in Conn |-> "none"]
        /\ expired = [c \in Conn |-> FALSE]
        /\ reply = [c \in Conn |-> "none"]
        /\ dial = IF IsInitiator THEN "dial" ELSE "listen"
        /\ dialled = None
        /\ cmds = <<>>
        /\ task = "loop"
        /\ blocked = FALSE
        /\ attached = None
        /\ disc = None
        /\ engine = "running"

--------------------------------------------------------------------------------
(***************************************************************************)
(* handle_connection.  The listener is aborted when the engine stops; the  *)
(* handlers it spawned are not.                                            *)
(***************************************************************************)
Fresh(c) == handler[c] = "none" /\ \A d \in Conn : d < c => handler[d] # "none"

Accept(c) ==
    /\ dial = "listen"
    /\ Fresh(c)
    /\ handler' = [handler EXCEPT ![c] = IF UseTls THEN "tls" ELSE "first"]
    /\ UNCHANGED <<expired, reply, dialler, cmds, session, engine>>

\* accept_connection: the handshake ends when the peer lets it; no timeout.
Handshake(c) ==
    /\ handler[c] = "tls"
    /\ \E next \in {"first", "refused"} : handler' = [handler EXCEPT ![c] = next]
    /\ UNCHANGED <<expired, reply, dialler, cmds, session, engine>>

\* The first frame names a session of this port; its handler polls it.
FirstFrame(c) ==
    /\ handler[c] = "first"
    /\ handler' = [handler EXCEPT ![c] = "ask"]
    /\ UNCHANGED <<expired, reply, dialler, cmds, session, engine>>

\* The peer closes, the frame does not parse or names no session, or thirty
\* seconds pass.
NoFirstFrame(c) ==
    /\ handler[c] = "first"
    /\ handler' = [handler EXCEPT ![c] = "refused"]
    /\ UNCHANGED <<expired, reply, dialler, cmds, session, engine>>

Expire(c) ==
    /\ handler[c] \in {"ask", "asked", "nap"} /\ ~expired[c]
    /\ expired' = [expired EXCEPT ![c] = TRUE]
    /\ UNCHANGED <<handler, reply, dialler, cmds, session, engine>>

\* handle.status(): the send fails when the task is gone.
Ask(c) ==
    /\ handler[c] = "ask"
    /\ \/ /\ task = "stopped"
          /\ handler' = [handler EXCEPT ![c] = "refused"]
          /\ UNCHANGED <<cmds, reply>>
       \/ /\ task # "stopped" /\ Room
          /\ cmds' = Append(cmds, Status(c))
          /\ reply' = [reply EXCEPT ![c] = "none"]
          /\ handler' = [handler EXCEPT ![c] = "asked"]
    /\ UNCHANGED <<expired, dialler, session, engine>>

Answered(c) ==
    /\ handler[c] = "asked" /\ reply[c] # "none"
    /\ handler' = [handler EXCEPT ![c] =
                    CASE reply[c] = "free" -> "attach"
                      [] reply[c] = "gone" -> "refused"
                      [] OTHER -> IF expired[c] THEN "refused" ELSE "nap"]
    /\ UNCHANGED <<expired, reply, dialler, cmds, session, engine>>

Wake(c) ==
    /\ handler[c] = "nap"
    /\ handler' = [handler EXCEPT ![c] = "ask"]
    /\ UNCHANGED <<expired, reply, dialler, cmds, session, engine>>

\* The I/O tasks and the relay are spawned and the connection handed over.
HandOver(c) ==
    /\ handler[c] = "attach"
    /\ \/ /\ task = "stopped"
          /\ handler' = [handler EXCEPT ![c] = "refused"]
          /\ UNCHANGED cmds
       \/ /\ task # "stopped" /\ Room
          /\ cmds' = Append(cmds, Attach(c))
          /\ handler' = [handler EXCEPT ![c] = "done"]
    /\ UNCHANGED <<expired, reply, dialler, session, engine>>

--------------------------------------------------------------------------------
(***************************************************************************)
(* run_initiator and attach_initiator.                                     *)
(***************************************************************************)
\* TcpStream::connect
Connect == /\ dial = "dial"
           /\ dialled + 1 \in Conn
           /\ dialled' = dialled + 1
           /\ dial' = IF UseTls THEN "tls" ELSE "attach"
           /\ UNCHANGED <<handlers, cmds, session, engine>>

\* The TLS handshake ends when the server lets it; no timeout.
ConnectTls == /\ dial = "tls"
              /\ dial' \in {"attach", "sleep"}
              /\ UNCHANGED <<handlers, dialled, cmds, session, engine>>

ConnectFails == /\ dial = "dial"
                /\ dial' = "sleep"
                /\ UNCHANGED <<handlers, dialled, cmds, session, engine>>

\* Mutant: the loop does not wait for the session to let go.
AttachAndSleep ==
    /\ dial = "attach"
    /\ \/ /\ task = "stopped"
          /\ dial' = "returned"
          /\ UNCHANGED cmds
       \/ /\ task # "stopped" /\ Room
          /\ cmds' = Append(cmds, Attach(dialled))
          /\ dial' = "sleep"
    /\ UNCHANGED <<handlers, dialled, session, engine>>

AttachInitiator ==
    /\ dial = "attach"
    /\ \/ /\ task = "stopped"
          /\ dial' = "returned"
          /\ UNCHANGED cmds
       \/ /\ task # "stopped" /\ Room
          /\ cmds' = Append(cmds, Attach(dialled))
          /\ dial' = "wait"
    /\ UNCHANGED <<handlers, dialled, session, engine>>

\* disc_rx resolves once the sender is dropped.
Detached == /\ dial = "wait"
            /\ disc # dialled /\ ~Queued(dialled)
            /\ dial' = "sleep"
            /\ UNCHANGED <<handlers, dialled, cmds, session, engine>>

Redial == /\ dial = "sleep"
          /\ dial' = "dial"
          /\ UNCHANGED <<handlers, dialled, cmds, session, engine>>

--------------------------------------------------------------------------------
(***************************************************************************)
(* The session task.                                                       *)
(***************************************************************************)
\* Mutant: the sender is kept.
LetGoKeepsSender == attached' = None /\ disc' = disc

\* disconnect
LetGo == attached' = None /\ disc' = None

Take(op) == /\ task = "loop" /\ ~blocked
            /\ cmds # <<>> /\ Head(cmds).op = op
            /\ cmds' = Tail(cmds)

TakeStatus ==
    /\ Take("status")
    /\ reply' = [reply EXCEPT ![Head(cmds).conn] =
                    IF attached = None THEN "free" ELSE "connected"]
    /\ UNCHANGED <<handler, expired, dialler, session, engine>>

\* on_attach; a connection that is refused is dropped.
TakeAttach ==
    /\ Take("attach")
    /\ IF attached = None
       THEN /\ attached' = Head(cmds).conn
            /\ disc' = IF IsInitiator THEN Head(cmds).conn ELSE None
       ELSE UNCHANGED <<attached, disc>>
    /\ UNCHANGED <<handlers, dialler, task, blocked, engine>>

\* The peer closes, a timeout, a protocol error, a failed write.
Disconnect ==
    /\ task = "loop" /\ ~blocked /\ attached # None
    /\ LetGo
    /\ UNCHANGED <<handlers, dialler, cmds, task, blocked, engine>>

\* A handler awaits room in the outbound channel of a peer that does not read.
Block ==
    /\ task # "stopped" /\ ~blocked /\ attached # None
    /\ blocked' = TRUE
    /\ UNCHANGED <<handlers, dialler, cmds, task, attached, disc, engine>>

Unblock ==
    /\ blocked
    /\ blocked' = FALSE
    /\ UNCHANGED <<handlers, dialler, cmds, task, attached, disc, engine>>

\* Stop: Logout, then inbound messages until the peer answers or the timeout.
TakeStop ==
    /\ Take("stop")
    /\ task' = "stopping"
    /\ UNCHANGED <<handlers, dialler, blocked, attached, disc, engine>>

StopInbound ==
    /\ task = "stopping" /\ ~blocked /\ attached # None
    /\ LetGo \/ UNCHANGED <<attached, disc>>
    /\ UNCHANGED <<handlers, dialler, cmds, task, blocked, engine>>

\* Mutant: only an answer of the peer ends the wait.
StopAnswered ==
    /\ task = "stopping" /\ ~blocked /\ attached = None
    /\ LetGo
    /\ task' = "stopped"
    /\ cmds' = <<>>
    /\ reply' = [c \in Conn |-> IF handler[c] = "asked" /\ reply[c] = "none"
                                THEN "gone" ELSE reply[c]]
    /\ engine' = "stopped"
    /\ UNCHANGED <<handler, expired, dialler, blocked>>

\* The task returns; what is left in the channel is dropped with it.
StopEnds ==
    /\ task = "stopping" /\ ~blocked
    /\ LetGo
    /\ task' = "stopped"
    /\ cmds' = <<>>
    /\ reply' = [c \in Conn |-> IF handler[c] = "asked" /\ reply[c] = "none"
                                THEN "gone" ELSE reply[c]]
    /\ engine' = "stopped"
    /\ UNCHANGED <<handler, expired, dialler, blocked>>

\* Engine::stop: abort the I/O task, which ends at its next await, then send
\* Stop and wait.
AbortIo ==
    /\ engine = "running"
    /\ engine' = "aborted"
    /\ UNCHANGED <<handlers, dialler, cmds, session>>

Aborted ==
    /\ engine # "running" /\ dial \notin {"returned", "aborted"}
    /\ dial' = "aborted"
    /\ UNCHANGED <<handlers, dialled, cmds, session, engine>>

SendStop ==
    /\ engine = "aborted" /\ Room
    /\ engine' = "waiting"
    /\ cmds' = Append(cmds, Stop)
    /\ UNCHANGED <<handlers, dialler, session>>

--------------------------------------------------------------------------------
Handle(c) == FirstFrame(c) \/ NoFirstFrame(c) \/ Ask(c) \/ Answered(c) \/ Wake(c) \/ HandOver(c)
Dial == Connect \/ ConnectFails \/ AttachInitiator \/ Detached \/ Redial
Serve == TakeStatus \/ TakeAttach \/ TakeStop \/ StopInbound \/ StopEnds
StopEngine == AbortIo \/ Aborted \/ SendStop

Next == \/ \E c \in Conn : Accept(c) \/ Handshake(c) \/ Handle(c) \/ Expire(c)
        \/ Dial \/ ConnectTls
        \/ Serve \/ Disconnect \/ Block \/ Unblock
        \/ StopEngine

(***************************************************************************)
(* The runtime runs every task that can go on, sleeps end, and deadlines   *)
(* pass.  select! polls its branches in random order and the channels hand *)
(* out room in the order it was asked for, so a command is taken and a     *)
(* sender gets its place even if the task is often busy otherwise: strong  *)
(* fairness.  Nothing obliges a connection to end (Disconnect), the engine *)
(* to stop (AbortIo), a peer to go on with a handshake (Handshake,         *)
(* ConnectTls) or, in SpecSilent, to read (Unblock).                       *)
(***************************************************************************)
Fairness ==
    /\ \A c \in Conn : SF_vars(Handle(c)) /\ WF_vars(Expire(c))
    /\ SF_vars(Dial)
    /\ SF_vars(TakeStatus \/ TakeAttach \/ TakeStop)
    /\ SF_vars(StopEnds)
    /\ WF_vars(Aborted)
    /\ SF_vars(SendStop)

SpecSilent == Init /\ [][Next]_vars /\ Fairness
Spec == SpecSilent /\ WF_vars(Unblock)

--------------------------------------------------------------------------------
TypeOK ==
    /\ handler \in [Conn -> {"none", "tls", "first", "ask", "asked", "nap", "attach", "done",
                         "refused"}]
    /\ reply \in [Conn -> {"none", "free", "connected", "gone"}]
    /\ dial \in {"listen", "dial", "tls", "attach", "wait", "sleep", "returned", "aborted"}
    /\ Len(cmds) <= CmdCapacity
    /\ task \in {"loop", "stopping", "stopped"}
    /\ blocked \in BOOLEAN
    /\ attached \in Conn \cup {None}
    /\ disc \in {None, attached}

\* An initiator's connection is never refused: the loop dials again only when
\* the session has let go of the connection before.
NeverRefused ==
    IsInitiator => \A c \in Conn : Queued(c) => attached = None

\* Every accepted connection ends up with the session or is closed: its
\* handler returns, whatever the session does meanwhile.
HandlerEnds ==
    \A c \in Conn : handler[c] = "first" ~> handler[c] \in {"done", "refused"}

\* The dial loop is never left waiting for a session that has let go.
Redials == (dial = "wait" /\ attached = None) ~> (dial # "wait" \/ attached # None)

\* Engine::stop returns although connections come up and peers keep sending
\* until the end.
StopReturns == (engine # "running") ~> (engine = "stopped")
================================================================================
