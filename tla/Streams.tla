--------------------------------- MODULE Streams ---------------------------------
(***************************************************************************)
(* Two sessions of this engine connected to each other, and everything a   *)
(* frame passes on its way: the outbound channel, the write task, the      *)
(* socket, the read task and the inbound channel (spawn_io_tasks,          *)
(* read_task and write_task of src/transport.rs).  A session task that     *)
(* sends more than fits awaits room inside its handler (transmit of        *)
(* src/session.rs) and does nothing else meanwhile.                        *)
(***************************************************************************)
EXTENDS Naturals, Sequences

CONSTANTS
    Capacity,       \* of a channel, 256 in the code
    SocketBuffer,   \* frames that fit into the socket's buffers
    Asking,         \* the sides that send a ResendRequest
    Replay          \* how many messages it asks for

Side == {"left", "right"}
Other(s) == IF s = "left" THEN "right" ELSE "left"

VARIABLES
    out,        \* Side -> the outbound channel
    wire,       \* Side -> what the side has written to the socket
    in,         \* Side -> the inbound channel
    todo,       \* Side -> frames the current handler still has to send
    got,        \* Side -> history: the frames the session has taken, in order
    quiet,      \* Side -> nothing was taken for 2.4 HeartBtInt
    up          \* the connection

channels == <<out, wire, in>>
vars == <<channels, todo, got, quiet, up>>

Frames(s, n) == [i \in 1..n |-> <<s, i>>]

Init == /\ out = [s \in Side |-> <<>>]
        /\ wire = [s \in Side |-> <<>>]
        /\ in = [s \in Side |-> IF Other(s) \in Asking THEN <<"resend_request">> ELSE <<>>]
        /\ todo = [s \in Side |-> <<>>]
        /\ got = [s \in Side |-> <<>>]
        /\ quiet = [s \in Side |-> FALSE]
        /\ up = TRUE

AtLoop(s) == up /\ todo[s] = <<>>

\* on_inbound: a ResendRequest is answered inside the handler.
Take(s) ==
    /\ AtLoop(s) /\ in[s] # <<>>
    /\ in' = [in EXCEPT ![s] = Tail(@)]
    /\ IF Head(in[s]) = "resend_request"
       THEN todo' = [todo EXCEPT ![s] = Frames(s, Replay)] /\ UNCHANGED got
       ELSE got' = [got EXCEPT ![s] = Append(@, Head(in[s]))] /\ UNCHANGED todo
    /\ quiet' = [quiet EXCEPT ![s] = FALSE]
    /\ UNCHANGED <<out, wire, up>>

\* Mutant: a frame that finds no room is dropped.
TransmitOrDrop(s) ==
    /\ up /\ todo[s] # <<>>
    /\ out' = [out EXCEPT ![s] = IF Len(@) < Capacity THEN Append(@, Head(todo[s])) ELSE @]
    /\ todo' = [todo EXCEPT ![s] = Tail(@)]
    /\ UNCHANGED <<wire, in, got, quiet, up>>

\* transmit: out.send(raw).await
Transmit(s) ==
    /\ up /\ todo[s] # <<>>
    /\ Len(out[s]) < Capacity
    /\ out' = [out EXCEPT ![s] = Append(@, Head(todo[s]))]
    /\ todo' = [todo EXCEPT ![s] = Tail(@)]
    /\ UNCHANGED <<wire, in, got, quiet, up>>

WriteTask(s) ==
    /\ up /\ out[s] # <<>>
    /\ Len(wire[s]) < SocketBuffer
    /\ wire' = [wire EXCEPT ![s] = Append(@, Head(out[s]))]
    /\ out' = [out EXCEPT ![s] = Tail(@)]
    /\ UNCHANGED <<in, todo, got, quiet, up>>

ReadTask(s) ==
    /\ up /\ wire[Other(s)] # <<>>
    /\ Len(in[s]) < Capacity
    /\ in' = [in EXCEPT ![s] = Append(@, Head(wire[Other(s)]))]
    /\ wire' = [wire EXCEPT ![Other(s)] = Tail(@)]
    /\ UNCHANGED <<out, todo, got, quiet, up>>

\* 2.4 HeartBtInt pass before a side that still has frames to take takes one.
Quiet(s) ==
    /\ up /\ ~quiet[s]
    /\ todo[s] # <<>> \/ in[s] # <<>>
    /\ quiet' = [quiet EXCEPT ![s] = TRUE]
    /\ UNCHANGED <<channels, todo, got, up>>

\* on_protocol_deadline, in the select! of the run loop.
PeerTimesOut(s) ==
    /\ AtLoop(s) /\ quiet[s]
    /\ up' = FALSE
    /\ UNCHANGED <<channels, todo, got, quiet>>

Next == \E s \in Side : \/ Take(s) \/ Transmit(s) \/ WriteTask(s) \/ ReadTask(s)
                        \/ Quiet(s) \/ PeerTimesOut(s)

\* Every task runs, and time passes for a side that is stuck.
Fairness ==
    \A s \in Side : /\ WF_vars(Take(s)) /\ WF_vars(Transmit(s))
                    /\ WF_vars(WriteTask(s)) /\ WF_vars(ReadTask(s))
                    /\ WF_vars(Quiet(s)) /\ WF_vars(PeerTimesOut(s))

Spec == Init /\ [][Next]_vars /\ Fairness

--------------------------------------------------------------------------------

\* A replay of any length gets through or the connection is given up: a slow
\* reader slows its own session down and nothing is lost.
ReplayArrives ==
    \A s \in Asking : <>(~up \/ got[s] = Frames(Other(s), Replay))
================================================================================
