---------------------------------- MODULE Pair ----------------------------------
(***************************************************************************)
(* Two sessions of SessionCore, an initiator and an acceptor, connected by *)
(* TCP: one queue of frames in each direction, in order and without loss,  *)
(* until the connection breaks and takes what is in flight with it.  The   *)
(* initiator dials again (src/transport.rs); each side keeps its store.    *)
(*                                                                         *)
(* What a handler sends reaches the peer when it has ended.  The           *)
(* applications accept everything.                                         *)
(***************************************************************************)
EXTENDS SessionCore, FiniteSets

CONSTANTS
    Pairs,          \* the pairs considered: the configuration of each side and
                    \* how many application messages it sends
    AppType,        \* their type: "App" or "AppA"
    MaxEnds,        \* bound on the breaks and the Logout commands together
    MaxBeats,       \* bound on the Heartbeats of a side on one connection
    MaxConnects     \* bound on the connections; not reached when every
                    \* connection that is neither broken nor logged out lasts

Sides == {"initiator", "acceptor"}

ASSUME PairAssumption ==
    /\ Pairs \subseteq [Sides -> [config : Config, sends : Nat]] /\ AppType \in AppTypes
    /\ \A pair \in Pairs, side \in Sides : pair[side].config.initiator <=> side = "initiator"
    /\ {MaxEnds, MaxBeats, MaxConnects} \subseteq Nat

VARIABLES
    session,    \* side -> State
    wire,       \* side -> frames on their way to it
    broken,     \* the connection is gone, noticed or not
    unsent,     \* side -> application messages it still sends
    beats,      \* side -> Heartbeats sent on this connection
    breaks, logouts, connects

vars == <<session, wire, broken, unsent, beats, breaks, logouts, connects>>
budget == <<breaks, logouts, connects>>

Other(side) == IF side = "initiator" THEN "acceptor" ELSE "initiator"

Fine == [verdict |-> "ok", veto |-> FALSE, late |-> FALSE]

--------------------------------------------------------------------------------
Idle(side) == session[side].phase = "idle"

\* A side takes a step to the session state r.  When it is idle again, what it
\* sent is on its way to the other side if that one is still there; a side
\* that left reads nothing more.
Step(side, r, inbound) ==
    /\ session' = [session EXCEPT ![side] = IF r.phase = "idle" THEN [r EXCEPT !.out = <<>>] ELSE r]
    /\ wire' = [wire EXCEPT
            ![side] = IF r.connected THEN inbound ELSE <<>>,
            ![Other(side)] = IF broken \/ ~session[Other(side)].connected \/ r.phase # "idle"
                             THEN @ ELSE @ \o r.out]

Init ==
    /\ \E pair \in Pairs : /\ session = [side \in Sides |-> Spawned(pair[side].config)]
                           /\ unsent = [side \in Sides |-> pair[side].sends]
    /\ wire = [side \in Sides |-> <<>>]
    /\ broken = FALSE
    /\ beats = [side \in Sides |-> 0]
    /\ breaks = 0 /\ logouts = 0 /\ connects = 0

\* run_initiator dials, the acceptor attaches; the initiator sends its Logon.
Connect ==
    /\ \A side \in Sides : ~session[side].connected
    /\ connects < MaxConnects /\ connects' = connects + 1
    /\ \E dialled \in {OnAttach(session["initiator"], TRUE)} :
           /\ session' = [initiator |-> [dialled EXCEPT !.out = <<>>],
                          acceptor |-> OnAttach(session["acceptor"], TRUE)]
           /\ wire' = [initiator |-> <<>>, acceptor |-> dialled.out]
    /\ broken' = FALSE
    /\ beats' = [side \in Sides |-> 0]
    /\ UNCHANGED <<unsent, breaks, logouts>>

Deliver(side) ==
    /\ Idle(side) /\ session[side].connected /\ wire[side] # <<>>
    /\ \E r \in {OnInbound(session[side], Head(wire[side]), Fine)} : Step(side, r, Tail(wire[side]))
    /\ UNCHANGED <<broken, unsent, beats, budget>>

\* The loops of retransmit and drain_stash.
Loop(side) ==
    LET s == session[side]
    IN  /\ \E r \in CASE s.phase = "resend" /\ s.replay.seq <= s.replay.end -> {RetransmitStep(s, FALSE)}
                      [] s.phase = "resend" /\ s.replay.seq > s.replay.end -> {RetransmitEnd(s)}
                      [] s.phase = "drain" /\ InStash(s) = {} -> {DrainEnd(s)}
                      [] s.phase = "drain" /\ InStash(s) # {} -> {DrainStep(s, m, Fine) : m \in InStash(s)}
                      [] OTHER -> {} :
              Step(side, r, wire[side])
        /\ UNCHANGED <<broken, unsent, beats, budget>>

\* The peer closed, or the connection broke, and everything was read.
PeerCloses(side) ==
    /\ Idle(side) /\ session[side].connected /\ wire[side] = <<>>
    /\ broken \/ ~session[Other(side)].connected
    /\ Step(side, Disconnect(session[side]), <<>>)
    /\ UNCHANGED <<broken, unsent, beats, budget>>

\* Nothing is on its way; HeartBtInt and the timeouts are long compared with a
\* round trip.
Quiet == ~broken /\ \A x \in Sides : wire[x] = <<>> /\ session[x].connected /\ Idle(x)

\* LogonTimeout or LogoutTimeout runs.  It never comes up: NobodyWaits.
Awaiting(side) == session[side].sent_logout \/ ~session[side].received_logon

\* Nothing was sent for HeartBtInt.
Heartbeat(side) ==
    /\ Quiet /\ ~Awaiting(side)
    /\ beats[side] < MaxBeats /\ beats' = [beats EXCEPT ![side] = @ + 1]
    /\ \E r \in {OnProtocolDeadline(session[side], "short", TRUE)} : Step(side, r, <<>>)
    /\ UNCHANGED <<broken, unsent, budget>>

SendApp(side) ==
    /\ Idle(side)
    /\ unsent[side] > 0 /\ unsent' = [unsent EXCEPT ![side] = @ - 1]
    /\ \E r \in {SendMessage(session[side], WithType(AppType))} : Step(side, r, wire[side])
    /\ UNCHANGED <<broken, beats, budget>>

LogoutCommand(side) ==
    /\ Idle(side)
    /\ breaks + logouts < MaxEnds /\ logouts' = logouts + 1
    /\ IsLoggedOn(session[side])
    /\ \E r \in {InitiateLogout(session[side])} : Step(side, r, wire[side])
    /\ UNCHANGED <<broken, unsent, beats, breaks, connects>>

Break ==
    /\ ~broken /\ \E side \in Sides : session[side].connected
    /\ breaks + logouts < MaxEnds /\ breaks' = breaks + 1
    /\ broken' = TRUE
    /\ wire' = [side \in Sides |-> <<>>]
    /\ UNCHANGED <<session, unsent, beats, logouts, connects>>

\* What happens by itself: the tasks run, the initiator dials again, and a
\* Heartbeat that is due is sent.
Work == \/ Connect
        \/ \E side \in Sides :
              Deliver(side) \/ Loop(side) \/ PeerCloses(side) \/ Heartbeat(side)

Next == \/ Work \/ Break
        \/ \E side \in Sides : SendApp(side) \/ LogoutCommand(side)

\* When Work is enabled.
CanWork ==
    \/ connects < MaxConnects /\ \A side \in Sides : ~session[side].connected
    \/ \E side \in Sides :
          \/ ~Idle(side)
          \/ /\ session[side].connected
             /\ \/ wire[side] # <<>> \/ broken \/ ~session[Other(side)].connected
                \/ ~Awaiting(side) /\ beats[side] < MaxBeats

\* Weak fairness of Work, with ENABLED Work written out (TLC would evaluate
\* every handler again to find it).  Nobody has to send, to log out or to
\* break the connection.
Fairness == []<>~CanWork \/ []<><<Work>>_vars

Spec == Init /\ [][Next]_vars /\ Fairness

--------------------------------------------------------------------------------
Given(side) == {session[side].delivered[i] : i \in DOMAIN session[side].delivered}
AppNumbers(side) == {x.seq : x \in session[side].saved}

\* A side never moves past an application message of the other without giving
\* it to its application, whatever was lost in breaks, stashed, resent or
\* gap-filled in between.  (Without a Logout of a user: handle_logout takes one
\* above the expected number as the expected one.)
NothingSkipped ==
    logouts = 0 => \A side \in Sides : \A n \in AppNumbers(Other(side)) :
        n < session[side].next_target => n \in Given(side)

\* Only application messages that the other side sent are given to the
\* application, and no side expects a number the other has not reached.
NothingInvented ==
    (\A side \in Sides : IsLoggedOn(session[side])) =>
        \A side \in Sides : /\ Given(side) \subseteq AppNumbers(Other(side))
                            /\ session[side].next_target <= session[Other(side)].next_sender

\* What on_target_too_low refuses: a number below the expected one, without
\* PossDupFlag.  (A Logon with 141 is checked after the reset.)
Refused(s, m) ==
    /\ m.type \notin {"ResendRequest", "Logout"} /\ ~m.poss_dup
    /\ m.seq < (IF m.type = "Logon" THEN LogonResets(s, m).next_target ELSE s.next_target)
    /\ ~(m.type = "SequenceReset" /\ ~m.flag)

\* Two engines never refuse each other: no message they send one another has
\* a number that is too low.
NeverRefused ==
    \A side \in Sides : wire[side] # <<>> => ~Refused(session[side], Head(wire[side]))

\* When nothing is on its way any more, no side still waits for something: not
\* for the answer to its Logon or Logout, and not for a resend, because what it
\* recorded as missing (resend_range) the other side was told of and has sent.
NobodyWaits ==
    Quiet => \A side \in Sides : ~Awaiting(side) /\ session[side].resend_range = NoRange

\* Once the connection is left alone, both sides are logged on for good and
\* every application message has been given to the other application, unless
\* a user logged one out.
Recovers ==
    <>(logouts > 0) \/ <>[]\A side \in Sides : IsLoggedOn(session[side]) /\ Given(side) = AppNumbers(Other(side))
================================================================================
