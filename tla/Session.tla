-------------------------------- MODULE Session --------------------------------
(***************************************************************************)
(* One session task of src/session.rs against an open environment: any     *)
(* frame of Inbound may arrive at any time, the peer may close, the write  *)
(* side may fail, the application gives any verdict, and the timers, the   *)
(* schedule and the commands of SessionHandle fire in any order.           *)
(* The run loop takes one event when the task is idle; while it is inside  *)
(* retransmit or drain_stash only the loop goes on.                        *)
(***************************************************************************)
EXTENDS SessionCore

CONSTANTS
    Configs,           \* the configurations considered
    Inbound,           \* the frames the peer may send
    MaxSender,         \* bound: no new event once next_sender is above it
    MaxTarget,         \* bound: no new event once next_target is above it
    WritesFail,        \* may the write task die before the session notices?
    MidSessionReset,   \* may a Logon with 141=Y arrive on a logged-on session?
    OperatorSets       \* the numbers the SetSeqNums command may be called with

ASSUME ConfigsAssumption == Configs \subseteq Config
ASSUME InboundAssumption ==
    /\ Inbound \subseteq Msg
    /\ \A m \in Inbound : m.type = "ResendRequest" => m.num # 0
ASSUME BoundsAssumption == MaxSender \in Nat /\ MaxTarget \in Nat
ASSUME SwitchesAssumption == WritesFail \in BOOLEAN /\ MidSessionReset \in BOOLEAN
ASSUME OperatorAssumption == OperatorSets \subseteq SeqNum

VARIABLE s
vars == <<s>>

Init == \E cfg \in Configs : s = Spawned(cfg)

--------------------------------------------------------------------------------
\* The frames of an event are forgotten when the task is idle again.
Settle(r) == IF r.phase = "idle" THEN [r EXCEPT !.out = <<>>] ELSE r

Idle == s.phase = "idle"
Running == Idle /\ ~s.stopping
Bounded == s.next_sender <= MaxSender /\ s.next_target <= MaxTarget

\* Command::Attach; a second connection is dropped and changes nothing.
Attach ==
    /\ Running /\ ~s.connected /\ Bounded
    /\ \E logon_open \in BOOLEAN : s' = Settle(OnAttach(s, logon_open))

\* Environment: the write task ends on a socket error.
WriteSideFails ==
    /\ WritesFail /\ s.connected /\ s.writer = "used"
    /\ s' = [s EXCEPT !.writer = "dead"]

\* One frame of the inbound channel, in the run loop or in the loop of Stop.
Receive ==
    /\ Idle /\ s.connected /\ Bounded
    /\ \E m \in Inbound, o \in Oracle :
          /\ m.type = "Logon" /\ m.flag /\ s.received_logon => MidSessionReset
          /\ s' = Settle(OnInbound(s, m, o))

\* recv on the inbound channel returns None.
PeerCloses ==
    /\ Running /\ s.connected
    /\ s' = Settle(Disconnect(s))

RetransmitNext ==
    /\ s.phase = "resend" /\ s.replay.seq <= s.replay.end
    /\ \E veto \in BOOLEAN : s' = RetransmitStep(s, veto)

RetransmitDone ==
    /\ s.phase = "resend" /\ s.replay.seq > s.replay.end
    /\ s' = RetransmitEnd(s)

DrainNext ==
    /\ s.phase = "drain"
    /\ \E m \in InStash(s), o \in Oracle : s' = Settle(DrainStep(s, m, o))

DrainDone ==
    /\ s.phase = "drain" /\ InStash(s) = {}
    /\ s' = Settle(DrainEnd(s))

\* Command::Send; a message that to_app vetoes changes nothing.
SendApp ==
    /\ Running /\ Bounded
    /\ \E t \in AppTypes, p \in Payloads :
          s' = Settle(SendMessage(s, [WithType(t) EXCEPT !.payload = p]))

\* Command::Logout.
LogoutCommand ==
    /\ Running /\ IsLoggedOn(s) /\ Bounded
    /\ s' = Settle(InitiateLogout(s))

\* Command::SetSeqNums.
SetSeqNums ==
    /\ Running
    /\ \E n \in OperatorSets :
          \/ s' = [s EXCEPT !.next_sender = n]
          \/ s' = [s EXCEPT !.next_target = n, !.delivered = <<>>]

\* Command::Stop: log out, then wait for the peer; or stop at once.
Stop ==
    /\ Running
    /\ s' = IF IsLoggedOn(s)
            THEN Settle([InitiateLogout(s) EXCEPT !.stopping = TRUE])
            ELSE [Disconnect(s) EXCEPT !.phase = "stopped", !.out = <<>>]

\* The loop of Stop ends: logout complete, peer closed, or LogoutTimeout.
StopEnds ==
    /\ Idle /\ s.stopping
    /\ s' = [Disconnect(s) EXCEPT !.phase = "stopped", !.out = <<>>]

\* The command channel is closed: every handle was dropped.
EngineDropped ==
    /\ Running
    /\ s' = [Disconnect(s) EXCEPT !.phase = "stopped", !.out = <<>>]

ProtocolDeadline ==
    /\ Running /\ s.connected /\ Bounded
    /\ \E since_recv \in Silences, idle \in BOOLEAN :
          s' = Settle(OnProtocolDeadline(s, since_recv, idle))

ScheduleTick ==
    /\ Running /\ Bounded
    /\ \E in_range, same_range, logon_open \in BOOLEAN :
          s' = Settle(OnScheduleTick(s, in_range, same_range, logon_open))

Next ==
    \/ Attach \/ WriteSideFails \/ Receive \/ PeerCloses
    \/ RetransmitNext \/ RetransmitDone \/ DrainNext \/ DrainDone
    \/ SendApp \/ LogoutCommand \/ SetSeqNums \/ Stop \/ StopEnds \/ EngineDropped
    \/ ProtocolDeadline \/ ScheduleTick

Spec == Init /\ [][Next]_vars

--------------------------------------------------------------------------------
(***************************************************************************)
(* Properties.                                                             *)
(***************************************************************************)
\* The record keeps its shape: in particular both sequence numbers stay
\* positive, so that "next_sender - 1" and "received - 1" never underflow.
TypeOK == s \in State

\* What the application was last told by on_logon/on_logout is what the
\* session is: it is online exactly while both Logons were exchanged on a live
\* connection (handle_logon, disconnect), whichever call in between failed.
AppViewAccurate ==
    /\ s.app_online <=> IsLoggedOn(s)
    /\ s.received_logon => s.connected /\ s.sent_logon

\* While a ResendRequest is recorded as outstanding, and so suppresses further
\* ones (on_target_too_high), the number the session waits for lies inside the
\* chunk that was asked for: no gap is left unrequested behind a stale range.
SuppressionJustified ==
    (Idle /\ s.connected /\ s.resend_range # NoRange) =>
        /\ s.resend_range.begin <= s.next_target
        /\ s.next_target <= s.resend_range.chunk_end
        /\ s.resend_range.chunk_end <= s.resend_range.full_end

\* Everything waiting in the stash is ahead of the number expected next and
\* was not given to the application before (drain_stash left nothing behind).
StashAhead ==
    /\ (Idle /\ s.connected) => \A m \in s.stash : m.seq > s.next_target
    /\ \A m1, m2 \in s.stash : m1.seq = m2.seq => m1 = m2

\* A session without a connection carries nothing over into the next one: no
\* logon or logout flag, no outstanding request, no stash; and with
\* ResetOnDisconnect the peer's numbering starts at 1 (disconnect).
DisconnectedIsClean ==
    (Idle /\ ~s.connected) =>
        /\ ~s.received_logon /\ ~s.sent_logon /\ ~s.sent_logout
        /\ ~s.sent_reset /\ ~s.received_reset
        /\ s.test_request_counter = 0
        /\ s.resend_range = NoRange /\ s.stash = {}
        /\ s.cfg.reset_on_disconnect => s.next_target = 1

\* A new connection starts from nothing: it waits for a Logon under
\* LogonTimeout, not under a logout of an earlier connection (on_attach,
\* next_protocol_deadline).
FreshConnectionAwaitsLogon ==
    [][(~s.connected /\ s'.connected) =>
          ~s'.sent_logout /\ ~s'.received_logon /\ s'.stash = {}]_vars

\* from_app sees the application messages of one numbering epoch in increasing
\* order and each at most once, whatever is resent, stashed or rejected.
DeliveredInOrder ==
    /\ \A i, j \in DOMAIN s.delivered : i < j => s.delivered[i] < s.delivered[j]
    /\ \A i \in DOMAIN s.delivered : s.delivered[i] < s.next_target

\* The number the receiver of a replayed frame expects afterwards.
After(f) == IF f.type = "SequenceReset" THEN f.num ELSE f.seq + 1

\* The frames after position "mark" continue one another from "begin" on and
\* leave the receiver expecting "upto".
Tiles(frames, mark, begin, upto) ==
    /\ \A i \in (mark + 1)..Len(frames) :
          frames[i].seq = IF i = mark + 1 THEN begin ELSE After(frames[i - 1])
    /\ upto = IF Len(frames) = mark THEN begin ELSE After(frames[Len(frames)])

\* In the middle of retransmit the frames already sent, together with the gap
\* not yet filled, cover the requested range up to the cursor without a hole
\* and without an overlap.
ReplayTiles ==
    (s.phase = "resend" /\ s.connected) =>
        Tiles(s.out, s.replay.mark, s.replay.begin,
              IF s.replay.gap_begin = 0 THEN s.replay.seq ELSE s.replay.gap_begin)

\* When retransmit returns on a live connection the peer has been given every
\* number of the range it asked for: the answer ends exactly after "end".
ReplayCompletes ==
    [][(s.phase = "resend" /\ s'.phase = "drain" /\ s'.connected) =>
          Tiles(s'.out, s.replay.mark, s.replay.begin, s.replay.end + 1)]_vars

\* A sound application message that drain_stash takes out of the stash is
\* given to from_app, or the connection is gone.
StashedAppDelivered ==
    [][\A m \in InStash(s) :
          (s.phase = "drain" /\ m.type \in AppTypes /\ m.defect = "none" /\ m \notin s'.stash
             /\ ~s.cfg.check_latency /\ s'.connected)
             => m.seq \in {s'.delivered[i] : i \in DOMAIN s'.delivered}]_vars
================================================================================
