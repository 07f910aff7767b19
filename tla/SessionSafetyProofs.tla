-------------------------- MODULE SessionSafetyProofs --------------------------
(***************************************************************************)
(* Safety of one session task, for every configuration, every set of       *)
(* inbound frames and every bound, with failing writes, mid-session resets *)
(* and numbers set by hand allowed.  First its type, then what its         *)
(* application sees and what it replays, last how it recovers a gap.       *)
(*                                                                         *)
(* Nearly every operator of SessionCore only sends, and a send either goes *)
(* out or drops the connection.  "Frame" states what such an operator may  *)
(* do to the fields the invariants speak of; it is transitive, so that one *)
(* lemma per operator, composed as the code composes the calls, carries    *)
(* the invariants through a handler.                                       *)
(***************************************************************************)
EXTENDS Session, SessionProofs

\* Forgetting the frames of an event.
LEMMA SettleType == ASSUME NEW x \in State PROVE Settle(x) \in State
  <1>1. <<>> \in Seq(Msg) BY EmptySeq
  <1> QED BY <1>1 DEF Settle, State

\* The task ends.
LEMMA StoppedType ==
  ASSUME NEW x \in State PROVE [Disconnect(x) EXCEPT !.phase = "stopped", !.out = <<>>] \in State
  <1>1. Disconnect(x) \in State BY DisconnectType
  <1>2. <<>> \in Seq(Msg) BY EmptySeq
  <1> QED BY <1>1, <1>2, FieldFacts DEF State

\* One step of the task keeps the record in State.
LEMMA NextType == ASSUME TypeOK, [Next]_vars PROVE TypeOK'
  <1> USE DEF TypeOK
  <1>1. CASE Attach BY <1>1, OnAttachType, SettleType DEF Attach
  <1>2. CASE WriteSideFails BY <1>2, FieldFacts DEF WriteSideFails, State
  <1>3. CASE Receive
    <2>1. PICK m \in Inbound, o \in Oracle : s' = Settle(OnInbound(s, m, o))
      BY <1>3 DEF Receive
    <2>2. m \in Msg BY InboundAssumption
    <2> QED BY <2>1, <2>2, OnInboundType, SettleType
  <1>4. CASE PeerCloses BY <1>4, DisconnectType, SettleType DEF PeerCloses
  <1>5. CASE RetransmitNext BY <1>5, RetransmitStepType DEF RetransmitNext
  <1>6. CASE RetransmitDone BY <1>6, RetransmitEndType DEF RetransmitDone
  <1>7. CASE DrainNext
    <2>1. PICK m \in InStash(s), o \in Oracle : s' = Settle(DrainStep(s, m, o))
      BY <1>7 DEF DrainNext
    <2>2. m \in Msg BY DEF InStash, State
    <2> QED BY <2>1, <2>2, DrainStepType, SettleType
  <1>8. CASE DrainDone BY <1>8, DrainEndType, SettleType DEF DrainDone
  <1>9. CASE SendApp
    <2>1. PICK t \in AppTypes, p \in Payloads :
             s' = Settle(SendMessage(s, [WithType(t) EXCEPT !.payload = p]))
      BY <1>9 DEF SendApp
    <2>2. WithType(t) \in Msg BY WithTypeType, TypeNames
    <2>3. [WithType(t) EXCEPT !.payload = p] \in Msg BY <2>2 DEF Msg, Payload
    <2> QED BY <2>1, <2>3, SendMessageType, SettleType
  <1>10. CASE LogoutCommand BY <1>10, InitiateLogoutType, SettleType DEF LogoutCommand
  <1>11. CASE SetSeqNums
    <2>1. PICK n \in OperatorSets :
             \/ s' = [s EXCEPT !.next_sender = n]
             \/ s' = [s EXCEPT !.next_target = n, !.delivered = <<>>]
      BY <1>11 DEF SetSeqNums
    <2>2. n \in SeqNum /\ <<>> \in Seq(Nat) BY OperatorAssumption, EmptySeq
    <2>3. [s EXCEPT !.next_sender = n] \in State BY <2>2 DEF State
    <2>4. [s EXCEPT !.next_target = n, !.delivered = <<>>] \in State BY <2>2 DEF State
    <2> QED BY <2>1, <2>3, <2>4
  <1>12. CASE Stop
    <2>1. InitiateLogout(s) \in State BY InitiateLogoutType
    <2>2. [InitiateLogout(s) EXCEPT !.stopping = TRUE] \in State BY <2>1 DEF State
    <2> QED BY <1>12, <2>2, SettleType, StoppedType DEF Stop
  <1>13. CASE StopEnds BY <1>13, StoppedType DEF StopEnds
  <1>14. CASE EngineDropped BY <1>14, StoppedType DEF EngineDropped
  <1>15. CASE ProtocolDeadline
    BY <1>15, OnProtocolDeadlineType, SettleType DEF ProtocolDeadline
  <1>16. CASE ScheduleTick BY <1>16, OnScheduleTickType, SettleType DEF ScheduleTick
  <1>17. CASE UNCHANGED vars BY <1>17 DEF vars
  <1> QED BY <1>1, <1>2, <1>3, <1>4, <1>5, <1>6, <1>7, <1>8, <1>9, <1>10, <1>11, <1>12,
             <1>13, <1>14, <1>15, <1>16, <1>17 DEF Next

\* A spawned session has its type.
LEMMA InitType == Init => TypeOK
  <1> SUFFICES ASSUME NEW cfg \in Configs PROVE Spawned(cfg) \in State
    BY DEF Init, TypeOK
  <1> QED BY ConfigsAssumption, SpawnedType

\* Every reachable record is well typed; in particular no subtraction on the
\* u64 sequence numbers of session.rs ever goes below zero.
THEOREM TypeCorrect == Spec => []TypeOK
  <1>1. Init => TypeOK BY InitType
  <1>2. TypeOK /\ [Next]_vars => TypeOK' BY NextType
  <1> QED BY <1>1, <1>2, PTL DEF Spec

--------------------------------------------------------------------------------
\* The application is not told "online" on a session with no Logon at all.
Sane(x) == x.app_online => x.received_logon \/ x.sent_logon

\* No connection, no Logon, and the application knows.
Offline(x) == ~x.connected /\ ~x.received_logon /\ ~x.sent_logon /\ ~x.app_online

SameView(x, y) ==
    /\ y.connected = x.connected /\ y.received_logon = x.received_logon
    /\ y.sent_logon = x.sent_logon /\ y.app_online = x.app_online

\* The deliveries are kept and the expected number does not fall, or a new
\* numbering epoch begins.
LogKept(x, y) ==
    \/ y.delivered = <<>>
    \/ y.delivered = x.delivered /\ x.next_target <= y.next_target

\* What a call that only sends may do.
Frame(x, y) ==
    /\ y \in State
    /\ SameView(x, y) \/ Offline(y)
    /\ LogKept(x, y)
    /\ y.phase = x.phase /\ y.replay = x.replay

\* Expected numbers are numbers.
LEMMA TargetFacts ==
  ASSUME NEW x \in State
  PROVE  /\ x.next_target \in Nat /\ x.next_target # 0
         /\ x.next_target <= x.next_target /\ x.next_target <= x.next_target + 1
  <1>1. x.next_target \in SeqNum BY DEF State
  <1> QED BY <1>1 DEF SeqNum

\* Doing nothing is a frame.
LEMMA FrameRefl == ASSUME NEW x \in State PROVE Frame(x, x)
  BY TargetFacts DEF Frame, SameView, LogKept

\* Two calls after another.
LEMMA FrameTrans ==
  ASSUME NEW x \in State, NEW y, NEW z, Frame(x, y), Frame(y, z)
  PROVE  Frame(x, z)
  <1>1. x.next_target \in Nat /\ y.next_target \in Nat /\ z.next_target \in Nat
    BY SeqNumFacts DEF State, Frame
  <1>2. LogKept(x, z) BY <1>1 DEF Frame, LogKept
  <1>3. SameView(x, z) \/ Offline(z) BY DEF Frame, SameView, Offline
  <1> QED BY <1>2, <1>3 DEF Frame

\* A frame keeps the application's view sane.
LEMMA FrameSane ==
  ASSUME NEW x, NEW y, Frame(x, y), Sane(x) PROVE y \in State /\ Sane(y)
  BY DEF Frame, Sane, SameView, Offline

\* Returning a flow changes nothing else.
LEMMA ReturnFrame ==
  ASSUME NEW x \in State, NEW f \in Flows PROVE Frame(x, Return(x, f))
  <1>1. Return(x, f) \in State BY ReturnType
  <1>2. x.next_target <= x.next_target BY TargetFacts
  <1> QED BY <1>1, <1>2 DEF Frame, SameView, LogKept, Return, State

\* MessageStore::reset starts a new epoch.
LEMMA StoreResetFrame == ASSUME NEW x \in State PROVE Frame(x, StoreReset(x))
  <1>1. StoreReset(x) \in State BY StoreResetType
  <1> QED BY <1>1 DEF Frame, SameView, LogKept, StoreReset, State

\* incr_next_target_seq_num.
LEMMA IncrTargetFrame == ASSUME NEW x \in State PROVE Frame(x, IncrTarget(x))
  <1>1. IncrTarget(x) \in State BY IncrTargetType
  <1>2. x.next_target <= x.next_target + 1 BY TargetFacts
  <1>3. IncrTarget(x).next_target = x.next_target + 1 BY DEF IncrTarget, State
  <1>4. IncrTarget(x).delivered = x.delivered BY DEF IncrTarget, State
  <1>5. LogKept(x, IncrTarget(x)) BY <1>2, <1>3, <1>4 DEF LogKept
  <1>6. SameView(x, IncrTarget(x)) BY DEF SameView, IncrTarget, State
  <1>7. IncrTarget(x).phase = x.phase /\ IncrTarget(x).replay = x.replay
    BY DEF IncrTarget, State
  <1> QED BY <1>1, <1>5, <1>6, <1>7 DEF Frame

\* Session::disconnect.
LEMMA DisconnectFrame ==
  ASSUME NEW x \in State, Sane(x)
  PROVE  /\ Frame(x, Disconnect(x))
         /\ ~Disconnect(x).connected
  <1> DEFINE r == [x EXCEPT !.connected = FALSE, !.writer = "fresh",
                            !.received_logon = FALSE, !.sent_logon = FALSE,
                            !.sent_logout = FALSE,
                            !.sent_reset = FALSE, !.received_reset = FALSE,
                            !.test_request_counter = 0, !.resend_range = NoRange,
                            !.stash = {},
                            !.app_online = @ /\ ~(x.received_logon \/ x.sent_logon)]
  <1>1. (x.app_online /\ ~(x.received_logon \/ x.sent_logon)) = FALSE BY DEF Sane
  <1>0. (x.app_online /\ ~(x.received_logon \/ x.sent_logon)) \in BOOLEAN OBVIOUS
  <1>2. r \in State BY <1>0, FieldFacts DEF State
  <1>3. /\ Offline(r) /\ r.phase = x.phase /\ r.replay = x.replay
        /\ r.delivered = x.delivered /\ r.next_target = x.next_target
    BY <1>1 DEF Offline, State
  <1>4. x.next_target <= x.next_target BY TargetFacts
  <1>5. Frame(x, r) BY <1>2, <1>3, <1>4 DEF Frame, LogKept
  <1>6. Disconnect(x) = IF ~x.connected THEN x
                        ELSE IF x.cfg.reset_on_disconnect THEN StoreReset(r) ELSE r
    BY DEF Disconnect
  <1>7. ~r.connected BY <1>3 DEF Offline
  <1> HIDE DEF r
  <1>8. Frame(x, StoreReset(r)) BY <1>2, <1>5, StoreResetFrame, FrameTrans
  <1>9. ~StoreReset(r).connected BY <1>2, <1>7 DEF StoreReset, State
  <1> QED BY <1>5, <1>6, <1>7, <1>8, <1>9, FrameRefl

\* Session::transmit.
LEMMA TransmitFrame ==
  ASSUME NEW x \in State, Sane(x), NEW f \in Msg PROVE Frame(x, Transmit(x, f))
  <1> DEFINE y == [x EXCEPT !.out = Append(@, f), !.writer = "used"]
  <1>1. Append(x.out, f) \in Seq(Msg) BY DEF State
  <1>2. y \in State BY <1>1, FieldFacts DEF State
  <1>3. x.next_target <= x.next_target BY TargetFacts
  <1>4. Frame(x, y) BY <1>2, <1>3 DEF Frame, SameView, LogKept, State
  <1>5. Transmit(x, f) \in {x, Disconnect(x), y} BY DEF Transmit, State
  <1> HIDE DEF y
  <1> QED BY <1>4, <1>5, DisconnectFrame, FrameRefl

\* A call that changes fields no frame speaks of, then sends.
LEMMA QuietFrame ==
  ASSUME NEW x \in State, NEW y \in State, SameView(x, y), y.delivered = x.delivered,
         y.next_target = x.next_target, y.phase = x.phase, y.replay = x.replay
  PROVE  Frame(x, y)
  BY TargetFacts DEF Frame, LogKept

\* Session::send_message.
LEMMA SendMessageFrame ==
  ASSUME NEW x \in State, Sane(x), NEW m \in Msg PROVE Frame(x, SendMessage(x, m))
  <1> DEFINE f == [m EXCEPT !.seq = x.next_sender, !.poss_dup = FALSE]
             r == IF x.cfg.persist_messages THEN SaveAndIncr(x, f)
                  ELSE [x EXCEPT !.next_sender = @ + 1]
  <1>1. x.next_sender \in SeqNum /\ x.next_sender \in Nat /\ x.next_sender + 1 \in SeqNum
    BY SeqNumFacts DEF State
  <1>2. f \in Msg /\ f.seq \in SeqNum BY <1>1 DEF Msg
  <1>3. [x EXCEPT !.next_sender = @ + 1] \in State BY <1>1 DEF State
  <1>4. r \in State BY <1>2, <1>3, SaveType
  <1>5. SendMessage(x, m) = IF x.sent_logon \/ m.type \in {"Logon", "Logout", "ResendRequest", "SequenceReset"}
                            THEN Transmit(r, f) ELSE r
    BY DEF SendMessage
  <1>6. SameView(x, r) BY DEF SameView, SaveAndIncr, State
  <1>7. r.delivered = x.delivered /\ r.next_target = x.next_target
        /\ r.phase = x.phase /\ r.replay = x.replay
    BY DEF SaveAndIncr, State
  <1> HIDE DEF r, f
  <1>8. Frame(x, r) BY <1>4, <1>6, <1>7, QuietFrame
  <1>9. Frame(r, Transmit(r, f)) BY <1>2, <1>4, <1>8, FrameSane, TransmitFrame
  <1>10. Frame(x, Transmit(r, f)) BY <1>8, <1>9, FrameTrans
  <1> QED BY <1>5, <1>8, <1>10

\* Session::initiate_logout.
LEMMA InitiateLogoutFrame ==
  ASSUME NEW x \in State, Sane(x) PROVE Frame(x, InitiateLogout(x))
  <1> DEFINE y == [x EXCEPT !.sent_logout = TRUE]
  <1>1. y \in State BY DEF State
  <1>0. /\ SameView(x, y) /\ y.delivered = x.delivered /\ y.next_target = x.next_target
        /\ y.phase = x.phase /\ y.replay = x.replay
    BY DEF SameView, State
  <1> HIDE DEF y
  <1>2. Frame(x, y) BY <1>0, <1>1, QuietFrame
  <1>3. WithType("Logout") \in Msg BY WithTypeType, TypeNames
  <1>4. InitiateLogout(x) = SendMessage(y, WithType("Logout")) BY DEF InitiateLogout, y
  <1>5. Frame(y, InitiateLogout(x)) BY <1>1, <1>2, <1>3, <1>4, FrameSane, SendMessageFrame
  <1> QED BY <1>2, <1>5, FrameTrans

\* Session::send_reject.
LEMMA SendRejectFrame ==
  ASSUME NEW x \in State, Sane(x), NEW m PROVE Frame(x, SendReject(x, m))
  <1> DEFINE y == IF m.type \notin {"Logon", "SequenceReset"} /\ m.seq = x.next_target
                  THEN IncrTarget(x) ELSE x
  <1>1. Frame(x, y) BY IncrTargetFrame, FrameRefl
  <1>2. WithType("Reject") \in Msg BY WithTypeType, TypeNames
  <1>3. SendReject(x, m) = SendMessage(y, WithType("Reject")) BY DEF SendReject
  <1> HIDE DEF y
  <1>4. Frame(y, SendReject(x, m)) BY <1>1, <1>2, <1>3, FrameSane, SendMessageFrame
  <1> QED BY <1>1, <1>4, FrameTrans

\* Session::send_business_reject.
LEMMA SendBusinessRejectFrame ==
  ASSUME NEW x \in State, Sane(x), NEW o PROVE Frame(x, SendBusinessReject(x, o))
  <1> DEFINE m == [WithType("App") EXCEPT !.payload = "business_reject"]
  <1>1. WithType("App") \in Msg BY WithTypeType, TypeNames
  <1>2. m \in Msg BY <1>1 DEF Msg, Payload
  <1>3. Frame(x, IncrTarget(x)) BY IncrTargetFrame
  <1>4. SendBusinessReject(x, o) \in {IncrTarget(x), SendMessage(IncrTarget(x), m)}
    BY DEF SendBusinessReject
  <1> HIDE DEF m
  <1>5. Frame(IncrTarget(x), SendMessage(IncrTarget(x), m))
    BY <1>2, <1>3, FrameSane, SendMessageFrame
  <1>6. Frame(x, SendMessage(IncrTarget(x), m)) BY <1>3, <1>5, FrameTrans
  <1> QED BY <1>3, <1>4, <1>6

\* Session::send_resend_request.
LEMMA SendResendRequestFrame ==
  ASSUME NEW x \in State, Sane(x), NEW begin \in Nat, NEW received \in Nat, begin < received
  PROVE  Frame(x, SendResendRequest(x, begin, received))
  <1> DEFINE full_end == received - 1
             max == x.cfg.max_messages_in_resend_request
             capped == max # 0 /\ begin + max - 1 < full_end
             chunk_end == IF capped THEN begin + max - 1 ELSE full_end
             range == [begin |-> begin, full_end |-> full_end, chunk_end |-> chunk_end]
             y == [x EXCEPT !.resend_range = range]
             m == [WithType("ResendRequest") EXCEPT !.num = begin,
                                                    !.end = IF max = 0 THEN 0 ELSE chunk_end]
  <1>1. max \in Nat BY DEF State, Config
  <1>2. full_end \in Nat /\ chunk_end \in Nat BY <1>1
  <1>3. SendResendRequest(x, begin, received) = SendMessage(y, m) BY DEF SendResendRequest
  <1> HIDE DEF full_end, chunk_end, max
  <1>4. range \in ResendRange BY <1>2 DEF ResendRange
  <1> HIDE DEF range
  <1>5. y \in State BY <1>4 DEF State
  <1>6. Frame(x, y) BY <1>5, QuietFrame DEF SameView, State
  <1>7. WithType("ResendRequest") \in Msg BY WithTypeType, TypeNames
  <1>8. m \in Msg BY <1>2, <1>7 DEF Msg
  <1> HIDE DEF y, m
  <1>9. Frame(y, SendMessage(y, m)) BY <1>5, <1>6, <1>8, FrameSane, SendMessageFrame
  <1> QED BY <1>3, <1>6, <1>9, FrameTrans

\* Session::check_resend_chunks.
LEMMA CheckResendChunksFrame ==
  ASSUME NEW x \in State, Sane(x) PROVE Frame(x, CheckResendChunks(x))
  <1> DEFINE y == [x EXCEPT !.resend_range = NoRange]
  <1>1. y \in State BY FieldFacts DEF State
  <1>2. Frame(x, y) BY <1>1, QuietFrame DEF SameView, State
  <1>3. /\ x.next_target \in Nat
        /\ x.resend_range.full_end \in Nat /\ x.resend_range.full_end + 1 \in Nat
    BY SeqNumFacts DEF State, ResendRange
  <1>4. x.next_target <= x.resend_range.full_end => x.next_target < x.resend_range.full_end + 1
    BY <1>3
  <1> HIDE DEF y
  <1>5. \/ CheckResendChunks(x) = x \/ CheckResendChunks(x) = y
        \/ /\ x.next_target <= x.resend_range.full_end
           /\ CheckResendChunks(x) = SendResendRequest(x, x.next_target, x.resend_range.full_end + 1)
    BY DEF CheckResendChunks, y
  <1> QED BY <1>2, <1>3, <1>4, <1>5, FrameRefl, SendResendRequestFrame

\* Session::send_gap_fill.
LEMMA SendGapFillFrame ==
  ASSUME NEW x \in State, Sane(x), NEW begin \in Nat, NEW new_seq \in Nat
  PROVE  Frame(x, SendGapFill(x, begin, new_seq))
  <1>1. WithType("SequenceReset") \in Msg BY WithTypeType, TypeNames
  <1>2. GapFill(begin, new_seq) \in Msg BY <1>1 DEF GapFill, Msg
  <1> QED BY <1>2, TransmitFrame DEF SendGapFill

\* Session::on_target_too_high.
LEMMA OnTargetTooHighFrame ==
  ASSUME NEW x \in State, Sane(x), NEW m \in Msg, m.seq > x.next_target
  PROVE  Frame(x, OnTargetTooHigh(x, m))
  <1> DEFINE y == StashInsert(x, m)
  <1>1. y \in State BY StashInsertType
  <1>2. Frame(x, y) BY <1>1, QuietFrame DEF SameView, State, StashInsert
  <1>3. m.seq \in Nat /\ x.next_target \in Nat /\ x.next_target < m.seq
    BY SeqNumFacts DEF State, Msg
  <1>4. OnTargetTooHigh(x, m) \in {y, SendResendRequest(y, x.next_target, m.seq)}
    BY DEF OnTargetTooHigh
  <1> HIDE DEF y
  <1>5. Frame(y, SendResendRequest(y, x.next_target, m.seq))
    BY <1>1, <1>2, <1>3, FrameSane, SendResendRequestFrame
  <1>6. Frame(x, SendResendRequest(y, x.next_target, m.seq)) BY <1>2, <1>5, FrameTrans
  <1> QED BY <1>2, <1>4, <1>6

\* A frame, then a return.
LEMMA FrameReturn ==
  ASSUME NEW x \in State, NEW y, NEW f \in Flows, Frame(x, y) PROVE Frame(x, Return(y, f))
  <1>1. y \in State BY DEF Frame
  <1>2. Frame(y, Return(y, f)) BY <1>1, ReturnFrame
  <1> QED BY <1>2, FrameTrans

\* Reject, then log out (verify, on_target_too_low).
LEMMA RejectLogoutFrame ==
  ASSUME NEW x \in State, Sane(x), NEW m PROVE Frame(x, InitiateLogout(SendReject(x, m)))
  <1>1. Frame(x, SendReject(x, m)) BY SendRejectFrame
  <1>2. Frame(SendReject(x, m), InitiateLogout(SendReject(x, m)))
    BY <1>1, FrameSane, InitiateLogoutFrame
  <1> QED BY <1>1, <1>2, FrameTrans

\* Session::on_target_too_low.
LEMMA OnTargetTooLowFrame ==
  ASSUME NEW x \in State, Sane(x), NEW m
  PROVE  Frame(x, OnTargetTooLow(x, m)) /\ OnTargetTooLow(x, m).flow # "Continue"
  <1>1. OnTargetTooLow(x, m) \in
           {Return(InitiateLogout(x), "Disconnect"), Return(InitiateLogout(SendReject(x, m)), "Stop"),
            Return(SendReject(x, m), "Stop"), Return(x, "Stop")}
    BY DEF OnTargetTooLow
  <1>2. /\ Frame(x, InitiateLogout(x)) /\ Frame(x, InitiateLogout(SendReject(x, m)))
        /\ Frame(x, SendReject(x, m)) /\ Frame(x, x)
    BY InitiateLogoutFrame, RejectLogoutFrame, SendRejectFrame, FrameRefl
  <1>3. \A y \in State, f \in Flows : Return(y, f).flow = f BY DEF Return, State
  <1>4. \A y : Frame(x, y) => /\ Frame(x, Return(y, "Stop")) /\ Frame(x, Return(y, "Disconnect"))
                              /\ Return(y, "Stop").flow = "Stop"
                              /\ Return(y, "Disconnect").flow = "Disconnect"
    BY <1>3, FrameReturn, FieldFacts DEF Frame
  <1> QED BY <1>1, <1>2, <1>4

--------------------------------------------------------------------------------
(***************************************************************************)
(* The invariants, on a record.                                            *)
(***************************************************************************)
\* AppViewAccurate of a record.
View(x) ==
    /\ x.app_online <=> IsLoggedOn(x)
    /\ x.received_logon => x.connected /\ x.sent_logon

\* DeliveredInOrder of a record.
Ordered(x) ==
    /\ \A i, j \in DOMAIN x.delivered : i < j => x.delivered[i] < x.delivered[j]
    /\ \A i \in DOMAIN x.delivered : x.delivered[i] < x.next_target

Good(x) == x \in State /\ View(x) /\ Ordered(x)

\* What a record must satisfy while a handler is inside retransmit.
ReplayOK(x) ==
    x.phase = "resend" =>
        /\ x.replay.seq # 0 /\ x.replay.seq <= x.replay.end + 1
        /\ x.replay.mark <= Len(x.out)
        /\ x.connected =>
              Tiles(x.out, x.replay.mark, x.replay.begin,
                    IF x.replay.gap_begin = 0 THEN x.replay.seq ELSE x.replay.gap_begin)

\* In order, and either past both Logons or dropped.
Joined(x) ==
    /\ x \in State /\ Ordered(x)
    /\ (x.connected /\ x.received_logon /\ x.sent_logon) \/ Offline(x)

\* Still connected, perhaps between the two Logons, or dropped already.
Dropping(x) ==
    /\ x \in State /\ Ordered(x) /\ Sane(x)
    /\ x.connected \/ Offline(x)

\* A good view is a sane one.
LEMMA GoodSane == ASSUME NEW x, Good(x) PROVE x \in State /\ Sane(x)
  BY DEF Good, View, Sane, IsLoggedOn

\* A frame keeps the deliveries in order.
LEMMA FrameOrdered ==
  ASSUME NEW x \in State, NEW y, Ordered(x), Frame(x, y) PROVE Ordered(y)
  <1>1. y \in State BY DEF Frame
  <1>2. x.next_target \in Nat /\ y.next_target \in Nat BY <1>1, TargetFacts
  <1>3. CASE y.delivered = <<>> BY <1>3 DEF Ordered
  <1>4. CASE y.delivered = x.delivered /\ x.next_target <= y.next_target
    <2>1. \A i \in DOMAIN x.delivered : x.delivered[i] \in Nat BY DEF State
    <2> QED BY <1>2, <1>4, <2>1 DEF Ordered
  <1> QED BY <1>3, <1>4 DEF Frame, LogKept

\* A frame keeps a record good.
LEMMA FrameGood == ASSUME NEW x, NEW y, Good(x), Frame(x, y) PROVE Good(y)
  <1>1. Ordered(y) BY FrameOrdered DEF Good
  <1>2. View(y) BY DEF Good, View, Frame, SameView, Offline, IsLoggedOn
  <1> QED BY <1>1, <1>2 DEF Good, Frame

\* A frame keeps a joined record joined or dropped.
LEMMA FrameJoined ==
  ASSUME NEW x, NEW y, Joined(x), Frame(x, y) PROVE Joined(y) /\ Sane(x)
  <1>1. Ordered(y) BY FrameOrdered DEF Joined
  <1> QED BY <1>1 DEF Joined, Frame, SameView, Offline, Sane

\* The next application message in sequence, counted.
LEMMA DeliveredGood ==
  ASSUME NEW x, Good(x), NEW y \in State, SameView(x, y),
         y.delivered = Append(x.delivered, x.next_target), y.next_target = x.next_target + 1
  PROVE  Good(y)
  <1> DEFINE d == x.delivered
             n == x.next_target
  <1>1. d \in Seq(Nat) /\ n \in Nat BY TargetFacts DEF Good, State
  <1>2. /\ \A i, j \in DOMAIN d : i < j => d[i] < d[j]
        /\ \A i \in DOMAIN d : d[i] < n
    BY DEF Good, Ordered
  <1> HIDE DEF d, n
  <1>3. Len(d) \in Nat /\ DOMAIN d = 1..Len(d) BY <1>1
  <1>4. DOMAIN Append(d, n) = 1..(Len(d) + 1) BY <1>1, <1>3
  <1>5. \A i \in 1..Len(d) : Append(d, n)[i] = d[i] /\ d[i] \in Nat BY <1>1, <1>3
  <1>6. Append(d, n)[Len(d) + 1] = n BY <1>1, <1>3
  <1>7. \A i \in DOMAIN Append(d, n) : Append(d, n)[i] < n + 1
    BY <1>1, <1>2, <1>3, <1>4, <1>5, <1>6
  <1>8. \A i, j \in DOMAIN Append(d, n) : i < j => Append(d, n)[i] < Append(d, n)[j]
    <2> SUFFICES ASSUME NEW i \in DOMAIN Append(d, n), NEW j \in DOMAIN Append(d, n), i < j
                 PROVE  Append(d, n)[i] < Append(d, n)[j]
      OBVIOUS
    <2>1. i \in 1..Len(d) BY <1>3, <1>4
    <2>2. CASE j = Len(d) + 1 BY <1>2, <1>3, <1>5, <1>6, <2>1, <2>2
    <2>3. CASE j # Len(d) + 1
      <3>1. j \in 1..Len(d) BY <1>3, <1>4, <2>3
      <3> QED BY <1>2, <1>3, <1>5, <2>1, <3>1
    <2> QED BY <2>2, <2>3
  <1>9. Ordered(y) BY <1>7, <1>8 DEF Ordered, d, n
  <1>10. View(y) BY DEF Good, View, SameView, IsLoggedOn
  <1> QED BY <1>9, <1>10 DEF Good

--------------------------------------------------------------------------------
(***************************************************************************)
(* The verify pipeline.                                                    *)
(***************************************************************************)
\* The record verify hands on when it returns Continue.
Passed(x, y) ==
    /\ y \in State /\ SameView(x, y) /\ y.cfg = x.cfg
    /\ y.delivered = x.delivered /\ y.next_target = x.next_target
    /\ y.phase = x.phase /\ y.replay = x.replay

\* Verified, for a message that is not given to from_app.
Screened(x, y) == Frame(x, y) /\ (y.flow = "Continue" => Passed(x, y))

\* A frame that returns Stop or Disconnect.
LEMMA FrameScreened ==
  ASSUME NEW x \in State, NEW y, Frame(x, y), NEW f \in {"Stop", "Disconnect"}
  PROVE  Screened(x, Return(y, f)) /\ Return(y, f).flow = f
  <1>1. Return(y, f).flow = f BY DEF Return, Frame, State
  <1>2. Frame(x, Return(y, f)) BY FrameReturn, FieldFacts
  <1> QED BY <1>1, <1>2 DEF Screened

\* The callback stage, for an administrative message.
LEMMA CallbackScreened ==
  ASSUME NEW x \in State, Sane(x), NEW m \in Msg, m.type \notin AppTypes, NEW o \in Oracle
  PROVE  Screened(x, Callback(x, m, o))
  <1> DEFINE r == [x EXCEPT !.test_request_counter = 0, !.delivered = x.delivered]
  <1>1. r \in State BY DEF State
  <1>2. SameView(x, r) /\ r.cfg = x.cfg /\ r.delivered = x.delivered
        /\ r.next_target = x.next_target /\ r.phase = x.phase /\ r.replay = x.replay
    BY DEF SameView, State
  <1>3. o.verdict \in {"ok", "reject_logon", "reject", "unsupported"} BY DEF Oracle, Verdicts
  <1>4. Callback(x, m, o) \in {Return(r, "Continue"), Return(InitiateLogout(IncrTarget(r)), "Disconnect"),
                               Return(SendReject(r, m), "Stop"), Return(SendBusinessReject(r, o), "Stop")}
    BY <1>3 DEF Callback
  <1> HIDE DEF r
  <1>5. Frame(x, r) /\ Sane(r) BY <1>1, <1>2, QuietFrame, FrameSane
  <1>6. Frame(x, IncrTarget(r)) BY <1>1, <1>5, IncrTargetFrame, FrameTrans
  <1>7. Frame(IncrTarget(r), InitiateLogout(IncrTarget(r)))
    BY <1>6, FrameSane, InitiateLogoutFrame
  <1>8. Frame(x, InitiateLogout(IncrTarget(r))) BY <1>6, <1>7, FrameTrans
  <1>9. Frame(x, SendReject(r, m)) /\ Frame(x, SendBusinessReject(r, o))
    BY <1>1, <1>5, SendRejectFrame, SendBusinessRejectFrame, FrameTrans
  <1>10. Frame(x, Return(r, "Continue")) BY <1>5, FrameReturn, FieldFacts
  <1>11. Passed(x, Return(r, "Continue"))
    <2>1. Return(r, "Continue") \in State BY <1>10 DEF Frame
    <2>2. SameView(r, Return(r, "Continue")) BY <1>1 DEF Return, State, SameView
    <2>3. /\ Return(r, "Continue").cfg = r.cfg /\ Return(r, "Continue").delivered = r.delivered
          /\ Return(r, "Continue").next_target = r.next_target
          /\ Return(r, "Continue").phase = r.phase /\ Return(r, "Continue").replay = r.replay
      BY <1>1 DEF Return, State
    <2> QED BY <1>2, <2>1, <2>2, <2>3 DEF Passed, SameView
  <1>12. Screened(x, Return(r, "Continue")) BY <1>10, <1>11 DEF Screened
  <1> QED BY <1>4, <1>8, <1>9, <1>12, FrameScreened

\* The sequence-number stage, for an administrative message.
LEMMA CheckSeqNumScreened ==
  ASSUME NEW x \in State, Sane(x), NEW m \in Msg, m.type \notin AppTypes, NEW o \in Oracle,
         NEW hi \in BOOLEAN, NEW lo \in BOOLEAN
  PROVE  Screened(x, CheckSeqNum(x, m, o, hi, lo))
  <1>1. Screened(x, Return(SendReject(x, m), "Stop")) BY SendRejectFrame, FrameScreened
  <1>2. m.seq > x.next_target => Screened(x, Return(OnTargetTooHigh(x, m), "Stop"))
    BY OnTargetTooHighFrame, FrameScreened
  <1>3. Screened(x, OnTargetTooLow(x, m)) BY OnTargetTooLowFrame DEF Screened
  <1> QED BY <1>1, <1>2, <1>3, CallbackScreened DEF CheckSeqNum

\* The stages of verify before the sequence number, for every message.
LEMMA VerifyStages ==
  ASSUME NEW x \in State, Sane(x), NEW m \in Msg, NEW o \in Oracle,
         NEW hi \in BOOLEAN, NEW lo \in BOOLEAN
  PROVE  \/ Verify(x, m, o, hi, lo) = CheckSeqNum(x, m, o, hi, lo)
         \/ /\ Frame(x, Verify(x, m, o, hi, lo))
            /\ Verify(x, m, o, hi, lo).flow # "Continue"
  <1>1. Frame(x, SendReject(x, m)) /\ Frame(x, InitiateLogout(SendReject(x, m))) /\ Frame(x, x)
    BY SendRejectFrame, RejectLogoutFrame, FrameRefl
  <1>2. \/ Verify(x, m, o, hi, lo) = CheckSeqNum(x, m, o, hi, lo)
        \/ Verify(x, m, o, hi, lo) \in
             {Return(x, "Disconnect"), Return(SendReject(x, m), "Stop"),
              Return(InitiateLogout(SendReject(x, m)), "Stop")}
    BY DEF Verify
  <1>3. \A y, f : Frame(x, y) /\ f \in {"Stop", "Disconnect"} =>
                     Frame(x, Return(y, f)) /\ Return(y, f).flow # "Continue"
    BY FrameScreened DEF Screened
  <1> QED BY <1>1, <1>2, <1>3

\* Session::verify, for an administrative message.
LEMMA VerifyScreened ==
  ASSUME NEW x \in State, Sane(x), NEW m \in Msg, m.type \notin AppTypes, NEW o \in Oracle,
         NEW hi \in BOOLEAN, NEW lo \in BOOLEAN
  PROVE  Screened(x, Verify(x, m, o, hi, lo))
  <1>1. Screened(x, CheckSeqNum(x, m, o, hi, lo)) BY CheckSeqNumScreened
  <1> QED BY <1>1, VerifyStages DEF Screened

--------------------------------------------------------------------------------
(***************************************************************************)
(* The handlers.                                                           *)
(***************************************************************************)
\* A handler's result: good, and in the phase it began in or at the start of
\* a replay; or on its way to being dropped.
Handled(x, y) ==
    \/ Good(y) /\ (y.phase = x.phase \/ ReplayOK(y))
    \/ y.flow = "Disconnect" /\ Dropping(y) /\ y.phase = x.phase

\* A handler that only sends.
LEMMA FrameHandled == ASSUME NEW x, NEW y, Good(x), Frame(x, y) PROVE Handled(x, y)
  BY FrameGood DEF Handled, Frame

\* An application message is delivered exactly when its number is consumed.
LEMMA HandleAppGood ==
  ASSUME NEW x, Good(x), NEW m \in Msg, m.type \in AppTypes, NEW o \in Oracle
  PROVE  Good(HandlePlain(x, m, o)) /\ HandlePlain(x, m, o).phase = x.phase
  <1> DEFINE v == Verify(x, m, o, TRUE, TRUE)
             c == CheckSeqNum(x, m, o, TRUE, TRUE)
             Kept(y) == Good(y) /\ y.phase = x.phase
  <1>1. x \in State /\ Sane(x) BY GoodSane
  <1>2. m.type \notin {"Logon", "SequenceReset"} /\ m.type \in MsgTypes BY DEF AppTypes, MsgTypes
  <1>3. HandlePlain(x, m, o) = IF v.flow = "Continue" THEN IncrTarget(v) ELSE v
    BY DEF HandlePlain
  <1>4. v = c \/ (Frame(x, v) /\ v.flow # "Continue") BY <1>1, VerifyStages
  <1>5. \A y : Frame(x, y) => Kept(y) BY FrameGood DEF Frame
  <1>6. m.seq \in Nat /\ x.next_target \in Nat /\ x.next_target # 0
    BY <1>1, TargetFacts DEF Msg
  <1>7. (m.seq = x.next_target /\ c = Callback(x, m, o)) \/ (Frame(x, c) /\ c.flow # "Continue")
    <2>1. Frame(x, Return(SendReject(x, m), "Stop")) /\ Return(SendReject(x, m), "Stop").flow = "Stop"
      BY <1>1, SendRejectFrame, FrameScreened DEF Screened
    <2>2. m.seq > x.next_target => /\ Frame(x, Return(OnTargetTooHigh(x, m), "Stop"))
                                   /\ Return(OnTargetTooHigh(x, m), "Stop").flow = "Stop"
      BY <1>1, OnTargetTooHighFrame, FrameScreened DEF Screened
    <2>3. Frame(x, OnTargetTooLow(x, m)) /\ OnTargetTooLow(x, m).flow # "Continue"
      BY <1>1, OnTargetTooLowFrame
    <2>4. ~ObeyAnyway(x, m) BY <1>2 DEF ObeyAnyway
    <2>5. CASE m.seq = 0
      <3>1. ~(m.seq > x.next_target) BY <1>6, <2>5
      <3>2. c = Return(SendReject(x, m), "Stop") BY <2>5, <3>1 DEF CheckSeqNum
      <3> HIDE DEF c
      <3> QED BY <2>1, <3>2
    <2>6. CASE m.seq > x.next_target BY <1>6, <2>2, <2>6 DEF CheckSeqNum
    <2>7. CASE m.seq # 0 /\ m.seq < x.next_target
      <3>1. ~(m.seq > x.next_target) BY <1>6, <2>7
      <3> QED BY <2>3, <2>4, <2>7, <3>1 DEF CheckSeqNum
    <2>8. CASE m.seq = x.next_target
      <3>1. ~(m.seq > x.next_target) /\ ~(m.seq < x.next_target) /\ m.seq # 0 BY <1>6, <2>8
      <3> QED BY <2>8, <3>1 DEF CheckSeqNum
    <2> HIDE DEF c
    <2> QED BY <1>6, <2>5, <2>6, <2>7, <2>8
  <1>8. ASSUME m.seq = x.next_target, v = Callback(x, m, o)
        PROVE  Kept(HandlePlain(x, m, o))
    <2> DEFINE d == Append(x.delivered, m.seq)
               r == [x EXCEPT !.test_request_counter = 0, !.delivered = d]
               t == IncrTarget(r)
               b == [WithType("App") EXCEPT !.payload = "business_reject"]
    <2>1. d \in Seq(Nat) BY <1>1, <1>6 DEF State
    <2>2. o.verdict \in {"ok", "reject_logon", "reject", "unsupported"} BY DEF Oracle, Verdicts
    <2>3. v \in {Return(r, "Continue"), Return(InitiateLogout(t), "Disconnect"),
                 Return(SendReject(r, m), "Stop"), Return(SendBusinessReject(r, o), "Stop")}
      BY <1>8, <2>2 DEF Callback
    <2>4. d = Append(x.delivered, x.next_target) BY <1>8
    <2> HIDE DEF d
    <2>5. r \in State BY <1>1, <2>1 DEF State
    <2>6. /\ SameView(x, r) /\ r.delivered = d /\ r.next_target = x.next_target
          /\ r.phase = x.phase
      BY <1>1, <2>1 DEF State, SameView
    <2> HIDE DEF r
    <2>7. t \in State BY <2>5, IncrTargetType
    <2>8. /\ SameView(r, t) /\ t.delivered = r.delivered /\ t.next_target = r.next_target + 1
          /\ t.phase = r.phase
      BY <2>5 DEF IncrTarget, State, SameView
    <2>9. SameView(x, t) BY <2>6, <2>8 DEF SameView
    <2>10. Kept(t) BY <2>4, <2>6, <2>7, <2>8, <2>9, DeliveredGood
    <2>11. SendReject(r, m) = SendMessage(t, WithType("Reject"))
      BY <1>2, <1>8, <2>6 DEF SendReject
    <2>12. SendBusinessReject(r, o) \in {t, SendMessage(t, b)} BY DEF SendBusinessReject
    <2>13. WithType("Reject") \in Msg /\ WithType("App") \in Msg BY WithTypeType, TypeNames
    <2>14. b \in Msg BY <2>13 DEF Msg, Payload
    <2>15. IncrTarget(Return(r, "Continue")) = Return(t, "Continue")
      BY <2>5 DEF IncrTarget, Return, State
    <2> HIDE DEF t, b, v, Kept
    <2>16. \A y, f : Frame(t, y) /\ f \in Flows => Kept(Return(y, f))
      <3> SUFFICES ASSUME NEW y, NEW f, Frame(t, y), f \in Flows PROVE Kept(Return(y, f))
        OBVIOUS
      <3>1. Frame(t, Return(y, f)) BY <2>7, FrameReturn
      <3> QED BY <2>8, <2>6, <2>10, <3>1, FrameGood DEF Frame, Kept
    <2>17. /\ Frame(t, t) /\ Frame(t, InitiateLogout(t)) /\ Frame(t, SendMessage(t, b))
           /\ Frame(t, SendMessage(t, WithType("Reject")))
      BY <2>7, <2>10, <2>13, <2>14, GoodSane, FrameRefl, InitiateLogoutFrame, SendMessageFrame
      DEF Kept
    <2>18. \A f \in Flows : Return(r, f).flow = f BY <2>5 DEF Return, State
    <2>19. \A y, f : Frame(t, y) /\ f \in Flows => Return(y, f).flow = f
      BY DEF Return, Frame, State
    <2> HIDE DEF v
    <2>20. CASE v = Return(r, "Continue")
      BY <1>3, <2>15, <2>16, <2>17, <2>18, <2>20, FieldFacts
    <2>21. CASE v = Return(InitiateLogout(t), "Disconnect")
      BY <1>3, <2>16, <2>17, <2>19, <2>21, FieldFacts
    <2>22. CASE v = Return(SendReject(r, m), "Stop")
      BY <1>3, <2>11, <2>16, <2>17, <2>19, <2>22, FieldFacts
    <2>23. CASE v = Return(SendBusinessReject(r, o), "Stop")
      BY <1>3, <2>12, <2>16, <2>17, <2>19, <2>23, FieldFacts
    <2> QED BY <2>3, <2>20, <2>21, <2>22, <2>23
  <1> HIDE DEF v, c
  <1> QED BY <1>3, <1>4, <1>5, <1>7, <1>8

\* Verified and passed is a frame too.
LEMMA PassedFrame == ASSUME NEW x \in State, NEW y, Passed(x, y) PROVE Frame(x, y)
  BY QuietFrame DEF Passed

\* Heartbeat and Reject.
LEMMA HandlePlainFrame ==
  ASSUME NEW x \in State, Sane(x), NEW m \in Msg, m.type \notin AppTypes, NEW o \in Oracle
  PROVE  Frame(x, HandlePlain(x, m, o))
  <1> DEFINE v == Verify(x, m, o, TRUE, TRUE)
  <1>1. Frame(x, v) BY VerifyScreened DEF Screened
  <1>2. HandlePlain(x, m, o) \in {v, IncrTarget(v)} BY DEF HandlePlain
  <1> HIDE DEF v
  <1>3. Frame(x, IncrTarget(v))
    <2>1. v \in State BY <1>1 DEF Frame
    <2>2. Frame(v, IncrTarget(v)) BY <2>1, IncrTargetFrame
    <2> QED BY <1>1, <2>2, FrameTrans
  <1> QED BY <1>1, <1>2, <1>3

\* Session::handle_test_request.
LEMMA HandleTestRequestFrame ==
  ASSUME NEW x \in State, Sane(x), NEW m \in Msg, m.type \notin AppTypes, NEW o \in Oracle
  PROVE  Frame(x, HandleTestRequest(x, m, o))
  <1> DEFINE v == Verify(x, m, o, TRUE, TRUE)
             h == SendMessage(v, WithType("Heartbeat"))
  <1>1. Frame(x, v) BY VerifyScreened DEF Screened
  <1>2. HandleTestRequest(x, m, o) \in {v, IncrTarget(h)} BY DEF HandleTestRequest
  <1> HIDE DEF v
  <1>3. WithType("Heartbeat") \in Msg BY WithTypeType, TypeNames
  <1>4. Frame(v, h) BY <1>1, <1>3, FrameSane, SendMessageFrame
  <1>5. Frame(x, h) BY <1>1, <1>4, FrameTrans
  <1>6. h \in State BY <1>5 DEF Frame
  <1>7. Frame(h, IncrTarget(h)) BY <1>6, IncrTargetFrame
  <1>8. Frame(x, IncrTarget(h)) BY <1>5, <1>7, FrameTrans
  <1> QED BY <1>1, <1>2, <1>8

\* Session::handle_sequence_reset never lowers the expected number.
LEMMA HandleSequenceResetFrame ==
  ASSUME NEW x \in State, Sane(x), NEW m \in Msg, m.type \notin AppTypes, NEW o \in Oracle
  PROVE  Frame(x, HandleSequenceReset(x, m, o))
  <1> DEFINE v == Verify(x, m, o, m.flag, m.flag)
             moved == [v EXCEPT !.next_target = m.num, !.stash = {y \in @ : y.seq >= m.num}]
  <1>1. m.flag \in BOOLEAN /\ m.num \in Nat BY DEF Msg
  <1>2. Frame(x, v) BY <1>1, VerifyScreened DEF Screened
  <1>3. \/ HandleSequenceReset(x, m, o) = moved /\ m.num > v.next_target
        \/ HandleSequenceReset(x, m, o) = SendReject(v, m)
        \/ HandleSequenceReset(x, m, o) = v
    BY DEF HandleSequenceReset
  <1> HIDE DEF v
  <1>4. v \in State /\ Sane(v) BY <1>2, FrameSane
  <1>5. ASSUME m.num > v.next_target PROVE Frame(x, moved)
    <2>1. m.num \in SeqNum /\ v.next_target <= m.num
      BY <1>1, <1>4, <1>5, TargetFacts DEF SeqNum
    <2>2. {y \in v.stash : y.seq >= m.num} \in SUBSET Msg BY <1>4 DEF State
    <2>3. moved \in State BY <1>4, <2>1, <2>2 DEF State
    <2>4. /\ SameView(v, moved) /\ moved.delivered = v.delivered /\ moved.next_target = m.num
          /\ moved.phase = v.phase /\ moved.replay = v.replay
      BY <1>4 DEF State, SameView
    <2> HIDE DEF moved
    <2>5. Frame(v, moved) BY <2>1, <2>3, <2>4 DEF Frame, LogKept
    <2> QED BY <1>2, <2>5, FrameTrans
  <1>6. Frame(x, SendReject(v, m)) BY <1>2, <1>4, SendRejectFrame, FrameTrans
  <1> QED BY <1>2, <1>3, <1>5, <1>6

\* Session::handle_logout.
LEMMA HandleLogoutFrame ==
  ASSUME NEW x \in State, Sane(x), NEW m \in Msg, m.type \notin AppTypes, NEW o \in Oracle
  PROVE  Frame(x, HandleLogout(x, m, o))
  <1> DEFINE v == Verify(x, m, o, FALSE, FALSE)
             w == IF v.sent_logout THEN v ELSE InitiateLogout(v)
             r == IncrTarget(w)
  <1>1. Frame(x, v) BY VerifyScreened DEF Screened
  <1>2. HandleLogout(x, m, o) \in {v, Return(StoreReset(r), "Disconnect"), Return(r, "Disconnect")}
    BY DEF HandleLogout
  <1> HIDE DEF v
  <1>3. v \in State /\ Sane(v) BY <1>1, FrameSane
  <1>4. Frame(v, w) BY <1>3, InitiateLogoutFrame, FrameRefl
  <1> HIDE DEF w
  <1>5. Frame(x, w) BY <1>1, <1>4, FrameTrans
  <1>6. w \in State BY <1>5 DEF Frame
  <1>7. Frame(w, r) BY <1>6, IncrTargetFrame
  <1> HIDE DEF r
  <1>8. Frame(x, r) BY <1>5, <1>7, FrameTrans
  <1>9. r \in State BY <1>8 DEF Frame
  <1>10. Frame(r, StoreReset(r)) BY <1>9, StoreResetFrame
  <1>11. Frame(x, StoreReset(r)) BY <1>8, <1>10, FrameTrans
  <1> QED BY <1>1, <1>2, <1>8, <1>11, FrameReturn, FieldFacts

\* No frame sent yet: the empty replay tiles up to its beginning.
LEMMA TilesEmpty ==
  ASSUME NEW frames \in Seq(Msg), NEW b \in Nat PROVE Tiles(frames, Len(frames), b, b)
  <1>1. Len(frames) \in Nat BY LenProperties
  <1>2. (Len(frames) + 1)..Len(frames) = {} BY <1>1
  <1> QED BY <1>2 DEF Tiles

\* Session::answer_resend: a replay starts in order, or the request is done.
LEMMA AnswerResendHandled ==
  ASSUME NEW x, Good(x), NEW begin \in Nat, begin # 0, NEW end \in Nat, NEW request \in Nat
  PROVE  Handled(x, AnswerResend(x, begin, end, request))
  <1> DEFINE p == [begin |-> begin, seq |-> begin, end |-> end, gap_begin |-> 0,
                   request |-> request, mark |-> Len(x.out)]
             y == [x EXCEPT !.phase = "resend", !.replay = p]
             g == SendGapFill(x, begin, end + 1)
  <1>1. x \in State /\ Sane(x) BY GoodSane
  <1>2. Frame(x, g) BY <1>1, SendGapFillFrame
  <1>3. \A z : Frame(x, z) => Frame(x, ConsumeRequest(z, request))
    <2> SUFFICES ASSUME NEW z, Frame(x, z) PROVE Frame(x, ConsumeRequest(z, request))
      OBVIOUS
    <2>1. z \in State BY DEF Frame
    <2>2. Frame(z, IncrTarget(z)) BY <2>1, IncrTargetFrame
    <2>3. Frame(x, IncrTarget(z)) BY <1>1, <2>2, FrameTrans
    <2> QED BY <2>3 DEF ConsumeRequest
  <1>4. Frame(x, ConsumeRequest(x, request)) /\ Frame(x, ConsumeRequest(g, request))
    BY <1>1, <1>2, <1>3, FrameRefl
  <1>5. \/ AnswerResend(x, begin, end, request) = ConsumeRequest(x, request)
        \/ AnswerResend(x, begin, end, request) = ConsumeRequest(g, request)
        \/ begin <= end /\ AnswerResend(x, begin, end, request) = y
    BY <1>1 DEF AnswerResend, State, Config
  <1>6. ASSUME begin <= end PROVE Good(y) /\ ReplayOK(y)
    <2>1. x.out \in Seq(Msg) /\ Len(x.out) \in Nat BY <1>1, LenProperties DEF State
    <2>2. p \in Replay BY <2>1 DEF Replay
    <2>3. p.seq = begin /\ p.begin = begin /\ p.end = end /\ p.gap_begin = 0 /\ p.mark = Len(x.out)
      OBVIOUS
    <2> HIDE DEF p
    <2>4. y \in State BY <1>1, <2>2, FieldFacts DEF State
    <2>5. /\ SameView(x, y) /\ y.delivered = x.delivered /\ y.next_target = x.next_target
          /\ y.replay = p /\ y.out = x.out
      BY <1>1, <2>2 DEF State, SameView
    <2> HIDE DEF y
    <2>6. View(y) /\ Ordered(y) BY <2>5 DEF Good, View, Ordered, SameView, IsLoggedOn
    <2>7. Tiles(x.out, Len(x.out), begin, begin) BY <2>1, TilesEmpty
    <2>8. begin <= end + 1 /\ Len(x.out) <= Len(x.out) BY <1>6, <2>1
    <2> QED BY <2>3, <2>4, <2>5, <2>6, <2>7, <2>8 DEF Good, ReplayOK
  <1> HIDE DEF y, g
  <1> QED BY <1>4, <1>5, <1>6, FrameHandled DEF Handled

\* Session::handle_resend_request.
LEMMA HandleResendRequestHandled ==
  ASSUME NEW x, Good(x), NEW m \in Msg, m.type \notin AppTypes, m.num # 0, NEW o \in Oracle
  PROVE  Handled(x, HandleResendRequest(x, m, o))
  <1> DEFINE v == Verify(x, m, o, FALSE, FALSE)
             end == IF m.end = 0 \/ m.end >= v.next_sender THEN v.next_sender - 1 ELSE m.end
  <1>1. x \in State /\ Sane(x) BY GoodSane
  <1>2. Frame(x, v) BY <1>1, VerifyScreened DEF Screened
  <1>3. HandleResendRequest(x, m, o) = IF v.flow = "Continue" THEN AnswerResend(v, m.num, end, m.seq) ELSE v
    BY DEF HandleResendRequest
  <1> HIDE DEF v
  <1>4. v \in State /\ Good(v) /\ v.phase = x.phase BY <1>2, FrameGood DEF Frame
  <1>5. end \in Nat BY <1>4, SeqNumFacts DEF State, Msg
  <1>6. m.num \in Nat /\ m.seq \in Nat BY DEF Msg
  <1> HIDE DEF end
  <1>7. Handled(v, AnswerResend(v, m.num, end, m.seq)) BY <1>4, <1>5, <1>6, AnswerResendHandled
  <1> QED BY <1>2, <1>3, <1>4, <1>7, FrameHandled DEF Handled

\* The resets a Logon asks for touch neither the connection nor the flags.
LEMMA LogonResetsFrame ==
  ASSUME NEW x \in State, NEW m \in Msg
  PROVE  /\ Frame(x, LogonResets(x, m)) /\ SameView(x, LogonResets(x, m))
         /\ LogonResets(x, m).cfg = x.cfg
  <1> DEFINE r == [x EXCEPT !.received_reset = @ \/ m.flag]
  <1>1. (x.received_reset \/ m.flag) \in BOOLEAN OBVIOUS
  <1>2. r \in State BY <1>1 DEF State
  <1>3. /\ SameView(x, r) /\ r.delivered = x.delivered /\ r.next_target = x.next_target
        /\ r.phase = x.phase /\ r.replay = x.replay /\ r.cfg = x.cfg
    BY DEF State, SameView
  <1>4. LogonResets(x, m) \in {r, StoreReset(r)} BY DEF LogonResets
  <1> HIDE DEF r
  <1>5. Frame(x, r) BY <1>2, <1>3, QuietFrame
  <1>6. Frame(x, StoreReset(r)) BY <1>2, <1>5, StoreResetFrame, FrameTrans
  <1>7. SameView(r, StoreReset(r)) /\ StoreReset(r).cfg = r.cfg
    BY <1>2 DEF StoreReset, State, SameView
  <1>8. SameView(x, StoreReset(r)) BY <1>3, <1>7 DEF SameView
  <1> QED BY <1>3, <1>4, <1>5, <1>6, <1>7, <1>8

\* Session::send_logon_reply on a live connection whose Logon was received.
LEMMA SendLogonReplyJoined ==
  ASSUME NEW x \in State, Ordered(x), x.connected, x.received_logon
  PROVE  Joined(SendLogonReply(x)) /\ SendLogonReply(x).phase = x.phase
  <1> DEFINE flag == x.received_reset /\ x.cfg.send_next_expected
             y == [x EXCEPT !.sent_reset = @ \/ x.received_reset, !.sent_logon = TRUE]
             num == IF x.cfg.send_next_expected THEN x.next_target + 1 ELSE 0
             m == [WithType("Logon") EXCEPT !.flag = flag, !.num = num]
  <1>1. flag \in BOOLEAN /\ (x.sent_reset \/ x.received_reset) \in BOOLEAN OBVIOUS
  <1>2. num \in Nat BY SeqNumFacts DEF State
  <1>3. SendLogonReply(x) = SendMessage(y, m) BY DEF SendLogonReply
  <1> HIDE DEF flag, num
  <1>4. y \in State BY <1>1 DEF State
  <1>5. WithType("Logon") \in Msg BY WithTypeType, TypeNames
  <1>6. m \in Msg BY <1>1, <1>2, <1>5 DEF Msg
  <1>7. /\ y.connected /\ y.received_logon /\ y.sent_logon /\ y.phase = x.phase
        /\ y.delivered = x.delivered /\ y.next_target = x.next_target
    BY DEF State
  <1> HIDE DEF y, m
  <1>8. Joined(y) BY <1>4, <1>7 DEF Joined, Ordered
  <1>9. Sane(y) BY <1>7 DEF Sane
  <1>10. Frame(y, SendMessage(y, m)) BY <1>4, <1>6, <1>9, SendMessageFrame
  <1>11. Joined(SendMessage(y, m)) BY <1>8, <1>10, FrameJoined
  <1> QED BY <1>3, <1>7, <1>10, <1>11 DEF Frame

\* An accepted Logon: both sides are logged on and the application knows, or
\* the reply found the connection dead.
LEMMA AcceptLogonHandled ==
  ASSUME NEW x \in State, Ordered(x), x.connected, x.received_logon,
         x.cfg.initiator => x.sent_logon, x.app_online => x.sent_logon, NEW m \in Msg
  PROVE  Handled(x, AcceptLogon(x, m))
  <1> DEFINE gap == IF x.cfg.send_next_expected /\ m.num # 0 /\ m.num < x.next_sender
                    THEN m.num ELSE 0
             r1 == IF x.cfg.initiator THEN x ELSE SendLogonReply(x)
             r2 == [r1 EXCEPT !.sent_reset = FALSE, !.received_reset = FALSE]
             range == [begin |-> r2.next_target, full_end |-> m.seq - 1, chunk_end |-> m.seq - 1]
             st == [StashInsert(r2, m) EXCEPT !.resend_range = range]
             r3 == CASE m.seq <= r2.next_target -> IncrTarget(r2)
                     [] m.seq > r2.next_target /\ x.cfg.send_next_expected /\ ~m.flag -> st
                     [] OTHER -> OnTargetTooHigh(r2, m)
             r4 == [r3 EXCEPT !.app_online = @ \/ IsLoggedOn(r3)]
  <1>1. m.num \in Nat /\ m.seq \in Nat BY DEF Msg
  <1>2. gap \in Nat BY <1>1
  <1>3. Joined(r1) /\ r1.phase = x.phase BY SendLogonReplyJoined DEF Joined
  <1>4. AcceptLogon(x, m) = IF gap # 0 THEN AnswerResend(r4, gap, r4.next_sender - 1, 0) ELSE r4
    BY DEF AcceptLogon
  <1> HIDE DEF r1, gap
  <1>5. r1 \in State BY <1>3 DEF Joined
  <1>6. r2 \in State BY <1>5 DEF State
  <1>7. /\ SameView(r1, r2) /\ r2.delivered = r1.delivered /\ r2.next_target = r1.next_target
        /\ r2.phase = r1.phase /\ r2.replay = r1.replay
    BY <1>5 DEF State, SameView
  <1> HIDE DEF r2
  <1>8. Frame(r1, r2) BY <1>5, <1>6, <1>7, QuietFrame
  <1>9. Joined(r2) /\ r2.phase = x.phase BY <1>3, <1>7, <1>8, FrameJoined
  <1>10. Sane(r2) BY <1>9 DEF Joined, Offline, Sane
  <1>11. r2.next_target \in Nat BY <1>6, TargetFacts
  <1>12. Frame(r2, r3)
    <2>1. CASE m.seq <= r2.next_target
      <3>1. Frame(r2, IncrTarget(r2)) BY <1>6, IncrTargetFrame
      <3>2. ~(m.seq > r2.next_target) BY <1>1, <1>11, <2>1
      <3> HIDE DEF st
      <3> QED BY <2>1, <3>1, <3>2
    <2>2. CASE m.seq > r2.next_target
      <3>1. m.seq - 1 \in Nat BY <1>1, <1>11, <2>2
      <3>2. range \in ResendRange BY <3>1, <1>11 DEF ResendRange
      <3> HIDE DEF range
      <3>3. StashInsert(r2, m) \in State BY <1>6, StashInsertType
      <3>4. st \in State BY <3>2, <3>3 DEF State
      <3>5. /\ SameView(r2, st) /\ st.delivered = r2.delivered
            /\ st.next_target = r2.next_target /\ st.phase = r2.phase /\ st.replay = r2.replay
        BY <1>6 DEF StashInsert, State, SameView
      <3> HIDE DEF st
      <3>6. Frame(r2, st) BY <1>6, <3>4, <3>5, QuietFrame
      <3>7. Frame(r2, OnTargetTooHigh(r2, m)) BY <1>6, <1>10, <2>2, OnTargetTooHighFrame
      <3>8. ~(m.seq <= r2.next_target) BY <1>1, <1>11, <2>2
      <3> QED BY <3>6, <3>7, <3>8
    <2> QED BY <2>1, <2>2, <1>1, <1>11
  <1> HIDE DEF r3, st, range
  <1>13. Joined(r3) /\ r3.phase = x.phase BY <1>9, <1>12, FrameJoined DEF Frame
  <1>14. r3 \in State BY <1>13 DEF Joined
  <1>15. (r3.app_online \/ IsLoggedOn(r3)) \in BOOLEAN OBVIOUS
  <1>16. r4 \in State BY <1>14, <1>15 DEF State
  <1>17. /\ r4.app_online = (r3.app_online \/ IsLoggedOn(r3))
         /\ r4.connected = r3.connected /\ r4.received_logon = r3.received_logon
         /\ r4.sent_logon = r3.sent_logon /\ r4.delivered = r3.delivered
         /\ r4.next_target = r3.next_target /\ r4.phase = r3.phase
    BY <1>14, <1>15 DEF State
  <1> HIDE DEF r4
  <1>18. Good(r4) BY <1>13, <1>16, <1>17 DEF Good, View, Joined, Offline, Ordered, IsLoggedOn
  <1>19. r4.next_sender - 1 \in Nat BY <1>16, SeqNumFacts DEF State
  <1>20. gap # 0 => Handled(r4, AnswerResend(r4, gap, r4.next_sender - 1, 0))
    BY <1>2, <1>18, <1>19, AnswerResendHandled
  <1> QED BY <1>4, <1>13, <1>17, <1>18, <1>20 DEF Handled

\* Session::handle_logon on a live connection.
LEMMA HandleLogonHandled ==
  ASSUME NEW x, Good(x), x.connected, NEW m \in Msg, m.type \notin AppTypes, NEW o \in Oracle
  PROVE  Handled(x, HandleLogon(x, m, o))
  <1> DEFINE r == LogonResets(x, m)
             v == Verify(r, m, o, FALSE, TRUE)
             a == [v EXCEPT !.received_logon = TRUE]
  <1>1. x \in State /\ Sane(x) BY GoodSane
  <1>2. Frame(x, r) /\ SameView(x, r) /\ r.cfg = x.cfg BY <1>1, LogonResetsFrame
  <1>3. \/ HandleLogon(x, m, o) = Return(x, "Disconnect")
        \/ HandleLogon(x, m, o) = Return(r, "Disconnect")
        \/ HandleLogon(x, m, o) = v /\ v.flow # "Continue"
        \/ /\ v.flow = "Continue" /\ (x.cfg.initiator => x.sent_logon)
           /\ \/ HandleLogon(x, m, o) = Return(InitiateLogout(a), "Disconnect")
              \/ HandleLogon(x, m, o) = AcceptLogon(a, m)
    BY DEF HandleLogon
  <1>4. r \in State /\ Sane(r) BY <1>1, <1>2, FrameSane
  <1> HIDE DEF r
  <1>5. Screened(r, v) BY <1>4, VerifyScreened
  <1> HIDE DEF v
  <1>6. Frame(x, v) BY <1>1, <1>2, <1>5, FrameTrans DEF Screened
  <1>7. Handled(x, Return(x, "Disconnect")) /\ Handled(x, Return(r, "Disconnect")) /\ Handled(x, v)
    BY <1>1, <1>2, <1>6, FrameRefl, FrameReturn, FrameHandled, FieldFacts
  <1>8. ASSUME v.flow = "Continue", x.cfg.initiator => x.sent_logon
        PROVE  Handled(x, Return(InitiateLogout(a), "Disconnect")) /\ Handled(x, AcceptLogon(a, m))
    <2>1. v \in State /\ SameView(r, v) /\ v.cfg = r.cfg /\ v.phase = r.phase
      BY <1>5, <1>8 DEF Screened, Passed
    <2>2. Ordered(v) BY <1>6, FrameOrdered DEF Good
    <2>3. a \in State BY <2>1 DEF State
    <2>4. /\ a.received_logon /\ a.connected = v.connected /\ a.sent_logon = v.sent_logon
          /\ a.app_online = v.app_online /\ a.cfg = v.cfg /\ a.delivered = v.delivered
          /\ a.next_target = v.next_target /\ a.phase = v.phase
      BY <2>1 DEF State
    <2> HIDE DEF a
    <2>5. Ordered(a) BY <2>2, <2>4 DEF Ordered
    <2>6. /\ a.connected /\ (a.cfg.initiator => a.sent_logon) /\ (a.app_online => a.sent_logon)
          /\ a.phase = x.phase
      BY <1>2, <1>8, <2>1, <2>4 DEF SameView, Good, View, IsLoggedOn, Frame
    <2>7. Handled(a, AcceptLogon(a, m)) BY <2>3, <2>4, <2>5, <2>6, AcceptLogonHandled
    <2>8. Sane(a) BY <2>4 DEF Sane
    <2> DEFINE z == Return(InitiateLogout(a), "Disconnect")
    <2>9. Frame(a, InitiateLogout(a)) BY <2>3, <2>8, InitiateLogoutFrame
    <2>10. Frame(a, z) /\ z.flow = "Disconnect"
      BY <2>3, <2>9, FrameScreened DEF Screened
    <2> HIDE DEF z
    <2>11. Ordered(z) /\ Sane(z) BY <2>3, <2>5, <2>8, <2>10, FrameOrdered, FrameSane
    <2>12. Dropping(z) BY <2>6, <2>10, <2>11 DEF Dropping, Frame, SameView
    <2>13. Handled(x, z) BY <2>6, <2>10, <2>12 DEF Handled, Frame
    <2> QED BY <2>6, <2>7, <2>13 DEF Handled, z
  <1> QED BY <1>3, <1>7, <1>8

\* Session::process.
LEMMA ProcessHandled ==
  ASSUME NEW x, Good(x), NEW m \in Msg, NEW o \in Oracle,
         m.type = "Logon" => x.connected, m.type = "ResendRequest" => m.num # 0
  PROVE  Handled(x, Process(x, m, o))
  <1>1. x \in State /\ Sane(x) BY GoodSane
  <1>2. Handled(x, x) BY <1>1, FrameRefl, FrameHandled
  <1>3. Handled(x, Return(InitiateLogout(IncrTarget(x)), "Disconnect"))
    <2>1. Frame(x, IncrTarget(x)) BY <1>1, IncrTargetFrame
    <2>2. Frame(IncrTarget(x), InitiateLogout(IncrTarget(x)))
      BY <1>1, <2>1, FrameSane, InitiateLogoutFrame
    <2>3. Frame(x, InitiateLogout(IncrTarget(x))) BY <1>1, <2>1, <2>2, FrameTrans
    <2> QED BY <1>1, <2>3, FrameReturn, FrameHandled, FieldFacts
  <1>4. Handled(x, SendReject(x, m)) BY <1>1, SendRejectFrame, FrameHandled
  <1>5. m.type = "Logon" => Handled(x, HandleLogon(x, m, o))
    BY HandleLogonHandled DEF AppTypes
  <1>6. m.type = "TestRequest" => Handled(x, HandleTestRequest(x, m, o))
    BY <1>1, HandleTestRequestFrame, FrameHandled DEF AppTypes
  <1>7. m.type = "ResendRequest" => Handled(x, HandleResendRequest(x, m, o))
    BY HandleResendRequestHandled DEF AppTypes
  <1>8. m.type = "SequenceReset" => Handled(x, HandleSequenceReset(x, m, o))
    BY <1>1, HandleSequenceResetFrame, FrameHandled DEF AppTypes
  <1>9. m.type = "Logout" => Handled(x, HandleLogout(x, m, o))
    BY <1>1, HandleLogoutFrame, FrameHandled DEF AppTypes
  <1>10. Handled(x, HandlePlain(x, m, o))
    <2>1. CASE m.type \in AppTypes BY <2>1, HandleAppGood DEF Handled
    <2>2. CASE m.type \notin AppTypes BY <1>1, <2>2, HandlePlainFrame, FrameHandled
    <2> QED BY <2>1, <2>2
  <1> QED BY <1>2, <1>3, <1>4, <1>5, <1>6, <1>7, <1>8, <1>9, <1>10 DEF Process

\* A handler's Err(Disconnect) ends in a good record.
LEMMA AbortGood ==
  ASSUME NEW x, Good(x) \/ Dropping(x) PROVE Good(Abort(x)) /\ Abort(x).phase = "idle"
  <1> DEFINE d == Disconnect(x)
  <1>1. x \in State /\ Sane(x) /\ Ordered(x) BY GoodSane DEF Dropping, Good
  <1>2. Frame(x, d) /\ ~d.connected BY <1>1, DisconnectFrame
  <1>3. Abort(x) = [d EXCEPT !.flow = "Continue", !.phase = "idle", !.replay = NoReplay]
    BY DEF Abort
  <1> HIDE DEF d
  <1>4. d \in State BY <1>2 DEF Frame
  <1>5. Ordered(d) BY <1>1, <1>2, FrameOrdered
  <1>6. View(d)
    <2>1. CASE Good(x) BY <1>2, <2>1, FrameGood DEF Good
    <2>2. CASE Dropping(x)
      BY <1>2, <2>2 DEF Dropping, Frame, SameView, Offline, View, IsLoggedOn
    <2> QED BY <2>1, <2>2
  <1>7. Abort(x) \in State BY <1>1, AbortType
  <1>8. /\ SameView(d, Abort(x)) /\ Abort(x).delivered = d.delivered
        /\ Abort(x).next_target = d.next_target /\ Abort(x).phase = "idle"
    BY <1>3, <1>4 DEF State, SameView
  <1> QED BY <1>5, <1>6, <1>7, <1>8 DEF Good, View, Ordered, SameView, IsLoggedOn

\* Entering drain_stash.
LEMMA EnterDrainGood ==
  ASSUME NEW x, Good(x)
  PROVE  /\ Good(EnterDrain(x)) /\ EnterDrain(x).phase = "drain"
         /\ EnterDrain(x).out = x.out /\ EnterDrain(x).connected = x.connected
  <1> DEFINE y == EnterDrain(x)
  <1>1. x \in State BY GoodSane
  <1>2. y \in State BY <1>1, EnterDrainType
  <1>3. /\ SameView(x, y) /\ y.delivered = x.delivered /\ y.next_target = x.next_target
        /\ y.phase = "drain" /\ y.out = x.out
    BY <1>1 DEF EnterDrain, State, SameView
  <1> HIDE DEF y
  <1>4. Good(y) BY <1>2, <1>3 DEF Good, View, Ordered, SameView, IsLoggedOn
  <1> QED BY <1>3, <1>4 DEF y, SameView

\* A return keeps a record good and its replay in order.
LEMMA ReturnGood ==
  ASSUME NEW x, Good(x), ReplayOK(x), NEW f \in Flows
  PROVE  Good(Return(x, f)) /\ ReplayOK(Return(x, f))
  <1> DEFINE y == Return(x, f)
  <1>1. x \in State BY GoodSane
  <1>2. Frame(x, y) BY <1>1, ReturnFrame
  <1>3. y.phase = x.phase /\ y.replay = x.replay /\ y.out = x.out /\ y.connected = x.connected
    BY <1>1 DEF Return, State
  <1> HIDE DEF y
  <1>4. ReplayOK(y) BY <1>3 DEF ReplayOK
  <1> QED BY <1>2, <1>4, FrameGood DEF y

\* Session::on_inbound up to drain_stash.
LEMMA OnInboundGood ==
  ASSUME NEW x, Good(x), x.connected, x.phase = "idle", NEW m \in Msg, NEW o \in Oracle,
         m.type = "ResendRequest" => m.num # 0
  PROVE  Good(OnInbound(x, m, o)) /\ ReplayOK(OnInbound(x, m, o))
  <1> DEFINE r == Process(x, m, o)
  <1>1. x \in State /\ Sane(x) BY GoodSane
  <1>2. Handled(x, r) BY ProcessHandled
  <1>3. \/ OnInbound(x, m, o) \in {x, Disconnect(x)}
        \/ OnInbound(x, m, o) = Abort(r) /\ r.flow = "Disconnect"
        \/ /\ r.flow # "Disconnect" /\ r.phase = "resend"
           /\ OnInbound(x, m, o) = Return(r, "Continue")
        \/ r.flow # "Disconnect" /\ OnInbound(x, m, o) = EnterDrain(r)
    BY DEF OnInbound, Return
  <1> HIDE DEF r
  <1>4. \A y : Frame(x, y) => Good(y) /\ ReplayOK(y) BY FrameGood DEF ReplayOK, Frame
  <1>5. CASE OnInbound(x, m, o) \in {x, Disconnect(x)}
    BY <1>1, <1>4, <1>5, FrameRefl, DisconnectFrame
  <1>6. CASE OnInbound(x, m, o) = Abort(r) /\ r.flow = "Disconnect"
    BY <1>2, <1>6, AbortGood DEF Handled, ReplayOK
  <1>7. CASE r.flow # "Disconnect" /\ r.phase = "resend" /\ OnInbound(x, m, o) = Return(r, "Continue")
    <2>1. Good(r) /\ ReplayOK(r) BY <1>2, <1>7 DEF Handled
    <2> QED BY <1>7, <2>1, ReturnGood, FieldFacts
  <1>8. CASE r.flow # "Disconnect" /\ OnInbound(x, m, o) = EnterDrain(r)
    BY <1>2, <1>8, EnterDrainGood DEF Handled, ReplayOK
  <1> QED BY <1>3, <1>5, <1>6, <1>7, <1>8

\* One iteration of Session::drain_stash.
LEMMA DrainStepGood ==
  ASSUME NEW x, Good(x), x.phase = "drain", NEW m \in Msg, NEW o \in Oracle
  PROVE  Good(DrainStep(x, m, o)) /\ ReplayOK(DrainStep(x, m, o))
  <1> DEFINE q == [x EXCEPT !.stash = @ \ {m}, !.last_processed_was_queued = TRUE]
             r == Process(q, m, o)
  <1>1. x \in State /\ Sane(x) BY GoodSane
  <1>2. q \in State BY <1>1 DEF State
  <1>3. /\ SameView(x, q) /\ q.delivered = x.delivered /\ q.next_target = x.next_target
        /\ q.phase = x.phase /\ q.replay = x.replay
    BY <1>1 DEF State, SameView
  <1>4. \/ DrainStep(x, m, o) = IncrTarget(q)
        \/ ~OnlyAdvances(m) /\ r.flow = "Disconnect" /\ DrainStep(x, m, o) = Abort(r)
        \/ ~OnlyAdvances(m) /\ r.flow # "Disconnect" /\ DrainStep(x, m, o) = Return(r, "Continue")
    BY DEF DrainStep
  <1> HIDE DEF q
  <1>5. Frame(x, q) BY <1>1, <1>2, <1>3, QuietFrame
  <1>6. Good(q) /\ q.phase = "drain" BY <1>3, <1>5, FrameGood
  <1>7. ~OnlyAdvances(m) => Handled(q, r) BY <1>6, ProcessHandled DEF OnlyAdvances
  <1> HIDE DEF r
  <1>8. CASE DrainStep(x, m, o) = IncrTarget(q)
    <2>1. Frame(q, IncrTarget(q)) BY <1>2, IncrTargetFrame
    <2> QED BY <1>6, <1>8, <2>1, FrameGood DEF ReplayOK, Frame
  <1>9. CASE ~OnlyAdvances(m) /\ r.flow = "Disconnect" /\ DrainStep(x, m, o) = Abort(r)
    BY <1>7, <1>9, AbortGood DEF Handled, ReplayOK
  <1>10. CASE ~OnlyAdvances(m) /\ r.flow # "Disconnect" /\ DrainStep(x, m, o) = Return(r, "Continue")
    <2>1. Good(r) /\ ReplayOK(r) BY <1>6, <1>7, <1>10 DEF Handled, ReplayOK
    <2> QED BY <1>10, <2>1, ReturnGood, FieldFacts
  <1> QED BY <1>4, <1>8, <1>9, <1>10

\* The end of Session::drain_stash.
LEMMA DrainEndGood ==
  ASSUME NEW x, Good(x) PROVE Good(DrainEnd(x)) /\ DrainEnd(x).phase = "idle"
  <1> DEFINE c == CheckResendChunks(x)
             y == [c EXCEPT !.phase = "idle"]
  <1>1. Frame(x, c) BY GoodSane, CheckResendChunksFrame
  <1>2. DrainEnd(x) = y BY DEF DrainEnd
  <1> HIDE DEF c
  <1>3. Good(c) /\ c \in State BY <1>1, FrameGood DEF Frame
  <1>4. y \in State BY <1>3, FieldFacts DEF State
  <1>5. /\ SameView(c, y) /\ y.delivered = c.delivered /\ y.next_target = c.next_target
        /\ y.phase = "idle"
    BY <1>3 DEF State, SameView
  <1> HIDE DEF y
  <1> QED BY <1>2, <1>3, <1>4, <1>5 DEF Good, View, Ordered, SameView, IsLoggedOn

\* Session::send_logon before the peer's Logon.
LEMMA SendLogonGood ==
  ASSUME NEW x, Good(x), ~x.received_logon
  PROVE  Good(SendLogon(x)) /\ SendLogon(x).phase = x.phase
  <1> DEFINE reset == \/ x.cfg.send_reset_seq_num_flag
                      \/ x.cfg.reset_on_logon /\ x.next_sender = 1 /\ x.next_target = 1
             y == [x EXCEPT !.sent_reset = @ \/ reset, !.sent_logon = TRUE]
             num == IF x.cfg.send_next_expected THEN x.next_target ELSE 0
             m == [WithType("Logon") EXCEPT !.flag = reset, !.num = num]
  <1>0. x \in State BY GoodSane
  <1>1. reset \in BOOLEAN /\ (x.sent_reset \/ reset) \in BOOLEAN OBVIOUS
  <1>2. num \in Nat BY <1>0, SeqNumFacts DEF State
  <1>3. SendLogon(x) = SendMessage(y, m) BY DEF SendLogon
  <1> HIDE DEF reset, num
  <1>4. y \in State BY <1>0, <1>1 DEF State
  <1>5. WithType("Logon") \in Msg BY WithTypeType, TypeNames
  <1>6. m \in Msg BY <1>1, <1>2, <1>5 DEF Msg
  <1>7. /\ y.connected = x.connected /\ y.received_logon = x.received_logon
        /\ y.app_online = x.app_online /\ y.phase = x.phase
        /\ y.delivered = x.delivered /\ y.next_target = x.next_target
    BY <1>0 DEF State
  <1> HIDE DEF y, m
  <1>8. Good(y) BY <1>4, <1>7 DEF Good, View, Ordered, IsLoggedOn
  <1>9. Frame(y, SendMessage(y, m)) BY <1>4, <1>6, <1>8, GoodSane, SendMessageFrame
  <1> QED BY <1>3, <1>7, <1>8, <1>9, FrameGood DEF Frame

\* Session::on_attach.
LEMMA OnAttachGood ==
  ASSUME NEW x, Good(x), ~x.connected, NEW open \in BOOLEAN
  PROVE  Good(OnAttach(x, open)) /\ OnAttach(x, open).phase = x.phase
  <1> DEFINE a == [x EXCEPT !.connected = TRUE, !.test_request_counter = 0]
             r == IF x.cfg.reset_on_logon THEN StoreReset(a) ELSE a
             w == [r EXCEPT !.pending_logon = TRUE]
  <1>1. x \in State BY GoodSane
  <1>2. a \in State BY <1>1 DEF State
  <1>3. /\ a.received_logon = x.received_logon /\ a.sent_logon = x.sent_logon
        /\ a.app_online = x.app_online /\ a.delivered = x.delivered
        /\ a.next_target = x.next_target /\ a.phase = x.phase
    BY <1>1 DEF State
  <1>4. OnAttach(x, open) \in {a, SendLogon(r), w} BY DEF OnAttach
  <1> HIDE DEF a
  <1>5. Good(a) /\ ~a.received_logon BY <1>2, <1>3 DEF Good, View, Ordered, IsLoggedOn
  <1>6. Frame(a, r) /\ SameView(a, r)
    BY <1>2, StoreResetFrame, FrameRefl DEF SameView, StoreReset, State
  <1> HIDE DEF r
  <1>7. Good(r) /\ ~r.received_logon /\ r.phase = x.phase /\ r \in State
    BY <1>3, <1>5, <1>6, FrameGood DEF SameView, Frame
  <1>8. w \in State BY <1>7 DEF State
  <1>9. /\ SameView(r, w) /\ w.delivered = r.delivered /\ w.next_target = r.next_target
        /\ w.phase = r.phase /\ w.replay = r.replay
    BY <1>7 DEF State, SameView
  <1> HIDE DEF w
  <1>10. Good(w) BY <1>7, <1>8, <1>9, QuietFrame, FrameGood
  <1> QED BY <1>3, <1>4, <1>5, <1>7, <1>9, <1>10, SendLogonGood

\* Session::on_protocol_deadline.
LEMMA OnProtocolDeadlineFrame ==
  ASSUME NEW x \in State, Sane(x), NEW since_recv, NEW idle
  PROVE  Frame(x, OnProtocolDeadline(x, since_recv, idle))
  <1> DEFINE t == [x EXCEPT !.test_request_counter = @ + 1]
             l == InitiateLogout(x)
  <1>1. x.test_request_counter + 1 \in Nat BY DEF State
  <1>2. t \in State BY <1>1 DEF State
  <1>3. /\ SameView(x, t) /\ t.delivered = x.delivered /\ t.next_target = x.next_target
        /\ t.phase = x.phase /\ t.replay = x.replay
    BY DEF State, SameView
  <1>4. OnProtocolDeadline(x, since_recv, idle) \in
           {Disconnect(x), Disconnect(l), SendMessage(t, WithType("TestRequest")),
            SendMessage(x, WithType("Heartbeat")), x}
    BY DEF OnProtocolDeadline
  <1> HIDE DEF t
  <1>5. Frame(x, t) /\ Sane(t) BY <1>2, <1>3, QuietFrame, FrameSane
  <1>6. WithType("TestRequest") \in Msg /\ WithType("Heartbeat") \in Msg BY WithTypeType, TypeNames
  <1>7. Frame(t, SendMessage(t, WithType("TestRequest"))) BY <1>2, <1>5, <1>6, SendMessageFrame
  <1>8. Frame(x, SendMessage(t, WithType("TestRequest"))) BY <1>5, <1>7, FrameTrans
  <1>9. Frame(x, l) BY InitiateLogoutFrame
  <1> HIDE DEF l
  <1>10. Frame(l, Disconnect(l)) BY <1>9, FrameSane, DisconnectFrame
  <1>11. Frame(x, Disconnect(l)) BY <1>9, <1>10, FrameTrans
  <1> QED BY <1>4, <1>6, <1>8, <1>11, SendMessageFrame, DisconnectFrame, FrameRefl

\* Session::on_schedule_tick.
LEMMA OnScheduleTickGood ==
  ASSUME NEW x, Good(x), NEW in_range, NEW same_range, NEW open
  PROVE  LET y == OnScheduleTick(x, in_range, same_range, open)
         IN  Good(y) /\ y.phase = x.phase
  <1> DEFINE l == IF x.connected /\ IsLoggedOn(x) /\ ~x.sent_logout THEN InitiateLogout(x) ELSE x
             d == LeaveSession(x)
             y == IF x.connected /\ IsLoggedOn(x) /\ ~x.sent_logout /\ ~open
                  THEN InitiateLogout(x) ELSE x
             w == [y EXCEPT !.pending_logon = FALSE]
  <1>1. x \in State /\ Sane(x) BY GoodSane
  <1>2. Frame(x, y) /\ Frame(x, l) BY <1>1, InitiateLogoutFrame, FrameRefl
  <1>3. d = Disconnect(l) BY DEF LeaveSession
  <1>4. \/ OnScheduleTick(x, in_range, same_range, open) \in {d, StoreReset(d), y}
        \/ ~y.sent_logon /\ OnScheduleTick(x, in_range, same_range, open) = SendLogon(w)
    BY DEF OnScheduleTick
  <1> HIDE DEF l, d, y
  <1>5. Frame(l, d) BY <1>1, <1>2, <1>3, FrameSane, DisconnectFrame
  <1>6. Frame(x, d) BY <1>1, <1>2, <1>5, FrameTrans
  <1>7. d \in State BY <1>6 DEF Frame
  <1>8. Frame(x, StoreReset(d)) BY <1>1, <1>6, <1>7, StoreResetFrame, FrameTrans
  <1>9. Good(y) /\ y \in State /\ y.phase = x.phase BY <1>2, FrameGood DEF Frame
  <1>10. w \in State BY <1>9 DEF State
  <1>11. /\ SameView(y, w) /\ w.delivered = y.delivered /\ w.next_target = y.next_target
         /\ w.phase = y.phase /\ w.replay = y.replay
    BY <1>9 DEF State, SameView
  <1> HIDE DEF w
  <1>12. Good(w) BY <1>9, <1>10, <1>11, QuietFrame, FrameGood
  <1>13. ~y.sent_logon => ~w.received_logon
    BY <1>9, <1>11 DEF Good, View, SameView
  <1>14. CASE OnScheduleTick(x, in_range, same_range, open) \in {d, StoreReset(d), y}
    BY <1>2, <1>6, <1>8, <1>14, FrameGood DEF Frame
  <1>15. CASE ~y.sent_logon /\ OnScheduleTick(x, in_range, same_range, open) = SendLogon(w)
    BY <1>9, <1>11, <1>12, <1>13, <1>15, SendLogonGood
  <1> QED BY <1>4, <1>14, <1>15

--------------------------------------------------------------------------------
(***************************************************************************)
(* Session::retransmit: the frames sent tile the requested range.          *)
(***************************************************************************)
\* One more frame, starting where the frames before it end.
LEMMA TilesAppend ==
  ASSUME NEW frames \in Seq(Msg), NEW mark \in Nat, mark <= Len(frames), NEW b \in Nat,
         NEW u \in Nat, Tiles(frames, mark, b, u), NEW f \in Msg, f.seq = u
  PROVE  Tiles(Append(frames, f), mark, b, After(f))
  <1> DEFINE g == Append(frames, f)
             n == Len(frames)
  <1>1. n \in Nat /\ Len(g) = n + 1 BY LenProperties
  <1>2. g[n + 1] = f /\ \A i \in 1..n : g[i] = frames[i] BY <1>1
  <1>3. /\ \A i \in (mark + 1)..n :
              frames[i].seq = IF i = mark + 1 THEN b ELSE After(frames[i - 1])
        /\ u = IF n = mark THEN b ELSE After(frames[n])
    BY DEF Tiles
  <1> HIDE DEF g, n
  <1>4. mark <= n BY DEF n
  <1>5. ASSUME NEW i \in (mark + 1)..(n + 1)
        PROVE  g[i].seq = IF i = mark + 1 THEN b ELSE After(g[i - 1])
    <2>1. CASE i = n + 1
      <3>1. CASE n = mark BY <1>2, <1>3, <2>1, <3>1
      <3>2. CASE n # mark
        <4>1. n \in 1..n /\ (n + 1) - 1 = n /\ n + 1 # mark + 1 BY <1>1, <1>4, <3>2
        <4> QED BY <1>2, <1>3, <2>1, <3>2, <4>1
      <3> QED BY <3>1, <3>2
    <2>2. CASE i # n + 1
      <3>1. i \in (mark + 1)..n /\ i \in 1..n BY <1>1, <2>2
      <3>2. CASE i = mark + 1 BY <1>2, <1>3, <3>1, <3>2
      <3>3. CASE i # mark + 1
        <4>1. i - 1 \in 1..n BY <1>1, <3>1, <3>3
        <4> QED BY <1>2, <1>3, <3>1, <3>3, <4>1
      <3> QED BY <3>2, <3>3
    <2> QED BY <2>1, <2>2
  <1>6. n + 1 # mark BY <1>1, <1>4
  <1> QED BY <1>1, <1>2, <1>5, <1>6 DEF Tiles, g

\* A frame that goes out is the last one of "out"; a dead writer disconnects.
LEMMA TransmitOut ==
  ASSUME NEW x \in State, NEW f \in Msg
  PROVE  LET y == Transmit(x, f)
         IN  /\ y.connected => x.connected /\ y.out = Append(x.out, f)
             /\ Len(x.out) <= Len(y.out)
  <1> DEFINE z == [x EXCEPT !.out = Append(@, f), !.writer = "used"]
             d == Disconnect(x)
  <1>1. x.out \in Seq(Msg) /\ Len(x.out) \in Nat BY LenProperties DEF State
  <1>2. z.connected = x.connected /\ z.out = Append(x.out, f) BY DEF State
  <1>3. Len(Append(x.out, f)) = Len(x.out) + 1 BY <1>1
  <1>4. x.connected => ~d.connected /\ d.out = x.out
    BY DEF Disconnect, StoreReset, State
  <1>5. \/ ~x.connected /\ Transmit(x, f) = x
        \/ x.connected /\ Transmit(x, f) = d
        \/ x.connected /\ Transmit(x, f) = z
    BY DEF Transmit, State
  <1> HIDE DEF z, d
  <1> QED BY <1>1, <1>2, <1>3, <1>4, <1>5

\* A replay whose frames, if the connection lives, reach up to u.
Run(x, u) ==
    /\ Good(x) /\ x.phase = "resend" /\ u \in Nat
    /\ x.replay.mark <= Len(x.out)
    /\ x.connected => Tiles(x.out, x.replay.mark, x.replay.begin, u)

\* Sending the next frame of a replay.
LEMMA TransmitRun ==
  ASSUME NEW x, NEW u, Run(x, u), NEW f \in Msg, f.seq = u
  PROVE  Run(Transmit(x, f), After(f)) /\ Transmit(x, f).replay = x.replay
  <1> DEFINE y == Transmit(x, f)
  <1>1. x \in State /\ Sane(x) BY GoodSane DEF Run
  <1>2. Frame(x, y) BY <1>1, TransmitFrame
  <1>3. /\ y.connected => x.connected /\ y.out = Append(x.out, f)
        /\ Len(x.out) <= Len(y.out)
    BY <1>1, TransmitOut
  <1> HIDE DEF y
  <1>4. Good(y) /\ y \in State /\ y.phase = "resend" /\ y.replay = x.replay
    BY <1>2, FrameGood DEF Run, Frame
  <1>5. After(f) \in Nat BY DEF After, Msg
  <1>6. /\ x.out \in Seq(Msg) /\ x.replay.mark \in Nat /\ x.replay.begin \in Nat
        /\ Len(x.out) \in Nat /\ Len(y.out) \in Nat
    BY <1>1, <1>4, LenProperties DEF State, Replay
  <1>7. x.replay.mark <= Len(y.out) BY <1>3, <1>6 DEF Run
  <1>8. y.connected => Tiles(y.out, x.replay.mark, x.replay.begin, After(f))
    BY <1>3, <1>6, TilesAppend DEF Run
  <1> QED BY <1>4, <1>5, <1>7, <1>8 DEF Run, y

\* Moving the cursor or the pending gap sends nothing.
LEMMA MoveRun ==
  ASSUME NEW x, NEW u, Run(x, u), NEW p \in Replay,
         p.mark = x.replay.mark, p.begin = x.replay.begin
  PROVE  LET y == [x EXCEPT !.replay = p]
         IN  Run(y, u) /\ y.replay = p /\ y.saved = x.saved
  <1> DEFINE y == [x EXCEPT !.replay = p]
  <1>1. x \in State BY GoodSane DEF Run
  <1>2. y \in State BY <1>1 DEF State
  <1>3. /\ SameView(x, y) /\ y.delivered = x.delivered /\ y.next_target = x.next_target
        /\ y.phase = x.phase /\ y.replay = p /\ y.out = x.out /\ y.saved = x.saved
    BY <1>1 DEF State, SameView
  <1> HIDE DEF y
  <1>4. Good(y) BY <1>2, <1>3 DEF Run, Good, View, Ordered, SameView, IsLoggedOn
  <1> QED BY <1>3, <1>4 DEF Run, SameView, y

\* Filling the gap before a resent message, or the last one.
LEMMA GapFillRun ==
  ASSUME NEW x, NEW u, Run(x, u), NEW n \in Nat
  PROVE  Run(SendGapFill(x, u, n), n) /\ SendGapFill(x, u, n).replay = x.replay
  <1> DEFINE f == GapFill(u, n)
  <1>1. u \in Nat BY DEF Run
  <1>2. WithType("SequenceReset") \in Msg BY WithTypeType, TypeNames
  <1>3. f \in Msg BY <1>1, <1>2 DEF GapFill, Msg
  <1>4. f.seq = u /\ After(f) = n BY <1>1, <1>2 DEF GapFill, After, WithType
  <1>5. SendGapFill(x, u, n) = Transmit(x, f) BY DEF SendGapFill
  <1> HIDE DEF f
  <1> QED BY <1>3, <1>4, <1>5, TransmitRun

\* What ReplayOK says of a record inside retransmit, as a run.
LEMMA ReplayRun ==
  ASSUME NEW x, Good(x), x.phase = "resend"
  PROVE  LET p == x.replay
             u == IF p.gap_begin = 0 THEN p.seq ELSE p.gap_begin
         IN  /\ p \in Replay
             /\ ReplayOK(x) <=> Run(x, u) /\ p.seq # 0 /\ p.seq <= p.end + 1
  <1>1. x.replay \in Replay BY GoodSane DEF State
  <1>2. x.replay.seq \in Nat /\ x.replay.gap_begin \in Nat BY <1>1 DEF Replay
  <1> QED BY <1>1, <1>2 DEF ReplayOK, Run

\* One iteration of the loop keeps the tiling.
LEMMA RetransmitStepGood ==
  ASSUME NEW x, Good(x), ReplayOK(x), x.phase = "resend", x.replay.seq <= x.replay.end,
         NEW veto \in BOOLEAN
  PROVE  LET z == RetransmitStep(x, veto) IN Good(z) /\ ReplayOK(z) /\ z.phase = "resend"
  <1> DEFINE p == x.replay
             u == IF p.gap_begin = 0 THEN p.seq ELSE p.gap_begin
             found == {y \in x.saved : y.seq = p.seq}
             q == [p EXCEPT !.seq = p.seq + 1]
             next == [x EXCEPT !.replay = q]
             y == CHOOSE y \in found : TRUE
             frame == [WithType(y.type) EXCEPT !.seq = y.seq, !.poss_dup = TRUE,
                                               !.payload = y.payload]
             filled == IF p.gap_begin = 0 THEN next ELSE SendGapFill(next, p.gap_begin, p.seq)
             g1 == [q EXCEPT !.gap_begin = IF p.gap_begin = 0 THEN p.seq ELSE @]
             g2 == [q EXCEPT !.gap_begin = 0]
             grown == [next EXCEPT !.replay = g1]
             flushed == [filled EXCEPT !.replay = g2]
             z == RetransmitStep(x, veto)
  <1>1. p \in Replay /\ Run(x, u) /\ p.seq # 0 BY ReplayRun
  <1>2. /\ p.seq \in Nat /\ p.end \in Nat /\ p.gap_begin \in Nat /\ u \in Nat
        /\ p.seq + 1 \in Nat /\ p.seq + 1 # 0 /\ p.seq + 1 <= p.end + 1
    BY <1>1 DEF Replay
  <1>3. /\ q \in Replay /\ q.mark = p.mark /\ q.begin = p.begin /\ q.seq = p.seq + 1
        /\ q.end = p.end /\ q.gap_begin = p.gap_begin
    BY <1>1, <1>2 DEF Replay
  <1>4. x \in State BY GoodSane
  <1>5. x.replay \in Replay /\ x.saved \subseteq Saved BY <1>4 DEF State
  <1>6. next = [x EXCEPT !.replay.seq = p.seq + 1] BY <1>4 DEF State
  <1>7. Run(next, u) /\ next.replay = q /\ next.saved = x.saved BY <1>1, <1>3, MoveRun
  <1>8. next \in State BY <1>7, GoodSane DEF Run
  <1>9. grown = [next EXCEPT !.replay.gap_begin = IF p.gap_begin = 0 THEN p.seq ELSE @]
    BY <1>7, <1>8 DEF State
  <1>10. found = {} \/ veto => z = grown BY <1>6, <1>9 DEF RetransmitStep
  <1>11. /\ g1 \in Replay /\ g1.mark = q.mark /\ g1.begin = q.begin /\ g1.seq = q.seq
         /\ g1.end = q.end /\ g1.gap_begin = u
    BY <1>2, <1>3 DEF Replay
  <1>12. /\ g2 \in Replay /\ g2.mark = q.mark /\ g2.begin = q.begin /\ g2.seq = q.seq
         /\ g2.end = q.end /\ g2.gap_begin = 0
    BY <1>3 DEF Replay
  <1>13. CASE found = {} \/ veto
    <2> HIDE DEF next, g1, g2, q, z, frame, filled
    <2>1. Run(grown, u) /\ grown.replay = g1 BY <1>7, <1>11, MoveRun
    <2> HIDE DEF grown
    <2>2. u # 0 BY <1>1, <1>2
    <2>3. Good(grown) /\ grown.phase = "resend" BY <2>1 DEF Run
    <2> HIDE DEF u
    <2>4. Run(grown, IF g1.gap_begin = 0 THEN g1.seq ELSE g1.gap_begin)
      BY <1>11, <2>1, <2>2
    <2>5. ReplayOK(grown) BY <1>2, <1>3, <1>11, <2>1, <2>3, <2>4, ReplayRun
    <2> QED BY <1>10, <1>13, <2>3, <2>5 DEF z
  <1>14. CASE ~(found = {} \/ veto)
    <2> HIDE DEF next, q, grown, g1
    <2>1. y \in found BY <1>14
    <2>2. y \in Saved /\ y.seq = p.seq BY <1>5, <2>1
    <2> HIDE DEF y, found
    <2>3. y.type \in AppTypes /\ y.payload \in Payload /\ y.seq \in Nat
      BY <2>2 DEF Saved, SeqNum
    <2>4. WithType(y.type) \in Msg BY <2>3, WithTypeType, TypeNames
    <2>5. frame \in Msg /\ frame.seq = p.seq /\ frame.type = y.type
      BY <1>2, <2>2, <2>3, <2>4 DEF Msg, WithType
    <2>6. After(frame) = p.seq + 1 BY <2>3, <2>5 DEF After, AppTypes
    <2> HIDE DEF frame
    <2>7. Run(filled, p.seq) /\ filled.replay = q
      <3>1. CASE p.gap_begin = 0 BY <1>7, <3>1
      <3>2. CASE p.gap_begin # 0
        <4>1. Run(next, p.gap_begin) BY <1>7, <3>2
        <4>2. Run(SendGapFill(next, p.gap_begin, p.seq), p.seq)
              /\ SendGapFill(next, p.gap_begin, p.seq).replay = next.replay
          BY <1>2, <4>1, GapFillRun
        <4> QED BY <1>7, <3>2, <4>2
      <3> QED BY <3>1, <3>2
    <2>8. filled \in State BY <2>7, GoodSane DEF Run
    <2>9. flushed = [filled EXCEPT !.replay.gap_begin = 0] BY <2>7, <2>8 DEF State
    <2>10. z = Transmit(flushed, frame)
      BY <1>6, <1>14, <2>9 DEF RetransmitStep, next, frame, found, y, q
    <2> HIDE DEF filled, z, g2
    <2>11. Run(flushed, p.seq) /\ flushed.replay = g2 BY <1>12, <2>7, MoveRun
    <2> HIDE DEF flushed
    <2>12. Run(z, p.seq + 1) /\ z.replay = g2 BY <2>5, <2>6, <2>10, <2>11, TransmitRun
    <2>13. Good(z) /\ z.phase = "resend" BY <2>12 DEF Run
    <2>14. Run(z, IF g2.gap_begin = 0 THEN g2.seq ELSE g2.gap_begin)
      BY <1>3, <1>12, <2>12
    <2>15. ReplayOK(z) BY <1>2, <1>3, <1>12, <2>12, <2>13, <2>14, ReplayRun
    <2> QED BY <2>13, <2>15 DEF z
  <1> QED BY <1>13, <1>14

\* The end of the loop: the answer reaches exactly past the requested range.
LEMMA RetransmitEndGood ==
  ASSUME NEW x, Good(x), ReplayOK(x), x.phase = "resend", x.replay.seq > x.replay.end
  PROVE  LET z == RetransmitEnd(x)
         IN  /\ Good(z) /\ z.phase = "drain"
             /\ z.connected => Tiles(z.out, x.replay.mark, x.replay.begin, x.replay.end + 1)
  <1> DEFINE p == x.replay
             u == IF p.gap_begin = 0 THEN p.seq ELSE p.gap_begin
             r == IF p.gap_begin = 0 THEN x ELSE SendGapFill(x, p.gap_begin, p.end + 1)
             c == ConsumeRequest(r, p.request)
  <1>1. p \in Replay /\ Run(x, u) /\ p.seq <= p.end + 1 BY ReplayRun
  <1>2. p.seq \in Nat /\ p.end \in Nat /\ p.gap_begin \in Nat /\ p.end + 1 \in Nat
    BY <1>1 DEF Replay
  <1>3. p.seq = p.end + 1 BY <1>1, <1>2
  <1>4. Run(r, p.end + 1) /\ r.replay = p
    <2>1. CASE p.gap_begin = 0 BY <1>1, <1>3, <2>1
    <2>2. CASE p.gap_begin # 0
      <3>1. Run(x, p.gap_begin) BY <1>1, <2>2
      <3> QED BY <1>2, <2>2, <3>1, GapFillRun
    <2> QED BY <2>1, <2>2
  <1>5. RetransmitEnd(x) = EnterDrain(c) BY DEF RetransmitEnd
  <1> HIDE DEF r
  <1>6. Good(r) /\ r \in State BY <1>4, GoodSane DEF Run
  <1>7. Frame(r, c) /\ c.connected = r.connected /\ c.out = r.out
    <2>1. Frame(r, IncrTarget(r)) BY <1>6, IncrTargetFrame
    <2>2. IncrTarget(r).connected = r.connected /\ IncrTarget(r).out = r.out
      BY <1>6 DEF IncrTarget, State
    <2>3. c \in {r, IncrTarget(r)} BY DEF ConsumeRequest
    <2> HIDE DEF c
    <2> QED BY <1>6, <2>1, <2>2, <2>3, FrameRefl
  <1> HIDE DEF c
  <1>8. Good(c) BY <1>6, <1>7, FrameGood
  <1>9. /\ Good(EnterDrain(c)) /\ EnterDrain(c).phase = "drain"
        /\ EnterDrain(c).out = c.out /\ EnterDrain(c).connected = c.connected
    BY <1>8, EnterDrainGood
  <1>10. r.connected => Tiles(r.out, p.mark, p.begin, p.end + 1) BY <1>4 DEF Run
  <1> QED BY <1>5, <1>7, <1>9, <1>10

--------------------------------------------------------------------------------
(***************************************************************************)
(* The theorems.                                                           *)
(***************************************************************************)
\* The inductive invariant.  The view and the order of deliveries need the
\* types; the replay needs its cursor to be positive and at most one past the
\* end, or the last GapFill could miss the range.
SafetyInv == Good(s) /\ ReplayOK(s)

\* Forgetting the frames of an event that is over.
LEMMA SettleGood ==
  ASSUME NEW x, Good(x), ReplayOK(x) PROVE Good(Settle(x)) /\ ReplayOK(Settle(x))
  <1> DEFINE y == [x EXCEPT !.out = <<>>]
  <1>1. x \in State BY GoodSane
  <1>2. <<>> \in Seq(Msg) BY EmptySeq
  <1>3. y \in State BY <1>1, <1>2 DEF State
  <1>4. /\ SameView(x, y) /\ y.delivered = x.delivered /\ y.next_target = x.next_target
        /\ y.phase = x.phase
    BY <1>1 DEF State, SameView
  <1>5. Settle(x) = IF x.phase = "idle" THEN y ELSE x BY DEF Settle
  <1> HIDE DEF y
  <1>6. Good(y) BY <1>3, <1>4 DEF Good, View, Ordered, SameView, IsLoggedOn
  <1>7. x.phase = "idle" => ReplayOK(y) BY <1>4 DEF ReplayOK
  <1> QED BY <1>5, <1>6, <1>7

\* Outside retransmit there is no replay to speak of.
LEMMA NoReplayOK ==
  ASSUME NEW x, Good(x), x.phase # "resend" PROVE Good(Settle(x)) /\ ReplayOK(Settle(x))
  BY SettleGood DEF ReplayOK

\* The task ends.
LEMMA StoppedGood ==
  ASSUME NEW x, Good(x)
  PROVE  LET y == [Disconnect(x) EXCEPT !.phase = "stopped", !.out = <<>>]
         IN  Good(y) /\ ReplayOK(y)
  <1> DEFINE d == Disconnect(x)
             y == [d EXCEPT !.phase = "stopped", !.out = <<>>]
  <1>1. x \in State /\ Sane(x) BY GoodSane
  <1>2. Frame(x, d) BY <1>1, DisconnectFrame
  <1>3. y \in State BY <1>1, StoppedType
  <1> HIDE DEF d
  <1>4. Good(d) /\ d \in State BY <1>2, FrameGood DEF Frame
  <1>5. /\ SameView(d, y) /\ y.delivered = d.delivered /\ y.next_target = d.next_target
        /\ y.phase = "stopped"
    BY <1>4 DEF State, SameView
  <1> HIDE DEF y
  <1>6. Good(y) BY <1>3, <1>4, <1>5 DEF Good, View, Ordered, SameView, IsLoggedOn
  <1> QED BY <1>5, <1>6 DEF ReplayOK, y, d

\* One step of the task keeps the invariant.
LEMMA NextSafe == ASSUME SafetyInv, [Next]_vars PROVE SafetyInv'
  <1> USE DEF SafetyInv
  <1>0. s \in State /\ Sane(s) BY GoodSane
  <1>a. ASSUME NEW y, Frame(s, y), s.phase = "idle" PROVE Good(Settle(y)) /\ ReplayOK(Settle(y))
    BY <1>a, FrameGood, NoReplayOK DEF Frame
  <1>1. CASE Attach
    <2>1. PICK open \in BOOLEAN : s' = Settle(OnAttach(s, open)) BY <1>1 DEF Attach
    <2>2. ~s.connected /\ s.phase = "idle" BY <1>1 DEF Attach, Running, Idle
    <2> QED BY <2>1, <2>2, OnAttachGood, NoReplayOK
  <1>2. CASE WriteSideFails
    <2> DEFINE y == [s EXCEPT !.writer = "dead"]
    <2>1. s' = y BY <1>2 DEF WriteSideFails
    <2>2. y \in State BY <1>0, FieldFacts DEF State
    <2>3. /\ SameView(s, y) /\ y.delivered = s.delivered /\ y.next_target = s.next_target
          /\ y.phase = s.phase /\ y.replay = s.replay /\ y.out = s.out
      BY <1>0 DEF State, SameView
    <2> HIDE DEF y
    <2>4. Good(y) BY <2>2, <2>3 DEF Good, View, Ordered, SameView, IsLoggedOn
    <2>5. ReplayOK(y) BY <2>3 DEF ReplayOK, SameView
    <2> QED BY <2>1, <2>4, <2>5
  <1>3. CASE Receive
    <2>1. PICK m \in Inbound, o \in Oracle : s' = Settle(OnInbound(s, m, o))
      BY <1>3 DEF Receive
    <2>2. s.connected /\ s.phase = "idle" BY <1>3 DEF Receive, Idle
    <2>3. m \in Msg /\ (m.type = "ResendRequest" => m.num # 0) BY InboundAssumption
    <2>4. Good(OnInbound(s, m, o)) /\ ReplayOK(OnInbound(s, m, o))
      BY <2>2, <2>3, OnInboundGood
    <2> QED BY <2>1, <2>4, SettleGood
  <1>4. CASE PeerCloses
    BY <1>0, <1>4, <1>a, DisconnectFrame DEF PeerCloses, Running, Idle
  <1>5. CASE RetransmitNext BY <1>5, RetransmitStepGood DEF RetransmitNext
  <1>6. CASE RetransmitDone
    <2>1. Good(RetransmitEnd(s)) /\ RetransmitEnd(s).phase = "drain"
      BY <1>6, RetransmitEndGood DEF RetransmitDone
    <2> QED BY <1>6, <2>1 DEF RetransmitDone, ReplayOK
  <1>7. CASE DrainNext
    <2>1. PICK m \in InStash(s), o \in Oracle : s' = Settle(DrainStep(s, m, o))
      BY <1>7 DEF DrainNext
    <2>2. m \in Msg /\ s.phase = "drain" BY <1>0, <1>7 DEF DrainNext, InStash, State
    <2>3. Good(DrainStep(s, m, o)) /\ ReplayOK(DrainStep(s, m, o)) BY <2>2, DrainStepGood
    <2> QED BY <2>1, <2>3, SettleGood
  <1>8. CASE DrainDone BY <1>8, DrainEndGood, NoReplayOK DEF DrainDone
  <1>9. CASE SendApp
    <2>1. PICK t \in AppTypes, p \in Payloads :
             s' = Settle(SendMessage(s, [WithType(t) EXCEPT !.payload = p]))
      BY <1>9 DEF SendApp
    <2>2. WithType(t) \in Msg BY WithTypeType, TypeNames
    <2>3. [WithType(t) EXCEPT !.payload = p] \in Msg BY <2>2 DEF Msg, Payload
    <2>4. s.phase = "idle" BY <1>9 DEF SendApp, Running, Idle
    <2>5. Frame(s, SendMessage(s, [WithType(t) EXCEPT !.payload = p]))
      BY <1>0, <2>3, SendMessageFrame
    <2> QED BY <2>1, <2>4, <2>5, <1>a
  <1>10. CASE LogoutCommand
    BY <1>0, <1>10, <1>a, InitiateLogoutFrame DEF LogoutCommand, Running, Idle
  <1>11. CASE SetSeqNums
    <2>1. PICK n \in OperatorSets :
             \/ s' = [s EXCEPT !.next_sender = n]
             \/ s' = [s EXCEPT !.next_target = n, !.delivered = <<>>]
      BY <1>11 DEF SetSeqNums
    <2> DEFINE y == [s EXCEPT !.next_sender = n]
               z == [s EXCEPT !.next_target = n, !.delivered = <<>>]
    <2>2. n \in SeqNum /\ <<>> \in Seq(Nat) BY OperatorAssumption, EmptySeq
    <2>3. y \in State /\ z \in State BY <1>0, <2>2 DEF State
    <2>4. /\ SameView(s, y) /\ y.delivered = s.delivered /\ y.next_target = s.next_target
          /\ y.phase = s.phase
          /\ SameView(s, z) /\ z.delivered = <<>> /\ z.phase = s.phase
      BY <1>0, <2>2 DEF State, SameView
    <2>5. s.phase = "idle" BY <1>11 DEF SetSeqNums, Running, Idle
    <2> HIDE DEF y, z
    <2>6. Good(y) /\ Good(z) BY <2>3, <2>4 DEF Good, View, Ordered, SameView, IsLoggedOn
    <2> QED BY <2>1, <2>4, <2>5, <2>6 DEF ReplayOK, y, z
  <1>12. CASE Stop
    <2> DEFINE l == InitiateLogout(s)
               y == [l EXCEPT !.stopping = TRUE]
    <2>1. Frame(s, l) BY <1>0, InitiateLogoutFrame
    <2>2. s.phase = "idle" BY <1>12 DEF Stop, Running, Idle
    <2>3. \/ s' = Settle(y)
          \/ s' = [Disconnect(s) EXCEPT !.phase = "stopped", !.out = <<>>]
      BY <1>12 DEF Stop
    <2> HIDE DEF l
    <2>4. Good(l) /\ l \in State /\ l.phase = "idle" BY <2>1, <2>2, FrameGood DEF Frame
    <2>5. y \in State BY <2>4 DEF State
    <2>6. /\ SameView(l, y) /\ y.delivered = l.delivered /\ y.next_target = l.next_target
          /\ y.phase = l.phase
      BY <2>4 DEF State, SameView
    <2> HIDE DEF y
    <2>7. Good(y) BY <2>4, <2>5, <2>6 DEF Good, View, Ordered, SameView, IsLoggedOn
    <2> QED BY <2>3, <2>4, <2>6, <2>7, NoReplayOK, StoppedGood
  <1>13. CASE StopEnds BY <1>13, StoppedGood DEF StopEnds
  <1>14. CASE EngineDropped BY <1>14, StoppedGood DEF EngineDropped
  <1>15. CASE ProtocolDeadline
    <2>1. PICK since_recv \in Silences, idle \in BOOLEAN :
             s' = Settle(OnProtocolDeadline(s, since_recv, idle))
      BY <1>15 DEF ProtocolDeadline
    <2>2. s.phase = "idle" BY <1>15 DEF ProtocolDeadline, Running, Idle
    <2> QED BY <1>0, <2>1, <2>2, <1>a, OnProtocolDeadlineFrame
  <1>16. CASE ScheduleTick
    <2>1. PICK in_range \in BOOLEAN, same_range \in BOOLEAN, open \in BOOLEAN :
             s' = Settle(OnScheduleTick(s, in_range, same_range, open))
      BY <1>16 DEF ScheduleTick
    <2>2. s.phase = "idle" BY <1>16 DEF ScheduleTick, Running, Idle
    <2> QED BY <2>1, <2>2, OnScheduleTickGood, NoReplayOK
  <1>17. CASE UNCHANGED vars BY <1>17 DEF vars
  <1> QED BY <1>1, <1>2, <1>3, <1>4, <1>5, <1>6, <1>7, <1>8, <1>9, <1>10, <1>11, <1>12,
             <1>13, <1>14, <1>15, <1>16, <1>17 DEF Next

\* A spawned session satisfies the invariant.
LEMMA InitSafe == Init => SafetyInv
  <1> SUFFICES ASSUME Init PROVE SafetyInv
    OBVIOUS
  <1>1. s \in State BY InitType DEF TypeOK
  <1>2. PICK cfg \in Configs : s = Spawned(cfg) BY DEF Init
  <1>3. /\ ~s.connected /\ ~s.received_logon /\ ~s.app_online /\ s.delivered = <<>>
        /\ s.phase = "idle"
    BY <1>2 DEF Spawned
  <1> QED BY <1>1, <1>3 DEF SafetyInv, Good, View, Ordered, ReplayOK, IsLoggedOn

\* The invariant holds in every reachable state.
LEMMA Safe == Spec => []SafetyInv
  <1>1. Init => SafetyInv BY InitSafe
  <1>2. SafetyInv /\ [Next]_vars => SafetyInv' BY NextSafe
  <1> QED BY <1>1, <1>2, PTL DEF Spec

\* on_logon and on_logout always tell the application what the session is,
\* whichever send failed in between.
THEOREM AppViewCorrect == Spec => []AppViewAccurate
  <1>1. SafetyInv => AppViewAccurate BY DEF SafetyInv, Good, View, AppViewAccurate
  <1> QED BY <1>1, Safe, PTL

\* from_app gets the messages of one numbering epoch in increasing order and
\* each at most once, against any peer and with any failing write.
THEOREM DeliveryCorrect == Spec => []DeliveredInOrder
  <1>1. SafetyInv => DeliveredInOrder BY DEF SafetyInv, Good, Ordered, DeliveredInOrder
  <1> QED BY <1>1, Safe, PTL

\* At every moment of retransmit the frames sent tile the requested range up
\* to the cursor.
THEOREM ReplayCorrect == Spec => []ReplayTiles
  <1>1. SafetyInv => ReplayTiles BY DEF SafetyInv, ReplayOK, ReplayTiles
  <1> QED BY <1>1, Safe, PTL

\* When retransmit returns on a live connection the whole range was answered.
THEOREM ReplayAnswersAll == Spec => ReplayCompletes
  <1> DEFINE A == (s.phase = "resend" /\ s'.phase = "drain" /\ s'.connected) =>
                     Tiles(s'.out, s.replay.mark, s.replay.begin, s.replay.end + 1)
  <1>1. SafetyInv /\ [Next]_vars => [A]_vars
    <2> SUFFICES ASSUME SafetyInv, Next, s.phase = "resend", s'.phase = "drain", s'.connected
                 PROVE  Tiles(s'.out, s.replay.mark, s.replay.begin, s.replay.end + 1)
      BY DEF vars
    <2>1. s \in State /\ Good(s) /\ ReplayOK(s) BY GoodSane DEF SafetyInv
    <2>2. WriteSideFails => s'.phase = "resend" BY <2>1 DEF WriteSideFails, State
    <2>3. RetransmitNext => s'.phase = "resend" BY <2>1, RetransmitStepGood DEF RetransmitNext
    <2>4. RetransmitDone
      BY <2>2, <2>3 DEF Next, Attach, Receive, PeerCloses, DrainNext, DrainDone, SendApp,
         LogoutCommand, SetSeqNums, Stop, StopEnds, EngineDropped, ProtocolDeadline,
         ScheduleTick, Running, Idle
    <2> QED BY <2>1, <2>4, RetransmitEndGood DEF RetransmitDone
  <1> QED BY <1>1, Safe, PTL DEF Spec, ReplayCompletes

--------------------------------------------------------------------------------
(***************************************************************************)
(* Gap recovery of one session task: what waits in the stash is ahead of   *)
(* the expected number, a suppressed ResendRequest is one that was asked   *)
(* for, and a connection leaves nothing behind for the next one.           *)
(*                                                                         *)
(* The stash and the range are changed by few operators, the expected      *)
(* number by many, but never by more than one before drain_stash runs.     *)
(* "Calm" and "Bump" say so of the operators that send; a handler's result *)
(* is described by "Outcome".                                              *)
(***************************************************************************)
\* The numbers are not reset inside a connection: no Logon carries
\* ResetSeqNumFlag, and no acceptor resets on Logon.
NoResets ==
    /\ \A m \in Inbound : m.type = "Logon" => ~m.flag
    /\ \A c \in Configs : c.reset_on_logon => c.initiator

\* The stash is a map from numbers to messages (a BTreeMap).
Unique(x) == \A m1, m2 \in x.stash : m1.seq = m2.seq => m1 = m2

\* What is stashed is ahead of the number expected next, or is that number.
Ahead(x) == \A m \in x.stash : m.seq > x.next_target
AtOrAhead(x) == \A m \in x.stash : m.seq >= x.next_target

\* An outstanding range began at or before the number expected now.
Asked(x) ==
    x.resend_range # NoRange =>
        /\ x.resend_range.begin <= x.next_target
        /\ x.resend_range.chunk_end <= x.resend_range.full_end

\* ... and its chunk has not been passed yet.
Waiting(x) == x.resend_range # NoRange => x.next_target <= x.resend_range.chunk_end

\* What a call does to the stash and the expected number: it adds nothing to
\* the one and at most k to the other; a call that loses the connection leaves
\* no stash.
Queue(x, y, k) ==
    /\ y \in State
    /\ y.cfg = x.cfg /\ y.phase = x.phase /\ y.replay = x.replay
    /\ y.stash \subseteq x.stash
    /\ y.next_target <= x.next_target + k
    /\ x.connected /\ ~y.connected => y.stash = {}

\* What it does while the write task lives: the connection stays and, where
\* nothing resets the numbers, a range that was asked for stays asked for.
Live(x, y) ==
    x.writer # "dead" =>
        /\ y.writer # "dead" /\ y.connected = x.connected
        /\ NoResets => x.next_target <= y.next_target /\ (Asked(x) => Asked(y))

Calm(x, y) == Queue(x, y, 0) /\ Live(x, y)
Bump(x, y) == Queue(x, y, 1) /\ Live(x, y)

\* A call that leaves the fields of these relations alone.
LEMMA SameCalm ==
  ASSUME NEW x \in State, NEW y \in State, y.cfg = x.cfg, y.phase = x.phase, y.replay = x.replay,
         y.stash = x.stash, y.next_target = x.next_target, y.resend_range = x.resend_range,
         y.connected = x.connected, x.writer # "dead" => y.writer # "dead"
  PROVE  Calm(x, y)
  <1>1. x.next_target \in Nat BY TargetFacts
  <1> QED BY <1>1 DEF Calm, Queue, Live, Asked

LEMMA CalmRefl == ASSUME NEW x \in State PROVE Calm(x, x)
  BY SameCalm

\* While the write task lives, two calls after another.
LEMMA LiveTrans ==
  ASSUME NEW x \in State, NEW y \in State, NEW z \in State, Live(x, y), Live(y, z)
  PROVE  Live(x, z)
  <1>1. x.next_target \in Nat /\ y.next_target \in Nat /\ z.next_target \in Nat BY TargetFacts
  <1> QED BY <1>1 DEF Live

\* The stash and the number, two calls after another.
LEMMA QueueTrans ==
  ASSUME NEW x \in State, NEW y, NEW z, NEW j \in Nat, NEW k \in Nat, Queue(x, y, j), Queue(y, z, k)
  PROVE  Queue(x, z, j + k)
  <1>0. y \in State /\ z \in State BY DEF Queue
  <1>1. x.next_target \in Nat /\ y.next_target \in Nat /\ z.next_target \in Nat BY <1>0, TargetFacts
  <1>2. y.next_target <= x.next_target + j /\ z.next_target <= y.next_target + k BY DEF Queue
  <1>3. z.next_target <= x.next_target + (j + k) BY <1>1, <1>2
  <1> QED BY <1>3 DEF Queue

\* Compositions of the two kinds of call.
LEMMA CalmTrans ==
  ASSUME NEW x \in State, NEW y, NEW z, Calm(x, y), Calm(y, z) PROVE Calm(x, z)
  <1>1. y \in State /\ z \in State BY DEF Calm, Queue
  <1>2. Queue(x, z, 0 + 0) BY QueueTrans DEF Calm
  <1> QED BY <1>1, <1>2, LiveTrans DEF Calm

LEMMA CalmBump ==
  ASSUME NEW x \in State, NEW y, NEW z, Calm(x, y), Bump(y, z) PROVE Bump(x, z)
  <1>1. y \in State /\ z \in State BY DEF Calm, Bump, Queue
  <1>2. Queue(x, z, 0 + 1) BY QueueTrans DEF Calm, Bump
  <1> QED BY <1>1, <1>2, LiveTrans DEF Calm, Bump

LEMMA BumpCalm ==
  ASSUME NEW x \in State, NEW y, NEW z, Bump(x, y), Calm(y, z) PROVE Bump(x, z)
  <1>1. y \in State /\ z \in State BY DEF Calm, Bump, Queue
  <1>2. Queue(x, z, 1 + 0) BY QueueTrans DEF Calm, Bump
  <1> QED BY <1>1, <1>2, LiveTrans DEF Calm, Bump

LEMMA CalmIsBump == ASSUME NEW x \in State, NEW y, Calm(x, y) PROVE Bump(x, y)
  <1>1. y \in State BY DEF Calm, Queue
  <1>2. x.next_target \in Nat /\ y.next_target \in Nat BY <1>1, TargetFacts
  <1>3. y.next_target <= x.next_target + 0 BY DEF Calm, Queue
  <1>4. y.next_target <= x.next_target + 1 BY <1>2, <1>3
  <1> QED BY <1>4 DEF Calm, Bump, Queue

--------------------------------------------------------------------------------
(***************************************************************************)
(* The operators that send.                                                *)
(***************************************************************************)
LEMMA ReturnCalm ==
  ASSUME NEW x \in State, NEW f \in Flows PROVE Calm(x, Return(x, f)) /\ Return(x, f).flow = f
  <1>1. Return(x, f) \in State BY ReturnType
  <1> QED BY <1>1, SameCalm DEF Return, State

\* A call, then a return.
LEMMA CalmReturn ==
  ASSUME NEW x \in State, NEW y, NEW f \in Flows, Calm(x, y)
  PROVE  Calm(x, Return(y, f)) /\ Return(y, f).flow = f
  <1>1. y \in State BY DEF Calm, Queue
  <1> QED BY <1>1, ReturnCalm, CalmTrans

LEMMA BumpReturn ==
  ASSUME NEW x \in State, NEW y, NEW f \in Flows, Bump(x, y)
  PROVE  Bump(x, Return(y, f)) /\ Return(y, f).flow = f
  <1>1. y \in State BY DEF Bump, Queue
  <1> QED BY <1>1, ReturnCalm, BumpCalm

\* incr_next_target_seq_num.
LEMMA IncrTargetBump == ASSUME NEW x \in State PROVE Bump(x, IncrTarget(x))
  <1> DEFINE y == IncrTarget(x)
  <1>1. y \in State BY IncrTargetType
  <1>2. /\ y.cfg = x.cfg /\ y.phase = x.phase /\ y.replay = x.replay /\ y.stash = x.stash
        /\ y.next_target = x.next_target + 1 /\ y.resend_range = x.resend_range
        /\ y.connected = x.connected /\ y.writer = x.writer
    BY DEF IncrTarget, State
  <1>3. x.next_target \in Nat /\ x.resend_range.begin \in Nat BY TargetFacts DEF State, ResendRange
  <1> HIDE DEF y
  <1>4. Asked(x) => Asked(y) BY <1>2, <1>3 DEF Asked
  <1>5. y.next_target <= x.next_target + 1 /\ x.next_target <= y.next_target BY <1>2, <1>3
  <1> QED BY <1>1, <1>2, <1>4, <1>5 DEF Bump, Queue, Live, y

\* MessageStore::reset.
LEMMA StoreResetQueue ==
  ASSUME NEW x \in State
  PROVE  LET y == StoreReset(x)
         IN  /\ Queue(x, y, 0) /\ y.connected = x.connected /\ y.writer = x.writer
             /\ y.resend_range = x.resend_range /\ y.stash = x.stash /\ y.next_target = 1
             /\ y.flow = x.flow
  <1>1. StoreReset(x) \in State BY StoreResetType
  <1>2. x.next_target \in Nat /\ x.next_target # 0 BY TargetFacts
  <1>3. 1 <= x.next_target + 0 BY <1>2
  <1> QED BY <1>1, <1>3 DEF StoreReset, State, Queue

\* A connection is gone, and with it everything that belonged to it.
Clean(x) ==
    /\ ~x.received_logon /\ ~x.sent_logon /\ ~x.sent_logout
    /\ ~x.sent_reset /\ ~x.received_reset
    /\ x.test_request_counter = 0
    /\ x.resend_range = NoRange /\ x.stash = {}
    /\ x.cfg.reset_on_disconnect => x.next_target = 1

\* Session::disconnect.
LEMMA DisconnectQueue ==
  ASSUME NEW x \in State
  PROVE  LET y == Disconnect(x)
         IN  /\ Queue(x, y, 0)
             /\ ~y.connected /\ (x.writer # "dead" => y.writer # "dead")
             /\ x.connected => Clean(y)
  <1> DEFINE off == x.app_online /\ ~(x.received_logon \/ x.sent_logon)
             r == [x EXCEPT !.connected = FALSE, !.writer = "fresh",
                            !.received_logon = FALSE, !.sent_logon = FALSE,
                            !.sent_logout = FALSE,
                            !.sent_reset = FALSE, !.received_reset = FALSE,
                            !.test_request_counter = 0, !.resend_range = NoRange,
                            !.stash = {},
                            !.app_online = off]
             y == Disconnect(x)
  <1>1. off \in BOOLEAN OBVIOUS
  <1>2. y = IF ~x.connected THEN x
            ELSE IF x.cfg.reset_on_disconnect THEN StoreReset(r) ELSE r
    BY DEF Disconnect
  <1> HIDE DEF off
  <1>3. r \in State BY <1>1, FieldFacts DEF State
  <1>4. /\ ~r.connected /\ r.writer = "fresh" /\ r.resend_range = NoRange /\ r.stash = {}
        /\ r.cfg = x.cfg /\ r.phase = x.phase /\ r.replay = x.replay /\ r.next_target = x.next_target
        /\ ~r.received_logon /\ ~r.sent_logon /\ ~r.sent_logout
        /\ ~r.sent_reset /\ ~r.received_reset /\ r.test_request_counter = 0
    BY DEF State
  <1> HIDE DEF r, y
  <1>5. x.next_target \in Nat BY TargetFacts
  <1>6. Queue(x, r, 0) BY <1>3, <1>4, <1>5 DEF Queue
  <1>7. Queue(r, StoreReset(r), 0) BY <1>3, StoreResetQueue
  <1>8. Queue(x, StoreReset(r), 0 + 0) BY <1>6, <1>7, QueueTrans
  <1>9. /\ ~StoreReset(r).connected /\ StoreReset(r).writer = "fresh"
        /\ Clean(StoreReset(r))
    BY <1>3, <1>4 DEF StoreReset, State, Clean
  <1>10. ~x.cfg.reset_on_disconnect => Clean(r) BY <1>4 DEF Clean
  <1>11. Queue(x, x, 0) BY CalmRefl DEF Calm
  <1>12. CASE ~x.connected BY <1>2, <1>11, <1>12 DEF y
  <1>13. CASE x.connected /\ x.cfg.reset_on_disconnect BY <1>2, <1>8, <1>9, <1>13 DEF y
  <1>14. CASE x.connected /\ ~x.cfg.reset_on_disconnect BY <1>2, <1>4, <1>6, <1>10, <1>14 DEF y
  <1> QED BY <1>12, <1>13, <1>14

\* Session::transmit.
LEMMA TransmitCalm ==
  ASSUME NEW x \in State, NEW f \in Msg PROVE Calm(x, Transmit(x, f))
  <1> DEFINE y == [x EXCEPT !.out = Append(@, f), !.writer = "used"]
             z == Disconnect(x)
  <1>1. Append(x.out, f) \in Seq(Msg) BY DEF State
  <1>2. y \in State BY <1>1, FieldFacts DEF State
  <1>3. Calm(x, y) BY <1>2, SameCalm DEF State
  <1>4. \/ Transmit(x, f) \in {x, y}
        \/ Transmit(x, f) = z /\ x.writer = "dead"
    BY DEF Transmit, State
  <1>5. Queue(x, z, 0) BY DisconnectQueue
  <1>6. x.writer = "dead" => Calm(x, z) BY <1>5 DEF Calm, Live
  <1> HIDE DEF y, z
  <1> QED BY <1>3, <1>4, <1>6, CalmRefl

\* Sending on a live connection leaves the flags, the number and the range.
Undisturbed(x, y) ==
    /\ y.received_logon = x.received_logon /\ y.sent_logout = x.sent_logout
    /\ y.next_target = x.next_target /\ y.resend_range = x.resend_range

\* Session::send_message; without a connection it only counts.
LEMMA SendMessageCalm ==
  ASSUME NEW x \in State, NEW m \in Msg
  PROVE  /\ Calm(x, SendMessage(x, m))
         /\ ~x.connected /\ Clean(x) => /\ Clean(SendMessage(x, m))
                                        /\ ~SendMessage(x, m).connected
         /\ x.writer # "dead" => Undisturbed(x, SendMessage(x, m))
  <1> DEFINE f == [m EXCEPT !.seq = x.next_sender, !.poss_dup = FALSE]
             r == IF x.cfg.persist_messages THEN SaveAndIncr(x, f)
                  ELSE [x EXCEPT !.next_sender = @ + 1]
  <1>1. x.next_sender \in SeqNum /\ x.next_sender \in Nat /\ x.next_sender + 1 \in SeqNum
    BY SeqNumFacts DEF State
  <1>2. f \in Msg /\ f.seq \in SeqNum BY <1>1 DEF Msg
  <1>3. [x EXCEPT !.next_sender = @ + 1] \in State BY <1>1 DEF State
  <1>4. r \in State BY <1>2, <1>3, SaveType
  <1>5. SendMessage(x, m) = IF x.sent_logon \/ m.type \in {"Logon", "Logout", "ResendRequest", "SequenceReset"}
                            THEN Transmit(r, f) ELSE r
    BY DEF SendMessage
  <1>6. /\ r.cfg = x.cfg /\ r.phase = x.phase /\ r.replay = x.replay /\ r.stash = x.stash
        /\ r.next_target = x.next_target /\ r.resend_range = x.resend_range
        /\ r.connected = x.connected /\ r.writer = x.writer
    BY DEF SaveAndIncr, State
  <1>7. /\ r.received_logon = x.received_logon /\ r.sent_logon = x.sent_logon
        /\ r.sent_logout = x.sent_logout /\ r.sent_reset = x.sent_reset
        /\ r.received_reset = x.received_reset
        /\ r.test_request_counter = x.test_request_counter
    BY DEF SaveAndIncr, State
  <1> HIDE DEF r, f
  <1>8. Calm(x, r) BY <1>4, <1>6, SameCalm
  <1>9. Calm(x, Transmit(r, f)) BY <1>2, <1>4, <1>8, TransmitCalm, CalmTrans
  <1>10. ~x.connected => Transmit(r, f) = r BY <1>6 DEF Transmit
  <1>11. Clean(x) => Clean(r) BY <1>6, <1>7 DEF Clean
  <1>12. r.writer # "dead" => Undisturbed(r, Transmit(r, f))
    BY <1>4 DEF Transmit, State, Undisturbed
  <1>13. r.writer # "dead" => Undisturbed(x, r) /\ Undisturbed(x, Transmit(r, f))
    BY <1>6, <1>7, <1>12 DEF Undisturbed
  <1> QED BY <1>5, <1>6, <1>8, <1>9, <1>10, <1>11, <1>13

\* Session::initiate_logout.
LEMMA InitiateLogoutCalm ==
  ASSUME NEW x \in State
  PROVE  /\ Calm(x, InitiateLogout(x))
         /\ x.writer # "dead" => /\ InitiateLogout(x).next_target = x.next_target
                                 /\ InitiateLogout(x).resend_range = x.resend_range
  <1> DEFINE y == [x EXCEPT !.sent_logout = TRUE]
  <1>1. y \in State BY DEF State
  <1>2. Calm(x, y) BY <1>1, SameCalm DEF State
  <1>3. WithType("Logout") \in Msg BY WithTypeType, TypeNames
  <1>4. InitiateLogout(x) = SendMessage(y, WithType("Logout")) BY DEF InitiateLogout
  <1>5. y.next_target = x.next_target /\ y.resend_range = x.resend_range /\ y.writer = x.writer
    BY DEF State
  <1> HIDE DEF y
  <1>6. x.writer # "dead" => Undisturbed(y, SendMessage(y, WithType("Logout")))
    BY <1>1, <1>3, <1>5, SendMessageCalm
  <1> QED BY <1>1, <1>2, <1>3, <1>4, <1>5, <1>6, SendMessageCalm, CalmTrans DEF Undisturbed

\* Session::send_logon and send_logon_reply.
LEMMA SendLogonCalm ==
  ASSUME NEW x \in State
  PROVE  /\ Calm(x, SendLogon(x)) /\ Calm(x, SendLogonReply(x))
         /\ x.writer # "dead" => Undisturbed(x, SendLogon(x))
  <1>0. WithType("Logon") \in Msg BY WithTypeType, TypeNames
  <1>a. x.next_target \in Nat /\ x.next_target + 1 \in Nat BY TargetFacts
  <1>b. ASSUME NEW r \in BOOLEAN PROVE LET y == [x EXCEPT !.sent_reset = r, !.sent_logon = TRUE]
                                       IN  /\ y \in State /\ Calm(x, y)
                                           /\ Undisturbed(x, y) /\ y.writer = x.writer
    <2> DEFINE y == [x EXCEPT !.sent_reset = r, !.sent_logon = TRUE]
    <2>1. y \in State BY DEF State
    <2> QED BY <2>1, SameCalm DEF State, Undisturbed
  <1>1. Calm(x, SendLogon(x)) /\ (x.writer # "dead" => Undisturbed(x, SendLogon(x)))
    <2> DEFINE reset == \/ x.cfg.send_reset_seq_num_flag
                        \/ x.cfg.reset_on_logon /\ x.next_sender = 1 /\ x.next_target = 1
               b == x.sent_reset \/ reset
               y == [x EXCEPT !.sent_reset = b, !.sent_logon = TRUE]
               num == IF x.cfg.send_next_expected THEN x.next_target ELSE 0
               m == [WithType("Logon") EXCEPT !.flag = reset, !.num = num]
    <2>1. b \in BOOLEAN /\ reset \in BOOLEAN BY DEF State, Config
    <2>2. SendLogon(x) = SendMessage(y, m) BY DEF SendLogon
    <2>3. num \in Nat BY <1>a
    <2> HIDE DEF reset, num, b
    <2>4. m \in Msg BY <1>0, <2>1, <2>3 DEF Msg
    <2>5. y \in State /\ Calm(x, y) /\ Undisturbed(x, y) /\ y.writer = x.writer BY <1>b, <2>1
    <2> HIDE DEF y, m
    <2>6. x.writer # "dead" => Undisturbed(y, SendMessage(y, m)) BY <2>4, <2>5, SendMessageCalm
    <2>7. Calm(x, SendMessage(y, m)) BY <2>4, <2>5, SendMessageCalm, CalmTrans
    <2> QED BY <2>2, <2>5, <2>6, <2>7 DEF Undisturbed
  <1>2. Calm(x, SendLogonReply(x))
    <2> DEFINE flag == x.received_reset /\ x.cfg.send_next_expected
               b == x.sent_reset \/ x.received_reset
               y == [x EXCEPT !.sent_reset = b, !.sent_logon = TRUE]
               num == IF x.cfg.send_next_expected THEN x.next_target + 1 ELSE 0
               m == [WithType("Logon") EXCEPT !.flag = flag, !.num = num]
    <2>1. b \in BOOLEAN /\ flag \in BOOLEAN BY DEF State, Config
    <2>2. SendLogonReply(x) = SendMessage(y, m) BY DEF SendLogonReply
    <2>3. num \in Nat BY <1>a
    <2> HIDE DEF flag, num, b
    <2>4. m \in Msg BY <1>0, <2>1, <2>3 DEF Msg
    <2>5. y \in State /\ Calm(x, y) BY <1>b, <2>1
    <2> HIDE DEF y, m
    <2> QED BY <2>2, <2>4, <2>5, SendMessageCalm, CalmTrans
  <1> QED BY <1>1, <1>2

\* Session::send_reject counts the rejected message only when it is next.
LEMMA SendRejectBump ==
  ASSUME NEW x \in State, NEW m
  PROVE  /\ Bump(x, SendReject(x, m))
         /\ m.type \in {"Logon", "SequenceReset"} \/ m.seq # x.next_target => Calm(x, SendReject(x, m))
  <1> DEFINE y == IF m.type \notin {"Logon", "SequenceReset"} /\ m.seq = x.next_target
                  THEN IncrTarget(x) ELSE x
  <1>1. SendReject(x, m) = SendMessage(y, WithType("Reject")) BY DEF SendReject
  <1>2. WithType("Reject") \in Msg BY WithTypeType, TypeNames
  <1>3. Bump(x, y) BY IncrTargetBump, CalmRefl, CalmIsBump
  <1>4. m.type \in {"Logon", "SequenceReset"} \/ m.seq # x.next_target => y = x OBVIOUS
  <1> HIDE DEF y
  <1>5. y \in State BY <1>3 DEF Bump, Queue
  <1>6. Calm(y, SendReject(x, m)) BY <1>1, <1>2, <1>5, SendMessageCalm
  <1> QED BY <1>3, <1>4, <1>6, BumpCalm

\* Reject, then log out (verify, on_target_too_low).
LEMMA RejectLogoutBump ==
  ASSUME NEW x \in State, NEW m
  PROVE  /\ Bump(x, InitiateLogout(SendReject(x, m)))
         /\ m.type \in {"Logon", "SequenceReset"} \/ m.seq # x.next_target =>
               Calm(x, InitiateLogout(SendReject(x, m)))
  <1>1. SendReject(x, m) \in State BY SendRejectType
  <1>2. Calm(SendReject(x, m), InitiateLogout(SendReject(x, m))) BY <1>1, InitiateLogoutCalm
  <1> QED BY <1>2, SendRejectBump, BumpCalm, CalmTrans

\* Session::send_business_reject.
LEMMA SendBusinessRejectBump ==
  ASSUME NEW x \in State, NEW o PROVE Bump(x, SendBusinessReject(x, o))
  <1> DEFINE m == [WithType("App") EXCEPT !.payload = "business_reject"]
  <1>1. WithType("App") \in Msg BY WithTypeType, TypeNames
  <1>2. m \in Msg BY <1>1 DEF Msg, Payload
  <1>3. Bump(x, IncrTarget(x)) /\ IncrTarget(x) \in State BY IncrTargetBump, IncrTargetType
  <1>4. SendBusinessReject(x, o) \in {IncrTarget(x), SendMessage(IncrTarget(x), m)}
    BY DEF SendBusinessReject
  <1> HIDE DEF m
  <1> QED BY <1>2, <1>3, <1>4, SendMessageCalm, BumpCalm

\* Session::send_gap_fill.
LEMMA SendGapFillCalm ==
  ASSUME NEW x \in State, NEW begin \in Nat, NEW new_seq \in Nat
  PROVE  Calm(x, SendGapFill(x, begin, new_seq))
  <1>1. WithType("SequenceReset") \in Msg BY WithTypeType, TypeNames
  <1>2. GapFill(begin, new_seq) \in Msg BY <1>1 DEF GapFill, Msg
  <1> QED BY <1>2, TransmitCalm DEF SendGapFill

--------------------------------------------------------------------------------
(***************************************************************************)
(* The gap: what is asked for, and what waits for the answer.              *)
(***************************************************************************)
\* Session::send_resend_request asks from the number expected next on.
LEMMA SendResendRequestCalm ==
  ASSUME NEW x \in State, NEW received \in Nat, x.next_target < received
  PROVE  LET y == SendResendRequest(x, x.next_target, received)
         IN  /\ Calm(x, y)
             /\ x.writer # "dead" => Asked(y) /\ Waiting(y)
  <1> DEFINE begin == x.next_target
             full_end == received - 1
             max == x.cfg.max_messages_in_resend_request
             capped == max # 0 /\ begin + max - 1 < full_end
             chunk_end == IF capped THEN begin + max - 1 ELSE full_end
             range == [begin |-> begin, full_end |-> full_end, chunk_end |-> chunk_end]
             y == [x EXCEPT !.resend_range = range]
             m == [WithType("ResendRequest") EXCEPT !.num = begin,
                                                    !.end = IF max = 0 THEN 0 ELSE chunk_end]
             z == SendMessage(y, m)
  <1>1. max \in Nat /\ begin \in Nat BY TargetFacts DEF State, Config
  <1>2. /\ full_end \in Nat /\ chunk_end \in Nat
        /\ begin <= chunk_end /\ chunk_end <= full_end
    BY <1>1
  <1>3. SendResendRequest(x, begin, received) = z BY DEF SendResendRequest
  <1> HIDE DEF full_end, chunk_end, max
  <1>4. range \in ResendRange BY <1>1, <1>2 DEF ResendRange
  <1>5. range.begin = begin /\ range.chunk_end = chunk_end /\ range.full_end = full_end OBVIOUS
  <1> HIDE DEF range
  <1>6. y \in State BY <1>4 DEF State
  <1>7. /\ y.cfg = x.cfg /\ y.phase = x.phase /\ y.replay = x.replay /\ y.stash = x.stash
        /\ y.next_target = begin /\ y.resend_range = range /\ y.connected = x.connected
        /\ y.writer = x.writer
    BY DEF State
  <1>8. WithType("ResendRequest") \in Msg BY WithTypeType, TypeNames
  <1>9. m \in Msg BY <1>1, <1>2, <1>8 DEF Msg
  <1> HIDE DEF y, m
  <1>10. begin <= begin BY <1>1
  <1>11. Asked(y) /\ Waiting(y) BY <1>2, <1>5, <1>7, <1>10 DEF Asked, Waiting
  <1>12. Calm(x, y)
    <2>1. y.next_target <= x.next_target + 0 /\ x.next_target <= y.next_target BY <1>1, <1>7
    <2>2. Queue(x, y, 0) BY <1>6, <1>7, <2>1 DEF Queue
    <2>3. Live(x, y) BY <1>7, <1>11, <2>1 DEF Live
    <2> QED BY <2>2, <2>3 DEF Calm
  <1>13. /\ Calm(y, z)
         /\ y.writer # "dead" => z.resend_range = y.resend_range /\ z.next_target = y.next_target
    BY <1>6, <1>9, SendMessageCalm DEF Undisturbed
  <1> HIDE DEF z
  <1>14. Calm(x, z) BY <1>12, <1>13, CalmTrans
  <1>15. x.writer # "dead" => Asked(z) /\ Waiting(z) BY <1>7, <1>11, <1>13 DEF Asked, Waiting
  <1> QED BY <1>3, <1>14, <1>15

\* Session::check_resend_chunks: afterwards the expected number is inside the
\* chunk that was asked for last, or nothing is outstanding.
LEMMA CheckResendChunksCalm ==
  ASSUME NEW x \in State
  PROVE  LET y == CheckResendChunks(x)
         IN  /\ Calm(x, y)
             /\ x.writer # "dead" => Waiting(y)
  <1> DEFINE y == [x EXCEPT !.resend_range = NoRange]
             r == x.resend_range
             z == SendResendRequest(x, x.next_target, r.full_end + 1)
  <1>1. y \in State BY FieldFacts DEF State
  <1>2. /\ y.cfg = x.cfg /\ y.phase = x.phase /\ y.replay = x.replay /\ y.stash = x.stash
        /\ y.next_target = x.next_target /\ y.resend_range = NoRange
        /\ y.connected = x.connected /\ y.writer = x.writer
    BY DEF State
  <1>3. x.next_target \in Nat /\ r.full_end \in Nat /\ r.chunk_end \in Nat
    BY TargetFacts DEF State, ResendRange
  <1>4. \/ CheckResendChunks(x) = x /\ (r = NoRange \/ x.next_target <= r.chunk_end)
        \/ CheckResendChunks(x) = y
        \/ CheckResendChunks(x) = z /\ x.next_target <= r.full_end
    BY DEF CheckResendChunks
  <1> HIDE DEF y
  <1>5. Calm(x, y) /\ Waiting(y)
    <2>1. x.next_target <= x.next_target + 0 /\ x.next_target <= x.next_target BY <1>3
    <2> QED BY <1>1, <1>2, <2>1 DEF Calm, Queue, Live, Asked, Waiting
  <1>6. x.next_target <= r.full_end => Calm(x, z) /\ (x.writer # "dead" => Waiting(z))
    <2>1. x.next_target <= r.full_end => x.next_target < r.full_end + 1 BY <1>3
    <2>2. r.full_end + 1 \in Nat BY <1>3
    <2> QED BY <2>1, <2>2, SendResendRequestCalm
  <1> HIDE DEF z
  <1>7. r = NoRange \/ x.next_target <= r.chunk_end => Waiting(x) BY DEF Waiting
  <1> QED BY <1>4, <1>5, <1>6, <1>7, CalmRefl

\* What a call may do that handles message m: m may be stashed if it is ahead,
\* and the expected number may go up by one.
Took(x, m, y) ==
    /\ y \in State
    /\ y.cfg = x.cfg /\ y.phase = x.phase /\ y.replay = x.replay
    /\ y.stash \subseteq x.stash \cup {m}
    /\ Unique(x) => Unique(y)
    /\ Ahead(x) => AtOrAhead(y)
    /\ x.connected /\ ~y.connected => y.stash \subseteq {m}
    /\ Live(x, y)

\* A call that stashes nothing.
LEMMA BumpTook == ASSUME NEW x \in State, NEW m, NEW y, Bump(x, y) PROVE Took(x, m, y)
  <1>1. y \in State /\ y.stash \subseteq x.stash /\ y.next_target <= x.next_target + 1 BY DEF Bump, Queue
  <1>2. x.next_target \in Nat /\ y.next_target \in Nat BY <1>1, TargetFacts
  <1>3. \A k \in y.stash : k \in x.stash /\ k.seq \in Nat BY <1>1 DEF State, Msg
  <1>4. \A k \in Nat : k > x.next_target => k >= y.next_target BY <1>1, <1>2
  <1>5. Ahead(x) => AtOrAhead(y) BY <1>3, <1>4 DEF Ahead, AtOrAhead
  <1>6. Unique(x) => Unique(y) BY <1>1 DEF Unique
  <1> QED BY <1>1, <1>5, <1>6 DEF Took, Bump, Queue

\* A call that does not change the expected number keeps the stash ahead.
LEMMA CalmAhead ==
  ASSUME NEW x \in State, NEW y, Calm(x, y)
  PROVE  /\ Unique(x) => Unique(y)
         /\ Ahead(x) => Ahead(y)
         /\ AtOrAhead(x) => AtOrAhead(y)
  <1>1. y \in State /\ y.stash \subseteq x.stash /\ y.next_target <= x.next_target + 0 BY DEF Calm, Queue
  <1>2. x.next_target \in Nat /\ y.next_target \in Nat BY <1>1, TargetFacts
  <1>3. \A k \in y.stash : k \in x.stash /\ k.seq \in Nat BY <1>1 DEF State, Msg
  <1>4. \A k \in Nat : /\ k > x.next_target => k > y.next_target
                       /\ k >= x.next_target => k >= y.next_target
    BY <1>1, <1>2
  <1> QED BY <1>1, <1>3, <1>4 DEF Ahead, AtOrAhead, Unique

\* Then a call that only sends.
LEMMA TookCalm ==
  ASSUME NEW x \in State, NEW m, NEW y, NEW z, Took(x, m, y), Calm(y, z) PROVE Took(x, m, z)
  <1>1. y \in State /\ z \in State BY DEF Took, Calm, Queue
  <1>2. Live(x, z) BY <1>1, LiveTrans DEF Took, Calm
  <1> QED BY <1>1, <1>2, CalmAhead DEF Took, Calm, Queue

\* BTreeMap::insert of a message that is ahead.
LEMMA StashInsertTook ==
  ASSUME NEW x \in State, NEW m \in Msg, m.seq > x.next_target
  PROVE  Took(x, m, StashInsert(x, m)) /\ StashInsert(x, m).next_target = x.next_target
  <1> DEFINE y == StashInsert(x, m)
  <1>1. y \in State BY StashInsertType
  <1>2. /\ y.cfg = x.cfg /\ y.phase = x.phase /\ y.replay = x.replay
        /\ y.stash = {k \in x.stash : k.seq # m.seq} \cup {m}
        /\ y.next_target = x.next_target /\ y.resend_range = x.resend_range
        /\ y.connected = x.connected /\ y.writer = x.writer
    BY DEF StashInsert, State
  <1> HIDE DEF y
  <1>3. x.next_target \in Nat /\ m.seq \in Nat BY TargetFacts DEF Msg
  <1>4. Live(x, y) BY <1>2, <1>3 DEF Live, Asked
  <1>5. Unique(x) => Unique(y) BY <1>2 DEF Unique
  <1>6. \A k \in Nat : k > x.next_target => k >= x.next_target BY <1>3
  <1>7. \A k \in x.stash : k.seq \in Nat BY DEF State, Msg
  <1>8. Ahead(x) => AtOrAhead(y) BY <1>2, <1>3, <1>6, <1>7 DEF Ahead, AtOrAhead
  <1> QED BY <1>1, <1>2, <1>4, <1>5, <1>8 DEF Took, y

\* Session::on_target_too_high.
LEMMA OnTargetTooHighTook ==
  ASSUME NEW x \in State, NEW m \in Msg, m.seq > x.next_target
  PROVE  Took(x, m, OnTargetTooHigh(x, m))
  <1> DEFINE y == StashInsert(x, m)
  <1>1. Took(x, m, y) /\ y.next_target = x.next_target BY StashInsertTook
  <1>2. m.seq \in Nat /\ x.next_target \in Nat /\ x.next_target < m.seq BY TargetFacts DEF Msg
  <1>3. OnTargetTooHigh(x, m) \in {y, SendResendRequest(y, x.next_target, m.seq)}
    BY DEF OnTargetTooHigh
  <1> HIDE DEF y
  <1>4. y \in State BY <1>1 DEF Took
  <1>5. Calm(y, SendResendRequest(y, y.next_target, m.seq)) BY <1>1, <1>2, <1>4, SendResendRequestCalm
  <1>6. Took(x, m, SendResendRequest(y, x.next_target, m.seq)) BY <1>1, <1>5, TookCalm
  <1> QED BY <1>1, <1>3, <1>6

--------------------------------------------------------------------------------
(***************************************************************************)
(* The verify pipeline.                                                    *)
(***************************************************************************)
\* A call that only sends, then one that handles the message.
LEMMA CalmTook ==
  ASSUME NEW x \in State, NEW m, NEW y, NEW z, Calm(x, y), Took(y, m, z) PROVE Took(x, m, z)
  <1>1. y \in State /\ z \in State BY DEF Took, Calm, Queue
  <1>2. Live(x, z) BY <1>1, LiveTrans DEF Took, Calm
  <1>3. z.stash \subseteq x.stash \cup {m} BY DEF Took, Calm, Queue
  <1> QED BY <1>1, <1>2, <1>3, CalmAhead DEF Took, Calm, Queue

\* A call that stashes nothing, then a return.
LEMMA CalmIsTook == ASSUME NEW x \in State, NEW m, NEW y, Calm(x, y) PROVE Took(x, m, y)
  BY CalmIsBump, BumpTook

\* The message is handed on only when nothing has changed, and it is not
\* stashed when the connection is to be dropped.
Verified(x, m, y) ==
    /\ Took(x, m, y)
    /\ y.flow = "Continue" => Calm(x, y)
    /\ y.flow = "Disconnect" => Bump(x, y)

LEMMA BumpVerified ==
  ASSUME NEW x \in State, NEW m, NEW y, Bump(x, y), NEW f \in {"Stop", "Disconnect"}
  PROVE  Verified(x, m, Return(y, f))
  <1>1. f \in Flows BY FieldFacts
  <1>2. Bump(x, Return(y, f)) /\ Return(y, f).flow = f BY <1>1, BumpReturn
  <1> QED BY <1>2, BumpTook DEF Verified

\* Session::on_target_too_low.
LEMMA OnTargetTooLowVerified ==
  ASSUME NEW x \in State, NEW m PROVE Verified(x, m, OnTargetTooLow(x, m))
  <1>1. OnTargetTooLow(x, m) \in
           {Return(InitiateLogout(x), "Disconnect"), Return(InitiateLogout(SendReject(x, m)), "Stop"),
            Return(SendReject(x, m), "Stop"), Return(x, "Stop")}
    BY DEF OnTargetTooLow
  <1>2. /\ Bump(x, InitiateLogout(x)) /\ Bump(x, InitiateLogout(SendReject(x, m)))
        /\ Bump(x, SendReject(x, m)) /\ Bump(x, x)
    BY InitiateLogoutCalm, RejectLogoutBump, SendRejectBump, CalmRefl, CalmIsBump
  <1> QED BY <1>1, <1>2, BumpVerified

\* The callback stage of verify.
LEMMA CallbackVerified ==
  ASSUME NEW x \in State, NEW m \in Msg, NEW o \in Oracle PROVE Verified(x, m, Callback(x, m, o))
  <1> DEFINE d == IF m.type \in AppTypes THEN Append(x.delivered, m.seq) ELSE x.delivered
             r == [x EXCEPT !.test_request_counter = 0, !.delivered = d]
  <1>1. d \in Seq(Nat) BY DEF State, Msg
  <1>2. o.verdict \in {"ok", "reject_logon", "reject", "unsupported"} BY DEF Oracle, Verdicts
  <1>3. Callback(x, m, o) \in {Return(r, "Continue"), Return(InitiateLogout(IncrTarget(r)), "Disconnect"),
                               Return(SendReject(r, m), "Stop"), Return(SendBusinessReject(r, o), "Stop")}
    BY <1>2 DEF Callback
  <1> HIDE DEF d
  <1>4. r \in State BY <1>1 DEF State
  <1>5. Calm(x, r) BY <1>4, SameCalm DEF State
  <1> HIDE DEF r
  <1>6. Bump(r, IncrTarget(r)) /\ IncrTarget(r) \in State BY <1>4, IncrTargetBump, IncrTargetType
  <1>7. Bump(r, InitiateLogout(IncrTarget(r))) BY <1>4, <1>6, InitiateLogoutCalm, BumpCalm
  <1>8. Bump(r, SendReject(r, m)) /\ Bump(r, SendBusinessReject(r, o))
    BY <1>4, SendRejectBump, SendBusinessRejectBump
  <1>9. /\ Bump(x, InitiateLogout(IncrTarget(r))) /\ Bump(x, SendReject(r, m))
        /\ Bump(x, SendBusinessReject(r, o))
    BY <1>5, <1>7, <1>8, CalmBump
  <1>10. Calm(x, Return(r, "Continue")) BY <1>5, CalmReturn, FieldFacts
  <1>11. Verified(x, m, Return(r, "Continue"))
    <2>1. Return(r, "Continue").flow = "Continue" BY <1>5, CalmReturn, FieldFacts
    <2> QED BY <1>10, <2>1, CalmIsTook DEF Verified
  <1> QED BY <1>3, <1>9, <1>11, BumpVerified

\* The sequence-number stage.
LEMMA CheckSeqNumVerified ==
  ASSUME NEW x \in State, NEW m \in Msg, NEW o \in Oracle, NEW hi \in BOOLEAN, NEW lo \in BOOLEAN
  PROVE  Verified(x, m, CheckSeqNum(x, m, o, hi, lo))
  <1>1. Verified(x, m, Return(SendReject(x, m), "Stop")) BY SendRejectBump, BumpVerified
  <1>2. ASSUME m.seq > x.next_target PROVE Verified(x, m, Return(OnTargetTooHigh(x, m), "Stop"))
    <2> DEFINE y == OnTargetTooHigh(x, m)
    <2>1. Took(x, m, y) BY <1>2, OnTargetTooHighTook
    <2> HIDE DEF y
    <2>2. y \in State BY <2>1 DEF Took
    <2>3. Calm(y, Return(y, "Stop")) /\ Return(y, "Stop").flow = "Stop"
      BY <2>2, ReturnCalm, FieldFacts
    <2>4. Took(x, m, Return(y, "Stop")) BY <2>1, <2>3, TookCalm
    <2> QED BY <2>3, <2>4 DEF Verified, y
  <1> QED BY <1>1, <1>2, OnTargetTooLowVerified, CallbackVerified DEF CheckSeqNum

\* Session::verify.
LEMMA VerifyVerified ==
  ASSUME NEW x \in State, NEW m \in Msg, NEW o \in Oracle, NEW hi \in BOOLEAN, NEW lo \in BOOLEAN
  PROVE  Verified(x, m, Verify(x, m, o, hi, lo))
  <1>1. Verified(x, m, CheckSeqNum(x, m, o, hi, lo)) BY CheckSeqNumVerified
  <1>2. Bump(x, SendReject(x, m)) /\ Bump(x, InitiateLogout(SendReject(x, m))) /\ Bump(x, x)
    BY SendRejectBump, RejectLogoutBump, CalmRefl, CalmIsBump
  <1>3. \/ Verify(x, m, o, hi, lo) = CheckSeqNum(x, m, o, hi, lo)
        \/ Verify(x, m, o, hi, lo) \in
             {Return(x, "Disconnect"), Return(SendReject(x, m), "Stop"),
              Return(InitiateLogout(SendReject(x, m)), "Stop")}
    BY DEF Verify
  <1> QED BY <1>1, <1>2, <1>3, BumpVerified

--------------------------------------------------------------------------------
(***************************************************************************)
(* The handlers.                                                           *)
(***************************************************************************)
\* While the write task lives a handler keeps the connection and, unless it
\* asks for a disconnect, what was asked for.
StaysLive(x, y) ==
    x.writer # "dead" =>
        /\ y.writer # "dead" /\ y.connected = x.connected
        /\ NoResets /\ y.flow # "Disconnect" =>
              x.next_target <= y.next_target /\ (Asked(x) => Asked(y))

\* Nothing was stashed, and nothing is left when the connection was lost.
Emptied(x, y) ==
    /\ y.stash \subseteq x.stash
    /\ x.connected /\ ~y.connected => y.stash = {}

\* A handler's result.  Entering retransmit for a ResendRequest leaves the
\* number of the request to be consumed: the stash is still ahead of it.
Outcome(x, m, y) ==
    /\ y \in State
    /\ y.cfg = x.cfg
    /\ y.stash \subseteq x.stash \cup {m}
    /\ Unique(x) => Unique(y)
    /\ Ahead(x) => AtOrAhead(y) /\ (y.phase = "resend" /\ y.replay.request # 0 => Ahead(y))
    /\ y.phase = x.phase \/ y.phase = "resend"
    /\ x.connected /\ ~y.connected => y.stash \subseteq {m}
    /\ y.flow = "Disconnect" => Emptied(x, y)
    /\ StaysLive(x, y)

LEMMA TookOutcome ==
  ASSUME NEW x, x.phase # "resend", NEW m, NEW y, Took(x, m, y),
         y.flow = "Disconnect" => Emptied(x, y)
  PROVE  Outcome(x, m, y)
  BY DEF Took, Outcome, Live, StaysLive

LEMMA BumpOutcome ==
  ASSUME NEW x \in State, x.phase # "resend", NEW m, NEW y, Bump(x, y) PROVE Outcome(x, m, y)
  BY BumpTook, TookOutcome DEF Bump, Queue, Emptied

LEMMA VerifiedOutcome ==
  ASSUME NEW x, x.phase # "resend", NEW m, NEW y, Verified(x, m, y) PROVE Outcome(x, m, y)
  BY TookOutcome DEF Verified, Bump, Queue, Emptied

\* Heartbeat, Reject and application messages.
LEMMA HandlePlainOutcome ==
  ASSUME NEW x \in State, x.phase # "resend", NEW m \in Msg, NEW o \in Oracle
  PROVE  Outcome(x, m, HandlePlain(x, m, o))
  <1> DEFINE v == Verify(x, m, o, TRUE, TRUE)
  <1>1. Verified(x, m, v) BY VerifyVerified
  <1>2. HandlePlain(x, m, o) = IF v.flow = "Continue" THEN IncrTarget(v) ELSE v BY DEF HandlePlain
  <1> HIDE DEF v
  <1>3. v \in State BY <1>1 DEF Verified, Took
  <1>4. Calm(x, v) => Outcome(x, m, IncrTarget(v)) BY <1>3, IncrTargetBump, CalmBump, BumpOutcome
  <1> QED BY <1>1, <1>2, <1>4, VerifiedOutcome DEF Verified

\* Session::handle_test_request.
LEMMA HandleTestRequestOutcome ==
  ASSUME NEW x \in State, x.phase # "resend", NEW m \in Msg, NEW o \in Oracle
  PROVE  Outcome(x, m, HandleTestRequest(x, m, o))
  <1> DEFINE v == Verify(x, m, o, TRUE, TRUE)
             h == SendMessage(v, WithType("Heartbeat"))
  <1>1. Verified(x, m, v) BY VerifyVerified
  <1>2. HandleTestRequest(x, m, o) = IF v.flow = "Continue" THEN IncrTarget(h) ELSE v
    BY DEF HandleTestRequest
  <1> HIDE DEF v
  <1>3. v \in State BY <1>1 DEF Verified, Took
  <1>4. WithType("Heartbeat") \in Msg BY WithTypeType, TypeNames
  <1>5. Calm(v, h) /\ h \in State BY <1>3, <1>4, SendMessageCalm, SendMessageType
  <1> HIDE DEF h
  <1>6. Calm(x, v) => Outcome(x, m, IncrTarget(h))
    BY <1>5, IncrTargetBump, CalmTrans, CalmBump, BumpOutcome
  <1> QED BY <1>1, <1>2, <1>6, VerifiedOutcome DEF Verified

\* Session::handle_sequence_reset drops from the stash what it passes.
LEMMA HandleSequenceResetOutcome ==
  ASSUME NEW x \in State, x.phase # "resend", NEW m \in Msg, NEW o \in Oracle
  PROVE  Outcome(x, m, HandleSequenceReset(x, m, o))
  <1> DEFINE v == Verify(x, m, o, m.flag, m.flag)
             moved == [v EXCEPT !.next_target = m.num, !.stash = {y \in @ : y.seq >= m.num}]
             h == HandleSequenceReset(x, m, o)
  <1>1. m.flag \in BOOLEAN /\ m.num \in Nat BY DEF Msg
  <1>2. Verified(x, m, v) BY <1>1, VerifyVerified
  <1>3. \/ h = moved /\ m.num > v.next_target /\ v.flow = "Continue"
        \/ h = SendReject(v, m) /\ v.flow = "Continue"
        \/ h = v
    BY DEF HandleSequenceReset
  <1> HIDE DEF v, h
  <1>4. v \in State BY <1>2 DEF Verified, Took
  <1>5. ASSUME m.num > v.next_target, Calm(x, v) PROVE Outcome(x, m, moved)
    <2>1. v.next_target \in Nat /\ m.num \in SeqNum BY <1>1, <1>4, <1>5, TargetFacts DEF SeqNum
    <2>2. {y \in v.stash : y.seq >= m.num} \in SUBSET Msg BY <1>4 DEF State
    <2>3. moved \in State BY <1>4, <2>1, <2>2 DEF State
    <2>4. /\ moved.cfg = v.cfg /\ moved.phase = v.phase /\ moved.replay = v.replay
          /\ moved.stash = {y \in v.stash : y.seq >= m.num}
          /\ moved.next_target = m.num /\ moved.resend_range = v.resend_range
          /\ moved.connected = v.connected /\ moved.writer = v.writer
      BY <1>4 DEF State
    <2> HIDE DEF moved
    <2>5. AtOrAhead(moved) BY <2>4 DEF AtOrAhead
    <2>6. Unique(v) => Unique(moved) BY <2>4 DEF Unique
    <2>7. Live(v, moved)
      <3>1. v.next_target <= m.num BY <1>1, <1>5, <2>1
      <3>2. v.resend_range.begin \in Nat BY <1>4 DEF State, ResendRange
      <3>3. Asked(v) => Asked(moved) BY <1>1, <2>1, <2>4, <3>1, <3>2 DEF Asked
      <3> QED BY <2>4, <3>1, <3>3 DEF Live
    <2>8. moved.stash \subseteq v.stash \cup {m} BY <2>4
    <2>9. Took(v, m, moved) BY <2>3, <2>4, <2>5, <2>6, <2>7, <2>8 DEF Took
    <2>10. Emptied(x, moved)
      <3>1. v.stash \subseteq x.stash /\ (x.connected /\ ~v.connected => v.stash = {})
        BY <1>5 DEF Calm, Queue
      <3>2. moved.stash \subseteq v.stash BY <2>4
      <3> QED BY <2>4, <3>1, <3>2 DEF Emptied
    <2> QED BY <1>5, <2>9, <2>10, CalmTook, TookOutcome
  <1>6. Calm(x, v) => Outcome(x, m, SendReject(v, m)) BY <1>4, SendRejectBump, CalmBump, BumpOutcome
  <1>7. v.flow = "Continue" => Calm(x, v) BY <1>2 DEF Verified
  <1>8. Outcome(x, m, v) BY <1>2, VerifiedOutcome
  <1>9. CASE h = moved /\ m.num > v.next_target /\ v.flow = "Continue"
    BY <1>5, <1>7, <1>9 DEF h
  <1>10. CASE h = SendReject(v, m) /\ v.flow = "Continue" BY <1>6, <1>7, <1>10 DEF h
  <1>11. CASE h = v BY <1>8, <1>11 DEF h
  <1> QED BY <1>3, <1>9, <1>10, <1>11

\* Session::handle_logout.
LEMMA HandleLogoutOutcome ==
  ASSUME NEW x \in State, x.phase # "resend", NEW m \in Msg, NEW o \in Oracle
  PROVE  Outcome(x, m, HandleLogout(x, m, o))
  <1> DEFINE v == Verify(x, m, o, FALSE, FALSE)
             w == IF v.sent_logout THEN v ELSE InitiateLogout(v)
             r == IncrTarget(w)
             z == StoreReset(r)
  <1>1. Verified(x, m, v) BY VerifyVerified
  <1>2. \/ HandleLogout(x, m, o) = v
        \/ v.flow = "Continue" /\ HandleLogout(x, m, o) = Return(z, "Disconnect")
        \/ v.flow = "Continue" /\ HandleLogout(x, m, o) = Return(r, "Disconnect")
    BY DEF HandleLogout
  <1> HIDE DEF v
  <1>3. v \in State BY <1>1 DEF Verified, Took
  <1>4. Calm(v, w) BY <1>3, InitiateLogoutCalm, CalmRefl
  <1> HIDE DEF w
  <1>5. w \in State BY <1>4 DEF Calm, Queue
  <1>6. Bump(w, r) /\ r \in State BY <1>5, IncrTargetBump, IncrTargetType
  <1> HIDE DEF r
  <1>7. ASSUME Calm(x, v)
        PROVE  Outcome(x, m, Return(r, "Disconnect")) /\ Outcome(x, m, Return(z, "Disconnect"))
    <2>1. Bump(x, r) BY <1>4, <1>6, <1>7, CalmTrans, CalmBump
    <2>2. Outcome(x, m, Return(r, "Disconnect"))
      BY <2>1, BumpReturn, BumpOutcome, FieldFacts
    <2>3. Queue(r, z, 0) /\ z.connected = r.connected /\ z.writer = r.writer
      BY <1>6, StoreResetQueue
    <2> HIDE DEF z
    <2>4. z \in State BY <2>3 DEF Queue
    <2>5. Queue(x, z, 1 + 0) BY <2>1, <2>3, QueueTrans DEF Bump
    <2>6. Calm(z, Return(z, "Disconnect")) /\ Return(z, "Disconnect").flow = "Disconnect"
      BY <2>4, ReturnCalm, FieldFacts
    <2> DEFINE y == Return(z, "Disconnect")
    <2>7. Queue(x, y, (1 + 0) + 0) BY <2>5, <2>6, QueueTrans DEF Calm
    <2> HIDE DEF y
    <2>8. y.connected = z.connected /\ y.writer = z.writer BY <2>4 DEF y, Return, State
    <2>9. StaysLive(x, y) BY <2>1, <2>3, <2>6, <2>8 DEF StaysLive, Bump, Live, y
    <2>10. /\ y \in State /\ y.cfg = x.cfg /\ y.phase = x.phase /\ y.stash \subseteq x.stash
           /\ y.next_target <= x.next_target + 1
           /\ x.connected /\ ~y.connected => y.stash = {}
      BY <2>7 DEF Queue
    <2>11. Unique(x) => Unique(y) BY <2>10 DEF Unique
    <2>12. Ahead(x) => AtOrAhead(y)
      <3>1. x.next_target \in Nat /\ y.next_target \in Nat BY <2>10, TargetFacts
      <3>2. \A k \in y.stash : k \in x.stash /\ k.seq \in Nat BY <2>10 DEF State, Msg
      <3>3. \A k \in Nat : k > x.next_target => k >= y.next_target BY <2>10, <3>1
      <3> QED BY <3>2, <3>3 DEF Ahead, AtOrAhead
    <2>13. Outcome(x, m, y) BY <2>9, <2>10, <2>11, <2>12 DEF Outcome, Emptied
    <2> QED BY <2>2, <2>13 DEF y
  <1>8. Outcome(x, m, v) BY <1>1, VerifiedOutcome
  <1> QED BY <1>1, <1>2, <1>7, <1>8 DEF Verified

\* The end of Session::handle_resend_request.
LEMMA ConsumeRequestBump ==
  ASSUME NEW x \in State, NEW n
  PROVE  Bump(x, ConsumeRequest(x, n)) /\ (n = 0 => Calm(x, ConsumeRequest(x, n)))
  BY IncrTargetBump, CalmRefl, CalmIsBump DEF ConsumeRequest

\* What answering a request leaves behind.  The replay after a Logon (request
\* 0) consumes no number of its own.
Answered(x, request, y) ==
    /\ y \in State
    /\ y.cfg = x.cfg
    /\ y.stash \subseteq x.stash
    /\ Unique(x) => Unique(y)
    /\ Ahead(x) => AtOrAhead(y) /\ (y.phase = "resend" => Ahead(y))
    /\ request = 0 => /\ AtOrAhead(x) => AtOrAhead(y)
                      /\ y.phase = "resend" => y.replay.request = 0
    /\ y.phase = x.phase \/ y.phase = "resend"
    /\ x.connected /\ ~y.connected => y.stash = {}
    /\ Live(x, y)

\* Session::answer_resend.
LEMMA AnswerResendAnswered ==
  ASSUME NEW x \in State, x.phase # "resend", NEW begin \in Nat, NEW end \in Nat, NEW request \in Nat
  PROVE  Answered(x, request, AnswerResend(x, begin, end, request))
  <1> DEFINE p == [begin |-> begin, seq |-> begin, end |-> end, gap_begin |-> 0,
                   request |-> request, mark |-> Len(x.out)]
             y == [x EXCEPT !.phase = "resend", !.replay = p]
             g == SendGapFill(x, begin, end + 1)
  <1>1. Len(x.out) \in Nat BY LenProperties DEF State
  <1>2. p \in Replay /\ p.request = request BY <1>1 DEF Replay
  <1>3. AnswerResend(x, begin, end, request) \in
           {ConsumeRequest(x, request), y, ConsumeRequest(g, request)}
    BY DEF AnswerResend, State, Config
  <1> HIDE DEF p
  <1>4. y \in State BY <1>2, FieldFacts DEF State
  <1>5. /\ y.cfg = x.cfg /\ y.stash = x.stash /\ y.next_target = x.next_target
        /\ y.resend_range = x.resend_range /\ y.connected = x.connected /\ y.writer = x.writer
        /\ y.phase = "resend" /\ y.replay = p
    BY <1>2 DEF State
  <1> HIDE DEF y
  <1>6. Answered(x, request, y)
    <2>1. x.next_target \in Nat BY TargetFacts
    <2>2. \A k \in x.stash : k.seq \in Nat BY DEF State, Msg
    <2>3. \A k \in Nat : k > x.next_target => k >= x.next_target BY <2>1
    <2>4. Ahead(x) => AtOrAhead(y) BY <1>5, <2>2, <2>3 DEF Ahead, AtOrAhead
    <2>5. Live(x, y) BY <1>5, <2>1 DEF Live, Asked
    <2> QED BY <1>2, <1>4, <1>5, <2>4, <2>5 DEF Answered, Unique, Ahead, AtOrAhead
  <1>7. ASSUME NEW z, Calm(x, z) PROVE Answered(x, request, ConsumeRequest(z, request))
    <2> DEFINE w == ConsumeRequest(z, request)
    <2>1. z \in State BY <1>7 DEF Calm, Queue
    <2>2. Bump(z, w) /\ (request = 0 => Calm(z, w)) BY <2>1, ConsumeRequestBump
    <2> HIDE DEF w
    <2>3. Bump(x, w) BY <1>7, <2>2, CalmBump
    <2>4. request = 0 => Calm(x, w) BY <1>7, <2>2, CalmTrans
    <2>5. Took(x, 0, w) BY <2>3, BumpTook
    <2>6. request = 0 => (AtOrAhead(x) => AtOrAhead(w)) BY <2>4, CalmAhead
    <2>7. /\ w \in State /\ w.cfg = x.cfg /\ w.phase = x.phase /\ w.stash \subseteq x.stash
          /\ x.connected /\ ~w.connected => w.stash = {}
      BY <2>3 DEF Bump, Queue
    <2> QED BY <2>5, <2>6, <2>7 DEF Answered, Took, w
  <1>8. Calm(x, g) BY SendGapFillCalm
  <1> HIDE DEF g
  <1> QED BY <1>3, <1>6, <1>7, <1>8, CalmRefl

\* Session::handle_resend_request.
LEMMA HandleResendRequestOutcome ==
  ASSUME NEW x \in State, x.phase # "resend", NEW m \in Msg, NEW o \in Oracle
  PROVE  Outcome(x, m, HandleResendRequest(x, m, o))
  <1> DEFINE v == Verify(x, m, o, FALSE, FALSE)
             end == IF m.end = 0 \/ m.end >= v.next_sender THEN v.next_sender - 1 ELSE m.end
             y == AnswerResend(v, m.num, end, m.seq)
  <1>1. Verified(x, m, v) BY VerifyVerified
  <1>2. HandleResendRequest(x, m, o) = IF v.flow = "Continue" THEN y ELSE v
    BY DEF HandleResendRequest
  <1> HIDE DEF v
  <1>3. v \in State /\ v.phase = x.phase BY <1>1 DEF Verified, Took
  <1>4. end \in Nat BY <1>3, SeqNumFacts DEF State, Msg
  <1>5. m.num \in Nat /\ m.seq \in Nat BY DEF Msg
  <1> HIDE DEF end
  <1>6. Answered(v, m.seq, y) BY <1>3, <1>4, <1>5, AnswerResendAnswered
  <1> HIDE DEF y
  <1>7. ASSUME Calm(x, v) PROVE Outcome(x, m, y)
    <2>1. /\ Unique(x) => Unique(v)
          /\ Ahead(x) => Ahead(v)
      BY <1>7, CalmAhead
    <2>2. y \in State BY <1>6 DEF Answered
    <2>3. Live(x, y) BY <1>3, <1>6, <1>7, <2>2, LiveTrans DEF Calm, Answered
    <2>4. /\ v.cfg = x.cfg /\ v.stash \subseteq x.stash
          /\ x.connected /\ ~v.connected => v.stash = {}
      BY <1>7 DEF Calm, Queue
    <2>5. Emptied(x, y) BY <1>6, <2>4 DEF Answered, Emptied
    <2> QED BY <1>3, <1>6, <2>1, <2>3, <2>4, <2>5 DEF Answered, Outcome, Live, StaysLive, Emptied
  <1>8. Outcome(x, m, v) BY <1>1, VerifiedOutcome
  <1> QED BY <1>1, <1>2, <1>7, <1>8 DEF Verified

\* The resets a Logon asks for, none where the numbers are not reset.
LEMMA LogonResetsCalm ==
  ASSUME NEW x \in State, x.cfg \in Configs, NEW m \in Inbound, m.type = "Logon"
  PROVE  Calm(x, LogonResets(x, m))
  <1> DEFINE r == [x EXCEPT !.received_reset = @ \/ m.flag]
  <1>0. m \in Msg /\ m.flag \in BOOLEAN BY InboundAssumption DEF Msg
  <1>1. (x.received_reset \/ m.flag) \in BOOLEAN OBVIOUS
  <1>2. r \in State BY <1>1 DEF State
  <1>3. Calm(x, r) BY <1>2, SameCalm DEF State
  <1>4. LogonResets(x, m) \in {r, StoreReset(r)} BY DEF LogonResets
  <1>5. NoResets => LogonResets(x, m) = r BY DEF LogonResets, NoResets
  <1> HIDE DEF r
  <1>6. /\ Queue(r, StoreReset(r), 0) /\ StoreReset(r).connected = r.connected
        /\ StoreReset(r).writer = r.writer
    BY <1>2, StoreResetQueue
  <1>7. Queue(x, StoreReset(r), 0 + 0) BY <1>3, <1>6, QueueTrans DEF Calm
  <1>8. ~NoResets => Calm(x, StoreReset(r)) BY <1>3, <1>6, <1>7 DEF Calm, Live
  <1> QED BY <1>3, <1>4, <1>5, <1>8

\* Sending does not change what the handler returns.
LEMMA SendsKeepFlow ==
  ASSUME NEW x \in State
  PROVE  /\ \A f : Transmit(x, f).flow = x.flow
         /\ \A m : SendMessage(x, m).flow = x.flow
         /\ SendLogonReply(x).flow = x.flow
         /\ \A m \in Msg : m.seq > x.next_target => OnTargetTooHigh(x, m).flow = x.flow
         /\ \A b, e, q \in Nat : AnswerResend(x, b, e, q).flow = x.flow
  <1>1. \A y \in State : \A f : Transmit(y, f).flow = y.flow
    BY DEF Transmit, Disconnect, StoreReset, State
  <1>2. ASSUME NEW y \in State, NEW m PROVE SendMessage(y, m).flow = y.flow
    <2> DEFINE f == [m EXCEPT !.seq = y.next_sender, !.poss_dup = FALSE]
               u == [y EXCEPT !.next_sender = @ + 1]
               w == IF y.cfg.persist_messages THEN SaveAndIncr(y, f) ELSE u
    <2>1. w.flow = y.flow BY DEF SaveAndIncr, State
    <2>2. \A g : Transmit(w, g).flow = w.flow BY DEF Transmit, Disconnect, StoreReset, SaveAndIncr, State
    <2>3. SendMessage(y, m) \in {w, Transmit(w, f)} BY DEF SendMessage
    <2> HIDE DEF w
    <2> QED BY <2>1, <2>2, <2>3
  <1>3. SendLogonReply(x).flow = x.flow
    <2> DEFINE b == x.sent_reset \/ x.received_reset
               y == [x EXCEPT !.sent_reset = b, !.sent_logon = TRUE]
    <2>1. b \in BOOLEAN BY DEF State
    <2>2. \E m : SendLogonReply(x) = SendMessage(y, m) BY DEF SendLogonReply
    <2> HIDE DEF b
    <2>3. y \in State /\ y.flow = x.flow BY <2>1 DEF State
    <2> HIDE DEF y
    <2> QED BY <1>2, <2>2, <2>3
  <1>4. ASSUME NEW m \in Msg, m.seq > x.next_target PROVE OnTargetTooHigh(x, m).flow = x.flow
    <2> DEFINE y == StashInsert(x, m)
               z == SendResendRequest(y, x.next_target, m.seq)
    <2>1. y \in State /\ y.flow = x.flow BY StashInsertType DEF StashInsert, State
    <2>2. OnTargetTooHigh(x, m) \in {y, z} BY DEF OnTargetTooHigh
    <2> HIDE DEF y
    <2>3. z.flow = y.flow
      <3> DEFINE begin == x.next_target
                 full_end == m.seq - 1
                 max == y.cfg.max_messages_in_resend_request
                 capped == max # 0 /\ begin + max - 1 < full_end
                 chunk_end == IF capped THEN begin + max - 1 ELSE full_end
                 range == [begin |-> begin, full_end |-> full_end, chunk_end |-> chunk_end]
                 w == [y EXCEPT !.resend_range = range]
      <3>1. max \in Nat /\ begin \in Nat /\ m.seq \in Nat BY <2>1, TargetFacts DEF State, Config, Msg
      <3>2. full_end \in Nat /\ chunk_end \in Nat BY <1>4, <3>1
      <3>3. \E g : z = SendMessage(w, g) BY DEF SendResendRequest
      <3> HIDE DEF chunk_end, full_end
      <3>4. range \in ResendRange BY <3>1, <3>2 DEF ResendRange
      <3> HIDE DEF range
      <3>5. w \in State /\ w.flow = y.flow BY <2>1, <3>4 DEF State
      <3> HIDE DEF w, z
      <3> QED BY <1>2, <3>3, <3>5
    <2> QED BY <2>1, <2>2, <2>3
  <1>5. ASSUME NEW b \in Nat, NEW e \in Nat, NEW q \in Nat PROVE AnswerResend(x, b, e, q).flow = x.flow
    <2>1. ASSUME NEW y \in State PROVE ConsumeRequest(y, q).flow = y.flow
      BY DEF ConsumeRequest, IncrTarget, State
    <2>2. SendGapFill(x, b, e + 1) \in State BY SendGapFillType
    <2>3. SendGapFill(x, b, e + 1).flow = x.flow BY <1>1 DEF SendGapFill
    <2>4. \/ AnswerResend(x, b, e, q) = ConsumeRequest(x, q)
          \/ AnswerResend(x, b, e, q) = ConsumeRequest(SendGapFill(x, b, e + 1), q)
          \/ AnswerResend(x, b, e, q).flow = x.flow
      BY DEF AnswerResend, State, Config
    <2> QED BY <2>1, <2>2, <2>3, <2>4
  <1> QED BY <1>1, <1>2, <1>3, <1>4, <1>5

\* The end of handle_logon: reply, account for the number, replay.
LEMMA AcceptLogonOutcome ==
  ASSUME NEW x \in State, x.phase # "resend", x.flow = "Continue", NEW m \in Msg
  PROVE  Outcome(x, m, AcceptLogon(x, m))
  <1> DEFINE gap == IF x.cfg.send_next_expected /\ m.num # 0 /\ m.num < x.next_sender
                    THEN m.num ELSE 0
             r1 == IF x.cfg.initiator THEN x ELSE SendLogonReply(x)
             r2 == [r1 EXCEPT !.sent_reset = FALSE, !.received_reset = FALSE]
             range == [begin |-> r2.next_target, full_end |-> m.seq - 1, chunk_end |-> m.seq - 1]
             ins == StashInsert(r2, m)
             st == [ins EXCEPT !.resend_range = range]
             r3 == CASE m.seq <= r2.next_target -> IncrTarget(r2)
                     [] m.seq > r2.next_target /\ x.cfg.send_next_expected /\ ~m.flag -> st
                     [] OTHER -> OnTargetTooHigh(r2, m)
             r4 == [r3 EXCEPT !.app_online = @ \/ IsLoggedOn(r3)]
             y == AnswerResend(r4, gap, r4.next_sender - 1, 0)
  <1>1. m.num \in Nat /\ m.seq \in Nat BY DEF Msg
  <1>2. gap \in Nat BY <1>1
  <1>3. Calm(x, r1) BY SendLogonCalm, CalmRefl
  <1>4. AcceptLogon(x, m) = IF gap # 0 THEN y ELSE r4 BY DEF AcceptLogon
  <1>a. r1.flow = "Continue" BY SendsKeepFlow
  <1> HIDE DEF r1, gap
  <1>5. r1 \in State BY <1>3 DEF Calm, Queue
  <1>6. r2 \in State BY <1>5 DEF State
  <1>b. r2.flow = "Continue" BY <1>5, <1>a DEF State
  <1>7. Calm(r1, r2) BY <1>5, <1>6, SameCalm DEF State
  <1> HIDE DEF r2
  <1>8. r2.next_target \in Nat BY <1>6, TargetFacts
  <1>9. ASSUME m.seq > r2.next_target PROVE Took(r2, m, st)
    <2>1. m.seq - 1 \in Nat /\ r2.next_target <= r2.next_target /\ m.seq - 1 <= m.seq - 1
      BY <1>1, <1>8, <1>9
    <2>2. range \in ResendRange BY <2>1, <1>8 DEF ResendRange
    <2>3. range.begin = r2.next_target /\ range.chunk_end = m.seq - 1 /\ range.full_end = m.seq - 1
      OBVIOUS
    <2> HIDE DEF range
    <2>4. Took(r2, m, ins) /\ ins.next_target = r2.next_target BY <1>6, <1>9, StashInsertTook
    <2> HIDE DEF ins
    <2>5. ins \in State BY <2>4 DEF Took
    <2>6. st \in State BY <2>2, <2>5 DEF State
    <2>7. /\ st.cfg = ins.cfg /\ st.phase = ins.phase /\ st.replay = ins.replay
          /\ st.stash = ins.stash /\ st.next_target = ins.next_target
          /\ st.connected = ins.connected /\ st.writer = ins.writer /\ st.resend_range = range
      BY <2>2, <2>5 DEF State
    <2> HIDE DEF st
    <2>8. Asked(st) BY <2>1, <2>3, <2>4, <2>7 DEF Asked
    <2>9. Live(ins, st) BY <2>1, <2>4, <2>7, <2>8 DEF Live
    <2>10. st.next_target <= ins.next_target + 0 BY <1>8, <2>4, <2>7
    <2>11. Queue(ins, st, 0) BY <2>6, <2>7, <2>10 DEF Queue
    <2> QED BY <1>6, <2>4, <2>9, <2>11, TookCalm DEF Calm
  <1>10. Took(r2, m, r3)
    <2> HIDE DEF st
    <2>1. CASE m.seq <= r2.next_target
      <3>1. Took(r2, m, IncrTarget(r2)) BY <1>6, IncrTargetBump, BumpTook
      <3>2. ~(m.seq > r2.next_target) BY <1>1, <1>8, <2>1
      <3> QED BY <2>1, <3>1, <3>2
    <2>2. CASE m.seq > r2.next_target
      <3>1. Took(r2, m, OnTargetTooHigh(r2, m)) BY <1>6, <2>2, OnTargetTooHighTook
      <3>2. ~(m.seq <= r2.next_target) BY <1>1, <1>8, <2>2
      <3> QED BY <1>9, <2>2, <3>1, <3>2
    <2> QED BY <2>1, <2>2, <1>1, <1>8
  <1>c. r3.flow = "Continue"
    <2>1. st.flow = "Continue" BY <1>6, <1>b DEF StashInsert, State
    <2>2. IncrTarget(r2).flow = "Continue" BY <1>6, <1>b DEF IncrTarget, State
    <2>3. m.seq > r2.next_target => OnTargetTooHigh(r2, m).flow = "Continue"
      BY <1>6, <1>b, SendsKeepFlow
    <2>4. m.seq <= r2.next_target \/ m.seq > r2.next_target BY <1>1, <1>8
    <2> HIDE DEF st
    <2> QED BY <2>1, <2>2, <2>3, <2>4
  <1> HIDE DEF r3, st
  <1>11. r3 \in State BY <1>10 DEF Took
  <1>12. (r3.app_online \/ IsLoggedOn(r3)) \in BOOLEAN OBVIOUS
  <1>13. r4 \in State BY <1>11, <1>12 DEF State
  <1>14. Calm(r3, r4) BY <1>11, <1>13, SameCalm DEF State
  <1>d. r4.flow = "Continue" BY <1>11, <1>c DEF State
  <1> HIDE DEF r4
  <1>15. Took(x, m, r4) BY <1>3, <1>6, <1>7, <1>10, <1>14, CalmTrans, CalmTook, TookCalm
  <1>16. r4.next_sender - 1 \in Nat BY <1>13, SeqNumFacts DEF State
  <1>17. r4.phase # "resend" BY <1>15 DEF Took
  <1>18. Answered(r4, 0, y) BY <1>2, <1>13, <1>16, <1>17, AnswerResendAnswered
  <1>e. y.flow = "Continue" BY <1>2, <1>13, <1>16, <1>d, SendsKeepFlow
  <1> HIDE DEF y
  <1>19. Live(x, y) BY <1>13, <1>15, <1>18, LiveTrans DEF Took, Answered
  <1>20. Outcome(x, m, y)
    <2>1. /\ y.stash \subseteq x.stash \cup {m}
          /\ x.connected /\ ~y.connected => y.stash \subseteq {m}
      BY <1>15, <1>18 DEF Took, Answered
    <2> QED BY <1>15, <1>18, <1>19, <1>e, <2>1 DEF Took, Answered, Outcome, Live, StaysLive
  <1> QED BY <1>4, <1>15, <1>20, <1>d, TookOutcome

\* A call that only sends, then a handler.
LEMMA CalmOutcome ==
  ASSUME NEW x \in State, NEW m, NEW y, NEW z, Calm(x, y), Outcome(y, m, z)
  PROVE  Outcome(x, m, z)
  <1>1. y \in State /\ z \in State /\ y.cfg = x.cfg /\ y.phase = x.phase /\ y.stash \subseteq x.stash
    BY DEF Calm, Queue, Outcome
  <1>2. (Unique(x) => Unique(y)) /\ (Ahead(x) => Ahead(y)) BY CalmAhead
  <1>3. x.next_target \in Nat /\ y.next_target \in Nat /\ z.next_target \in Nat BY <1>1, TargetFacts
  <1>4. StaysLive(x, z) BY <1>3 DEF Calm, Live, Outcome, StaysLive
  <1>5. x.connected /\ ~y.connected => y.stash = {} BY DEF Calm, Queue
  <1>6. /\ z.stash \subseteq x.stash \cup {m}
        /\ x.connected /\ ~z.connected => z.stash \subseteq {m}
    BY <1>1, <1>5 DEF Outcome
  <1>7. z.flow = "Disconnect" => Emptied(x, z) BY <1>1, <1>5 DEF Outcome, Emptied
  <1> QED BY <1>1, <1>2, <1>4, <1>6, <1>7 DEF Outcome

\* Session::handle_logon.
LEMMA HandleLogonOutcome ==
  ASSUME NEW x \in State, x.phase # "resend", x.cfg \in Configs, NEW m \in Inbound,
         m.type = "Logon", NEW o \in Oracle
  PROVE  Outcome(x, m, HandleLogon(x, m, o))
  <1> DEFINE r == LogonResets(x, m)
             v == Verify(r, m, o, FALSE, TRUE)
             a == [v EXCEPT !.received_logon = TRUE]
  <1>0. m \in Msg BY InboundAssumption
  <1>1. Calm(x, r) BY LogonResetsCalm
  <1>2. \/ HandleLogon(x, m, o) = Return(x, "Disconnect")
        \/ HandleLogon(x, m, o) = Return(r, "Disconnect")
        \/ HandleLogon(x, m, o) = v
        \/ v.flow = "Continue" /\ HandleLogon(x, m, o) = Return(InitiateLogout(a), "Disconnect")
        \/ v.flow = "Continue" /\ HandleLogon(x, m, o) = AcceptLogon(a, m)
    BY DEF HandleLogon
  <1> HIDE DEF r
  <1>3. r \in State /\ r.phase = x.phase BY <1>1 DEF Calm, Queue
  <1>4. Verified(r, m, v) BY <1>0, <1>3, VerifyVerified
  <1> HIDE DEF v
  <1>5. v \in State BY <1>4 DEF Verified, Took
  <1>6. a \in State BY <1>5 DEF State
  <1>7. Calm(v, a) BY <1>5, <1>6, SameCalm DEF State
  <1> HIDE DEF a
  <1>8. Outcome(x, m, Return(x, "Disconnect")) /\ Outcome(x, m, Return(r, "Disconnect"))
    BY <1>1, CalmRefl, CalmReturn, CalmIsBump, BumpOutcome, FieldFacts
  <1>9. Outcome(x, m, v) BY <1>1, <1>3, <1>4, VerifiedOutcome, CalmOutcome
  <1>10. ASSUME v.flow = "Continue"
         PROVE  Outcome(x, m, Return(InitiateLogout(a), "Disconnect")) /\ Outcome(x, m, AcceptLogon(a, m))
    <2>1. Calm(x, a) BY <1>1, <1>3, <1>4, <1>7, <1>10, CalmTrans DEF Verified
    <2>2. Calm(x, InitiateLogout(a)) BY <1>6, <2>1, InitiateLogoutCalm, CalmTrans
    <2>3. Outcome(x, m, Return(InitiateLogout(a), "Disconnect"))
      BY <2>2, CalmReturn, CalmIsBump, BumpOutcome, FieldFacts
    <2>4. a.phase # "resend" /\ a.flow = "Continue" BY <1>5, <1>10, <2>1 DEF Calm, Queue, State, a
    <2>5. Outcome(a, m, AcceptLogon(a, m)) BY <1>0, <1>6, <2>4, AcceptLogonOutcome
    <2> QED BY <2>1, <2>3, <2>5, CalmOutcome
  <1> QED BY <1>2, <1>8, <1>9, <1>10

\* Session::process.
LEMMA ProcessOutcome ==
  ASSUME NEW x \in State, x.phase # "resend", x.cfg \in Configs, NEW m \in Inbound, NEW o \in Oracle
  PROVE  Outcome(x, m, Process(x, m, o))
  <1>0. m \in Msg BY InboundAssumption
  <1>1. Outcome(x, m, x) BY CalmRefl, CalmIsBump, BumpOutcome
  <1>2. Outcome(x, m, Return(InitiateLogout(IncrTarget(x)), "Disconnect"))
    <2>1. IncrTarget(x) \in State /\ Bump(x, IncrTarget(x)) BY IncrTargetType, IncrTargetBump
    <2>2. Bump(x, InitiateLogout(IncrTarget(x))) BY <2>1, InitiateLogoutCalm, BumpCalm
    <2> QED BY <2>2, BumpReturn, BumpOutcome, FieldFacts
  <1>3. Outcome(x, m, SendReject(x, m)) BY SendRejectBump, BumpOutcome
  <1>4. m.type = "Logon" => Outcome(x, m, HandleLogon(x, m, o)) BY HandleLogonOutcome
  <1>5. Outcome(x, m, HandleTestRequest(x, m, o)) BY <1>0, HandleTestRequestOutcome
  <1>6. Outcome(x, m, HandleResendRequest(x, m, o)) BY <1>0, HandleResendRequestOutcome
  <1>7. Outcome(x, m, HandleSequenceReset(x, m, o)) BY <1>0, HandleSequenceResetOutcome
  <1>8. Outcome(x, m, HandleLogout(x, m, o)) BY <1>0, HandleLogoutOutcome
  <1>9. Outcome(x, m, HandlePlain(x, m, o)) BY <1>0, HandlePlainOutcome
  <1> QED BY <1>1, <1>2, <1>3, <1>4, <1>5, <1>6, <1>7, <1>8, <1>9 DEF Process

--------------------------------------------------------------------------------
(***************************************************************************)
(* The invariant, in the four parts that hold under weaker and weaker      *)
(* assumptions about the operator, the write side and the resets.          *)
(***************************************************************************)
\* The stash is a map of messages that arrived.
Stocked(x) == x \in State /\ x.cfg \in Configs /\ Unique(x) /\ x.stash \subseteq Inbound

\* A session that lost its connection inside handle_logon may keep the Logon.
Lone(x) == ~x.connected => \A m1, m2 \in x.stash : m1 = m2

\* The number at the head of the stash is expected only while drain_stash is
\* still to run; a ResendRequest being answered will consume a number yet.
Aligned(x) ==
    /\ AtOrAhead(x)
    /\ x.phase \in {"idle", "stopped"} => Ahead(x)
    /\ x.phase = "resend" /\ x.replay.request # 0 => Ahead(x)
    /\ Lone(x)

\* A connection is lost between events only, and then nothing of it is left.
Steady(x) ==
    /\ x.writer # "dead"
    /\ x.phase \in {"resend", "drain"} => x.connected
    /\ ~x.connected => Clean(x)

Justified(x) == Asked(x) /\ (x.phase = "idle" => Waiting(x))

\* A step keeps each part; the range is only trusted on a live connection.
Keeps(x, y) ==
    /\ Stocked(y)
    /\ Aligned(x) => Aligned(y)
    /\ Steady(x) => Steady(y) /\ (NoResets /\ Justified(x) => Justified(y))

\* Two records that differ in nothing the invariant reads but the phase.
Alike(x, y) ==
    /\ y.cfg = x.cfg /\ y.stash = x.stash /\ y.next_target = x.next_target
    /\ y.resend_range = x.resend_range /\ y.connected = x.connected /\ y.writer = x.writer

LEMMA KeepsRefl == ASSUME NEW x, Stocked(x) PROVE Keeps(x, x)
  BY DEF Keeps

\* The connection is gone and nothing is stashed.
LEMMA DroppedKeeps ==
  ASSUME NEW x, Stocked(x), NEW y \in State, y.cfg = x.cfg, y.stash = {},
         y.phase \in {"idle", "stopped"},
         Steady(x) => y.writer # "dead" /\ ~y.connected /\ Clean(y)
  PROVE  Keeps(x, y)
  <1>1. Stocked(y) BY DEF Stocked, Unique
  <1>2. Aligned(y) BY DEF Aligned, AtOrAhead, Ahead, Lone
  <1>3. Clean(y) => Justified(y) BY DEF Clean, Justified, Asked, Waiting
  <1> QED BY <1>1, <1>2, <1>3 DEF Keeps, Steady

\* A call that only sends, when the task is idle.
LEMMA CalmKeeps ==
  ASSUME NEW x, Stocked(x), x.phase = "idle", NEW y, Calm(x, y),
         Steady(x) /\ ~x.connected => Clean(y),
         Steady(x) => y.next_target = x.next_target /\ y.resend_range = x.resend_range
  PROVE  Keeps(x, y)
  <1>0. x \in State BY DEF Stocked
  <1>1. /\ y \in State /\ y.cfg = x.cfg /\ y.phase = "idle" /\ y.stash \subseteq x.stash
        /\ x.connected /\ ~y.connected => y.stash = {}
    BY DEF Calm, Queue
  <1>2. /\ Unique(x) => Unique(y)
        /\ Ahead(x) => Ahead(y)
        /\ AtOrAhead(x) => AtOrAhead(y)
    BY <1>0, CalmAhead
  <1>3. Stocked(y) BY <1>1, <1>2 DEF Stocked
  <1>4. Aligned(x) => Aligned(y) BY <1>1, <1>2 DEF Aligned, Lone
  <1>5. Steady(x) => Steady(y) BY <1>1 DEF Steady, Calm, Live
  <1>6. Steady(x) /\ Justified(x) => Justified(y) BY <1>1 DEF Justified, Asked, Waiting
  <1> QED BY <1>3, <1>4, <1>5, <1>6 DEF Keeps

\* What a handler leaves when it does not ask for a disconnect.  Before it the
\* stash q is ahead of the number, and empty if there is no connection.
LEMMA OutcomeKeeps ==
  ASSUME NEW x, Stocked(x), NEW q, Alike(x, [q EXCEPT !.stash = x.stash]), q \in State,
         q.stash \subseteq x.stash, NEW m \in Inbound, NEW r, Outcome(q, m, r), r.flow # "Disconnect",
         Aligned(x) => Ahead(q) /\ (~q.connected => q.stash = {}), Steady(x) => x.connected,
         NEW z \in State, Alike(r, z), z.phase \in {"resend", "drain"},
         z.phase = "resend" => r.phase = "resend" /\ z.replay = r.replay
  PROVE  Keeps(x, z)
  <1>1. /\ q.cfg = x.cfg /\ q.next_target = x.next_target /\ q.resend_range = x.resend_range
        /\ q.connected = x.connected /\ q.writer = x.writer
    BY DEF Alike, State
  <1>2. /\ z.cfg = q.cfg /\ z.stash \subseteq q.stash \cup {m}
        /\ q.connected /\ ~z.connected => z.stash \subseteq {m}
    BY DEF Outcome, Alike
  <1>3. Stocked(z)
    <2>1. Unique(q) BY DEF Stocked, Unique
    <2>2. Unique(z) BY <2>1 DEF Outcome, Alike, Unique
    <2> QED BY <1>1, <1>2, <2>2 DEF Stocked
  <1>4. Aligned(x) => Aligned(z)
    <2>1. Ahead(q) => AtOrAhead(z) /\ (z.phase = "resend" /\ z.replay.request # 0 => Ahead(z))
      BY DEF Outcome, Alike, Ahead, AtOrAhead
    <2>2. Aligned(x) => Lone(z) BY <1>2 DEF Lone
    <2> QED BY <2>1, <2>2 DEF Aligned
  <1>5. ASSUME Steady(x) PROVE Steady(z) /\ (NoResets /\ Justified(x) => Justified(z))
    <2>1. q.writer # "dead" /\ q.connected BY <1>1, <1>5 DEF Steady
    <2>2. r.writer # "dead" /\ r.connected /\ (NoResets /\ Asked(q) => Asked(r))
      BY <2>1 DEF Outcome, StaysLive
    <2>3. Asked(x) => Asked(q) BY <1>1 DEF Asked
    <2>4. Asked(r) => Asked(z) BY DEF Asked, Alike
    <2> QED BY <2>2, <2>3, <2>4 DEF Steady, Justified, Alike
  <1> QED BY <1>3, <1>4, <1>5 DEF Keeps

\* A handler's Err(Disconnect).
LEMMA AbortKeeps ==
  ASSUME NEW x, Stocked(x), NEW q, Alike(x, [q EXCEPT !.stash = x.stash]), q \in State,
         q.stash \subseteq x.stash, NEW m \in Inbound, NEW r, Outcome(q, m, r), r.flow = "Disconnect",
         Aligned(x) => Ahead(q) /\ (~q.connected => q.stash = {}), Steady(x) => x.connected
  PROVE  Keeps(x, Abort(r))
  <1> DEFINE d == Disconnect(r)
             y == [d EXCEPT !.flow = "Continue", !.phase = "idle", !.replay = NoReplay]
  <1>0. r \in State /\ Abort(r) = y BY DEF Outcome, Abort
  <1>1. /\ q.cfg = x.cfg /\ q.connected = x.connected /\ q.writer = x.writer
    BY DEF Alike, State
  <1>2. /\ Queue(r, d, 0) /\ ~d.connected /\ (r.writer # "dead" => d.writer # "dead")
        /\ r.connected => Clean(d)
    BY <1>0, DisconnectQueue
  <1> HIDE DEF d
  <1>3. d \in State /\ d.cfg = r.cfg /\ d.stash \subseteq r.stash BY <1>2 DEF Queue
  <1>4. y \in State BY <1>3, FieldFacts DEF State
  <1>5. /\ y.cfg = d.cfg /\ y.stash = d.stash /\ y.next_target = d.next_target
        /\ y.connected = d.connected /\ y.writer = d.writer
        /\ y.phase = "idle" /\ (Clean(d) => Clean(y))
    BY <1>3 DEF State, Clean
  <1> HIDE DEF y
  <1>6. Aligned(x) => y.stash = {}
    <2>1. r.connected => d.stash = {} BY <1>2 DEF Clean
    <2>2. r.stash \subseteq q.stash /\ (q.connected /\ ~r.connected => r.stash = {})
      BY DEF Outcome, Emptied
    <2> QED BY <1>3, <1>5, <2>1, <2>2
  <1>7. Stocked(y)
    <2>1. Unique(q) BY DEF Stocked, Unique
    <2>2. Unique(y) BY <1>3, <1>5, <2>1 DEF Outcome, Unique
    <2>3. y.stash \subseteq Inbound BY <1>3, <1>5 DEF Stocked, Outcome, Emptied
    <2> QED BY <1>1, <1>3, <1>4, <1>5, <2>2, <2>3 DEF Stocked, Outcome
  <1>8. Aligned(x) => Aligned(y) BY <1>5, <1>6 DEF Aligned, AtOrAhead, Ahead, Lone
  <1>9. Steady(x) => Steady(y) /\ Justified(y)
    <2>1. Steady(x) => r.writer # "dead" /\ r.connected BY <1>1 DEF Steady, Outcome, StaysLive
    <2>2. Clean(y) => Justified(y) BY DEF Clean, Justified, Asked, Waiting
    <2> QED BY <1>2, <1>5, <2>1, <2>2 DEF Steady
  <1> QED BY <1>0, <1>7, <1>8, <1>9 DEF Keeps

--------------------------------------------------------------------------------
(***************************************************************************)
(* The events of the run loop.                                             *)
(***************************************************************************)
\* Session::disconnect of a live connection, after a last message; the phase
\* afterwards is the caller's.
LEMMA DisconnectKeeps ==
  ASSUME NEW x, Stocked(x), x.connected, NEW w, Calm(x, w),
         NEW y \in State, Alike(Disconnect(w), y), y.phase \in {"idle", "stopped"},
         Clean(Disconnect(w)) => Clean(y)
  PROVE  Keeps(x, y)
  <1> DEFINE d == Disconnect(w)
  <1>1. /\ w \in State /\ w.cfg = x.cfg
        /\ ~w.connected => w.stash = {}
    BY DEF Calm, Queue
  <1>2. /\ Queue(w, d, 0) /\ ~d.connected /\ (w.writer # "dead" => d.writer # "dead")
        /\ w.connected => Clean(d)
    BY <1>1, DisconnectQueue
  <1> HIDE DEF d
  <1>3. d.cfg = w.cfg /\ d.stash \subseteq w.stash BY <1>2 DEF Queue
  <1>4. d.stash = {} BY <1>1, <1>2, <1>3 DEF Clean
  <1>5. Steady(x) => w.connected /\ w.writer # "dead" BY DEF Steady, Calm, Live
  <1> QED BY <1>1, <1>2, <1>3, <1>4, <1>5, DroppedKeeps DEF Alike, d

\* Nothing changes but what the invariant does not read.
LEMMA AlikeKeeps ==
  ASSUME NEW x, Stocked(x), x.phase = "idle", NEW y \in State, Alike(x, y),
         y.phase \in {"idle", "stopped"}, Clean(x) => Clean(y)
  PROVE  Keeps(x, y)
  <1>1. Stocked(y) BY DEF Stocked, Alike, Unique
  <1>2. Aligned(x) => Aligned(y) BY DEF Alike, Aligned, Ahead, AtOrAhead, Lone
  <1>3. Steady(x) => Steady(y) BY DEF Alike, Steady
  <1>4. Justified(x) => Justified(y) BY DEF Alike, Justified, Asked, Waiting
  <1> QED BY <1>1, <1>2, <1>3, <1>4 DEF Keeps

\* Session::disconnect, or nothing when there is no connection, and the task
\* goes on or ends.
LEMMA DropKeeps ==
  ASSUME NEW x, Stocked(x), x.phase = "idle"
  PROVE  /\ Keeps(x, Disconnect(x))
         /\ Keeps(x, [Disconnect(x) EXCEPT !.phase = "stopped", !.out = <<>>])
  <1> DEFINE d == Disconnect(x)
             y == [d EXCEPT !.phase = "stopped", !.out = <<>>]
  <1>0. x \in State BY DEF Stocked
  <1>1. d \in State /\ d.phase = "idle" BY <1>0, DisconnectQueue DEF Queue
  <1>2. Calm(x, x) BY <1>0, CalmRefl
  <1>3. ~x.connected => d = x BY DEF Disconnect
  <1>4. Alike(d, d) BY DEF Alike
  <1>5. x.connected => Keeps(x, d) BY <1>1, <1>2, <1>4, DisconnectKeeps
  <1>6. <<>> \in Seq(Msg) OBVIOUS
  <1> HIDE DEF d
  <1>7. y \in State BY <1>1, <1>6, FieldFacts DEF State
  <1>8. Alike(d, y) /\ y.phase = "stopped" /\ (Clean(d) => Clean(y)) BY <1>1 DEF State, Alike, Clean
  <1> HIDE DEF y
  <1>9. x.connected => Keeps(x, y) BY <1>1, <1>2, <1>7, <1>8, DisconnectKeeps DEF d
  <1>10. ~x.connected => Keeps(x, y) BY <1>3, <1>7, <1>8, AlikeKeeps
  <1>11. ~x.connected => Keeps(x, d) BY <1>3, KeepsRefl
  <1> QED BY <1>5, <1>9, <1>10, <1>11 DEF d, y

\* The frames of an event are forgotten.
LEMMA SettleKeeps == ASSUME NEW x, NEW y, Keeps(x, y) PROVE Keeps(x, Settle(y))
  <1> DEFINE z == [y EXCEPT !.out = <<>>]
  <1>1. y \in State BY DEF Keeps, Stocked
  <1>2. <<>> \in Seq(Msg) OBVIOUS
  <1>3. z \in State BY <1>1, <1>2 DEF State
  <1>4. Alike(y, z) /\ z.phase = y.phase /\ z.replay = y.replay /\ (Clean(y) => Clean(z))
    BY <1>1 DEF State, Alike, Clean
  <1>5. Settle(y) \in {y, z} BY DEF Settle
  <1> HIDE DEF z
  <1>6. Stocked(y) => Stocked(z) BY <1>3, <1>4 DEF Stocked, Alike, Unique
  <1>7. Aligned(y) => Aligned(z) BY <1>4 DEF Alike, Aligned, Ahead, AtOrAhead, Lone
  <1>8. Steady(y) => Steady(z) BY <1>4 DEF Alike, Steady
  <1>9. Justified(y) => Justified(z) BY <1>4 DEF Alike, Justified, Asked, Waiting
  <1>10. Keeps(x, z) BY <1>6, <1>7, <1>8, <1>9 DEF Keeps
  <1> QED BY <1>5, <1>10

\* Session::on_inbound.
LEMMA OnInboundKeeps ==
  ASSUME NEW x, Stocked(x), x.phase = "idle", x.connected, NEW m \in Inbound, NEW o \in Oracle
  PROVE  Keeps(x, OnInbound(x, m, o))
  <1> DEFINE r == Process(x, m, o)
             a == [r EXCEPT !.flow = "Continue"]
             b == EnterDrain(r)
  <1>0. x \in State /\ x.cfg \in Configs BY DEF Stocked
  <1>1. Outcome(x, m, r) BY <1>0, ProcessOutcome
  <1>2. \/ OnInbound(x, m, o) \in {x, Disconnect(x)}
        \/ r.flow = "Disconnect" /\ OnInbound(x, m, o) = Abort(r)
        \/ r.flow # "Disconnect" /\ r.phase = "resend" /\ OnInbound(x, m, o) = a
        \/ r.flow # "Disconnect" /\ OnInbound(x, m, o) = b
    BY DEF OnInbound
  <1> HIDE DEF r
  <1>3. r \in State BY <1>1 DEF Outcome
  <1>4. Alike(x, [x EXCEPT !.stash = x.stash]) BY <1>0 DEF State, Alike
  <1>5. Aligned(x) => Ahead(x) /\ (~x.connected => x.stash = {}) BY DEF Aligned
  <1>6. r.flow = "Disconnect" => Keeps(x, Abort(r)) BY <1>0, <1>1, <1>4, <1>5, AbortKeeps
  <1>7. a \in State /\ Alike(r, a) /\ a.phase = r.phase /\ a.replay = r.replay
    BY <1>3, FieldFacts DEF State, Alike
  <1>8. b \in State BY <1>3, EnterDrainType
  <1>9. Alike(r, b) /\ b.phase = "drain" BY <1>3 DEF State, Alike, EnterDrain
  <1> HIDE DEF a, b
  <1>10. r.flow # "Disconnect" /\ r.phase = "resend" => Keeps(x, a)
    BY <1>0, <1>1, <1>4, <1>5, <1>7, OutcomeKeeps
  <1>11. r.flow # "Disconnect" => Keeps(x, b)
    BY <1>0, <1>1, <1>4, <1>5, <1>8, <1>9, OutcomeKeeps
  <1> QED BY <1>2, <1>6, <1>10, <1>11, KeepsRefl, DropKeeps

\* One iteration of drain_stash: what is left is strictly ahead of the number
\* of the message taken out.
LEMMA DrainStepKeeps ==
  ASSUME NEW x, Stocked(x), x.phase = "drain", NEW m \in InStash(x), NEW o \in Oracle
  PROVE  Keeps(x, DrainStep(x, m, o))
  <1> DEFINE q == [x EXCEPT !.stash = @ \ {m}, !.last_processed_was_queued = TRUE]
             r == Process(q, m, o)
             b == Return(r, "Continue")
             i == IncrTarget(q)
  <1>0. x \in State /\ x.cfg \in Configs BY DEF Stocked
  <1>1. m \in x.stash /\ m.seq = x.next_target /\ m \in Inbound BY DEF InStash, Stocked
  <1>2. DrainStep(x, m, o) = IF OnlyAdvances(m) THEN i
                             ELSE IF r.flow = "Disconnect" THEN Abort(r) ELSE b
    BY DEF DrainStep
  <1>3. x.stash \ {m} \in SUBSET Msg BY <1>0 DEF State
  <1>4. q \in State BY <1>0, <1>3 DEF State
  <1>5. /\ q.stash = x.stash \ {m} /\ q.phase = "drain" /\ q.flow = x.flow
        /\ Alike(x, [q EXCEPT !.stash = x.stash]) /\ q.cfg = x.cfg
        /\ q.next_target = x.next_target /\ q.connected = x.connected
    BY <1>0 DEF State, Alike
  <1> HIDE DEF q
  <1>6. Aligned(x) => Ahead(q) /\ (~q.connected => q.stash = {})
    <2>1. \A k \in x.stash : k.seq \in Nat BY <1>0 DEF State, Msg
    <2>2. x.next_target \in Nat BY <1>0, TargetFacts
    <2>3. \A n \in Nat : n >= x.next_target /\ n # x.next_target => n > x.next_target BY <2>2
    <2>4. \A k \in q.stash : k.seq # x.next_target BY <1>1, <1>5 DEF Stocked, Unique
    <2>5. Aligned(x) => Ahead(q) BY <1>5, <2>1, <2>3, <2>4 DEF Aligned, AtOrAhead, Ahead
    <2>6. Aligned(x) => (~q.connected => q.stash = {}) BY <1>1, <1>5 DEF Aligned, Lone
    <2> QED BY <2>5, <2>6
  <1>7. Steady(x) => x.connected BY DEF Steady
  <1>8. q.stash \subseteq x.stash BY <1>5
  <1>9. Outcome(q, m, r) BY <1>0, <1>1, <1>4, <1>5, ProcessOutcome
  <1> HIDE DEF r
  <1>10. r \in State /\ r.phase \in {"drain", "resend"} BY <1>5, <1>9 DEF Outcome
  <1>11. r.flow = "Disconnect" => Keeps(x, Abort(r))
    BY <1>1, <1>4, <1>5, <1>6, <1>7, <1>8, <1>9, AbortKeeps
  <1>12. b \in State /\ Alike(r, b) /\ b.phase = r.phase /\ b.replay = r.replay
    BY <1>10, FieldFacts DEF State, Alike, Return
  <1> HIDE DEF b
  <1>13. r.flow # "Disconnect" => Keeps(x, b)
    BY <1>1, <1>4, <1>5, <1>6, <1>7, <1>8, <1>9, <1>10, <1>12, OutcomeKeeps
  <1>14. Keeps(x, i)
    <2>1. Bump(q, i) /\ i \in State BY <1>4, IncrTargetBump, IncrTargetType
    <2>2. i.phase = "drain" BY <1>5, <2>1 DEF Bump, Queue
    <2> HIDE DEF i
    <2> DEFINE j == Return(i, "Continue")
    <2>3. Bump(q, j) /\ j.flow = "Continue" BY <1>4, <2>1, BumpReturn, FieldFacts
    <2>4. Alike(j, i) BY <2>1 DEF Return, State, Alike
    <2> HIDE DEF j
    <2>5. Outcome(q, m, j) BY <1>4, <1>5, <2>3, BumpOutcome
    <2> QED BY <1>1, <1>4, <1>5, <1>6, <1>7, <1>8, <2>1, <2>2, <2>3, <2>4, <2>5, OutcomeKeeps
  <1> QED BY <1>2, <1>11, <1>13, <1>14

\* What the retransmit loop does: it moves its cursor and sends.
Moved(x, y) ==
    /\ y \in State
    /\ y.cfg = x.cfg /\ y.phase = x.phase /\ y.replay.request = x.replay.request
    /\ y.next_target <= x.next_target
    /\ Emptied(x, y)
    /\ Live(x, y)

LEMMA CalmMoved == ASSUME NEW x \in State, NEW y, Calm(x, y) PROVE Moved(x, y)
  <1>1. y \in State /\ y.next_target <= x.next_target + 0 BY DEF Calm, Queue
  <1>2. x.next_target \in Nat /\ y.next_target \in Nat BY <1>1, TargetFacts
  <1>3. y.next_target <= x.next_target BY <1>1, <1>2
  <1> QED BY <1>3 DEF Calm, Queue, Moved, Emptied

LEMMA MovedTrans ==
  ASSUME NEW x \in State, NEW y, NEW z, Moved(x, y), Moved(y, z) PROVE Moved(x, z)
  <1>1. y \in State /\ z \in State BY DEF Moved
  <1>2. x.next_target \in Nat /\ y.next_target \in Nat /\ z.next_target \in Nat BY <1>1, TargetFacts
  <1>3. z.next_target <= x.next_target BY <1>2 DEF Moved
  <1>4. Live(x, z) BY <1>1, LiveTrans DEF Moved
  <1> QED BY <1>3, <1>4 DEF Moved, Emptied

\* Moving the cursor alone.
LEMMA CursorMoved ==
  ASSUME NEW x \in State, NEW p \in Replay, p.request = x.replay.request
  PROVE  Moved(x, [x EXCEPT !.replay = p])
  <1> DEFINE y == [x EXCEPT !.replay = p]
  <1>1. y \in State BY DEF State
  <1>2. Alike(x, y) /\ y.phase = x.phase /\ y.replay = p BY DEF State, Alike
  <1> HIDE DEF y
  <1>3. x.next_target \in Nat BY TargetFacts
  <1>4. Live(x, y) BY <1>2, <1>3 DEF Live, Alike, Asked
  <1> QED BY <1>1, <1>2, <1>3, <1>4 DEF Moved, Alike, Emptied, y

LEMMA MovedKeeps ==
  ASSUME NEW x, Stocked(x), x.phase = "resend", NEW y, Moved(x, y) PROVE Keeps(x, y)
  <1>1. x \in State /\ y \in State BY DEF Stocked, Moved
  <1>2. x.next_target \in Nat /\ y.next_target \in Nat BY <1>1, TargetFacts
  <1>3. \A k \in y.stash : k \in x.stash /\ k.seq \in Nat BY <1>1 DEF Moved, Emptied, State, Msg
  <1>4. \A k \in Nat : /\ k > x.next_target => k > y.next_target
                       /\ k >= x.next_target => k >= y.next_target
    BY <1>2 DEF Moved
  <1>5. (Ahead(x) => Ahead(y)) /\ (AtOrAhead(x) => AtOrAhead(y)) BY <1>3, <1>4 DEF Ahead, AtOrAhead
  <1>6. Stocked(y) BY <1>1, <1>3 DEF Stocked, Unique, Moved
  <1>7. Aligned(x) => Aligned(y) BY <1>5 DEF Aligned, Moved, Lone, Emptied
  <1>8. Steady(x) => Steady(y) /\ (NoResets /\ Justified(x) => Justified(y))
    BY DEF Steady, Moved, Live, Justified
  <1> QED BY <1>6, <1>7, <1>8 DEF Keeps

\* One iteration of Session::retransmit.
LEMMA RetransmitStepKeeps ==
  ASSUME NEW x, Stocked(x), x.phase = "resend", NEW veto \in BOOLEAN
  PROVE  Keeps(x, RetransmitStep(x, veto))
  <1> DEFINE p == x.replay
             found == {y \in x.saved : y.seq = p.seq}
             next == [x EXCEPT !.replay.seq = p.seq + 1]
             y == CHOOSE y \in found : TRUE
             frame == [WithType(y.type) EXCEPT !.seq = y.seq, !.poss_dup = TRUE,
                                               !.payload = y.payload]
             filled == IF p.gap_begin = 0 THEN next ELSE SendGapFill(next, p.gap_begin, p.seq)
             grown == [next EXCEPT !.replay.gap_begin = IF p.gap_begin = 0 THEN p.seq ELSE @]
             flushed == [filled EXCEPT !.replay.gap_begin = 0]
  <1>0. x \in State BY DEF Stocked
  <1>1. p \in Replay /\ p.seq \in Nat /\ p.gap_begin \in Nat BY <1>0 DEF State, Replay
  <1>2. Moved(x, next)
    <2> DEFINE p1 == [p EXCEPT !.seq = p.seq + 1]
    <2>1. p1 \in Replay /\ p1.request = p.request BY <1>1 DEF Replay
    <2>2. next = [x EXCEPT !.replay = p1] OBVIOUS
    <2> HIDE DEF p1, next
    <2> QED BY <1>0, <2>1, <2>2, CursorMoved
  <1>3. RetransmitStep(x, veto) = IF found = {} \/ veto THEN grown ELSE Transmit(flushed, frame)
    BY DEF RetransmitStep
  <1> HIDE DEF next
  <1>4. next \in State BY <1>2 DEF Moved
  <1>5. Moved(x, grown)
    <2> DEFINE n == next.replay
               p2 == [n EXCEPT !.gap_begin = IF p.gap_begin = 0 THEN p.seq ELSE @]
    <2>1. n \in Replay BY <1>4 DEF State
    <2>2. p2 \in Replay /\ p2.request = n.request BY <1>1, <2>1 DEF Replay
    <2>3. grown = [next EXCEPT !.replay = p2] OBVIOUS
    <2> HIDE DEF p2, grown
    <2>4. Moved(next, grown) BY <1>4, <2>2, <2>3, CursorMoved
    <2> QED BY <1>0, <1>2, <2>4, MovedTrans
  <1>6. Moved(x, filled) BY <1>0, <1>1, <1>2, <1>4, SendGapFillCalm, CalmMoved, MovedTrans
  <1> HIDE DEF filled
  <1>7. filled \in State BY <1>6 DEF Moved
  <1>8. Moved(x, flushed)
    <2> DEFINE n == filled.replay
               p3 == [n EXCEPT !.gap_begin = 0]
    <2>1. n \in Replay BY <1>7 DEF State
    <2>2. p3 \in Replay /\ p3.request = n.request BY <2>1 DEF Replay
    <2>3. flushed = [filled EXCEPT !.replay = p3] OBVIOUS
    <2> HIDE DEF p3, flushed
    <2>4. Moved(filled, flushed) BY <1>7, <2>2, <2>3, CursorMoved
    <2> QED BY <1>0, <1>6, <2>4, MovedTrans
  <1> HIDE DEF grown, flushed
  <1>9. ASSUME found # {} PROVE frame \in Msg
    <2>1. y \in found BY <1>9
    <2>2. y \in Saved BY <1>0, <2>1 DEF State
    <2> HIDE DEF y
    <2>3. WithType(y.type) \in Msg BY <2>2, WithTypeType, TypeNames DEF Saved
    <2>4. y.seq \in Nat /\ y.payload \in Payload BY <2>2, SeqNumFacts DEF Saved
    <2> QED BY <2>3, <2>4 DEF Msg
  <1> HIDE DEF frame, found
  <1>10. flushed \in State BY <1>8 DEF Moved
  <1>11. found # {} => Moved(x, Transmit(flushed, frame))
    BY <1>0, <1>8, <1>9, <1>10, TransmitCalm, CalmMoved, MovedTrans
  <1>12. Moved(x, RetransmitStep(x, veto)) BY <1>3, <1>5, <1>11
  <1> QED BY <1>12, MovedKeeps

\* The end of Session::retransmit: the number of the request is consumed now.
LEMMA RetransmitEndKeeps ==
  ASSUME NEW x, Stocked(x), x.phase = "resend" PROVE Keeps(x, RetransmitEnd(x))
  <1> DEFINE p == x.replay
             r == IF p.gap_begin = 0 THEN x ELSE SendGapFill(x, p.gap_begin, p.end + 1)
             c == ConsumeRequest(r, p.request)
             y == EnterDrain(c)
  <1>0. x \in State BY DEF Stocked
  <1>1. p.gap_begin \in Nat /\ p.end + 1 \in Nat BY <1>0 DEF State, Replay
  <1>2. Calm(x, r) BY <1>0, <1>1, SendGapFillCalm, CalmRefl
  <1>3. RetransmitEnd(x) = y BY DEF RetransmitEnd
  <1> HIDE DEF r
  <1>4. r \in State BY <1>2 DEF Calm, Queue
  <1>5. Bump(x, c) /\ (p.request = 0 => Calm(x, c))
    BY <1>0, <1>2, <1>4, ConsumeRequestBump, CalmBump, CalmTrans
  <1> HIDE DEF c
  <1>6. /\ c \in State /\ c.cfg = x.cfg /\ c.stash \subseteq x.stash
        /\ x.connected /\ ~c.connected => c.stash = {}
    BY <1>5 DEF Bump, Queue
  <1>7. y \in State BY <1>6, EnterDrainType
  <1>8. Alike(c, y) /\ y.phase = "drain" BY <1>6 DEF EnterDrain, State, Alike
  <1> HIDE DEF y
  <1>9. Took(x, 0, c) BY <1>0, <1>5, BumpTook
  <1>10. Stocked(y)
    <2>1. Unique(c) BY <1>9 DEF Took, Stocked
    <2> QED BY <1>6, <1>7, <1>8, <2>1 DEF Stocked, Alike, Unique
  <1>11. Aligned(x) => Aligned(y)
    <2>1. Aligned(x) => AtOrAhead(c)
      <3>1. CASE p.request = 0 BY <1>0, <1>5, <3>1, CalmAhead DEF Aligned
      <3>2. CASE p.request # 0 BY <1>9, <3>2 DEF Took, Aligned
      <3> QED BY <3>1, <3>2
    <2>2. AtOrAhead(c) => AtOrAhead(y) BY <1>8 DEF Alike, AtOrAhead
    <2>3. Aligned(x) => Lone(y) BY <1>6, <1>8 DEF Alike, Aligned, Lone
    <2> QED BY <1>8, <2>1, <2>2, <2>3 DEF Aligned
  <1>12. Steady(x) => Steady(y) /\ (NoResets /\ Justified(x) => Justified(y))
    <2>1. Live(x, c) BY <1>5 DEF Bump
    <2>2. Asked(c) => Asked(y) BY <1>8 DEF Alike, Asked
    <2> QED BY <1>8, <2>1, <2>2 DEF Steady, Live, Alike, Justified
  <1> QED BY <1>3, <1>10, <1>11, <1>12 DEF Keeps

\* The end of Session::drain_stash: nothing is left at the expected number.
LEMMA DrainEndKeeps ==
  ASSUME NEW x, Stocked(x), x.phase = "drain", InStash(x) = {} PROVE Keeps(x, DrainEnd(x))
  <1> DEFINE c == CheckResendChunks(x)
             y == [c EXCEPT !.phase = "idle"]
  <1>0. x \in State BY DEF Stocked
  <1>1. Calm(x, c) /\ (x.writer # "dead" => Waiting(c)) BY <1>0, CheckResendChunksCalm
  <1>2. DrainEnd(x) = y BY DEF DrainEnd
  <1> HIDE DEF c
  <1>3. /\ c \in State /\ c.cfg = x.cfg /\ c.stash \subseteq x.stash
        /\ x.connected /\ ~c.connected => c.stash = {}
    BY <1>1 DEF Calm, Queue
  <1>4. y \in State BY <1>3, FieldFacts DEF State
  <1>5. Alike(c, y) /\ y.phase = "idle" BY <1>3 DEF State, Alike
  <1> HIDE DEF y
  <1>6. (Unique(x) => Unique(c)) /\ (Ahead(x) => Ahead(c)) /\ (AtOrAhead(x) => AtOrAhead(c))
    BY <1>0, <1>1, CalmAhead
  <1>7. AtOrAhead(x) => Ahead(x)
    <2>1. \A k \in x.stash : k.seq \in Nat /\ k.seq # x.next_target BY <1>0 DEF State, Msg, InStash
    <2>2. x.next_target \in Nat BY <1>0, TargetFacts
    <2>3. \A n \in Nat : n >= x.next_target /\ n # x.next_target => n > x.next_target BY <2>2
    <2> QED BY <2>1, <2>3 DEF AtOrAhead, Ahead
  <1>8. Stocked(y) BY <1>3, <1>4, <1>5, <1>6 DEF Stocked, Alike, Unique
  <1>9. Aligned(x) => Aligned(y)
    BY <1>3, <1>5, <1>6, <1>7 DEF Aligned, Alike, Ahead, AtOrAhead, Lone
  <1>10. Steady(x) => Steady(y) /\ (NoResets /\ Justified(x) => Justified(y))
    BY <1>1, <1>5 DEF Calm, Live, Steady, Alike, Justified, Asked, Waiting
  <1> QED BY <1>2, <1>8, <1>9, <1>10 DEF Keeps

\* Command::Send: without a connection the message is only numbered.
LEMMA SendMessageKeeps ==
  ASSUME NEW x, Stocked(x), x.phase = "idle", NEW m \in Msg PROVE Keeps(x, SendMessage(x, m))
  <1>1. x \in State BY DEF Stocked
  <1>2. Steady(x) => Undisturbed(x, SendMessage(x, m)) BY <1>1, SendMessageCalm DEF Steady
  <1>3. Steady(x) /\ ~x.connected => Clean(SendMessage(x, m)) BY <1>1, SendMessageCalm DEF Steady
  <1> QED BY <1>1, <1>2, <1>3, SendMessageCalm, CalmKeeps DEF Undisturbed

\* Command::Logout, Command::Stop and the schedule log out a logged-on session.
LEMMA LogoutKeeps ==
  ASSUME NEW x, Stocked(x), x.phase = "idle", IsLoggedOn(x)
  PROVE  /\ Keeps(x, InitiateLogout(x))
         /\ Keeps(x, [InitiateLogout(x) EXCEPT !.stopping = TRUE])
  <1> DEFINE l == InitiateLogout(x)
             y == [l EXCEPT !.stopping = TRUE]
  <1>0. x \in State BY DEF Stocked
  <1>1. Calm(x, l) BY <1>0, InitiateLogoutCalm
  <1>2. Steady(x) => l.next_target = x.next_target /\ l.resend_range = x.resend_range
    BY <1>0, InitiateLogoutCalm DEF Steady
  <1>3. Steady(x) => x.connected BY DEF Steady, Clean, IsLoggedOn
  <1>4. Keeps(x, l) BY <1>1, <1>2, <1>3, CalmKeeps
  <1> HIDE DEF l
  <1>5. l \in State BY <1>1 DEF Calm, Queue
  <1>6. y \in State BY <1>5 DEF State
  <1>7. Calm(l, y) /\ y.next_target = l.next_target /\ y.resend_range = l.resend_range
    BY <1>5, <1>6, SameCalm DEF State
  <1> HIDE DEF y
  <1>8. Calm(x, y) BY <1>0, <1>1, <1>7, CalmTrans
  <1>9. Keeps(x, y) BY <1>2, <1>3, <1>7, <1>8, CalmKeeps
  <1> QED BY <1>4, <1>9 DEF l, y

\* Session::on_attach: a connection starts from a clean record.
LEMMA OnAttachKeeps ==
  ASSUME NEW x, Stocked(x), x.phase = "idle", ~x.connected, NEW open \in BOOLEAN
  PROVE  LET y == OnAttach(x, open)
         IN  /\ Keeps(x, y)
             /\ Steady(x) => ~y.sent_logout /\ ~y.received_logon /\ y.stash = {}
  <1> DEFINE a == [x EXCEPT !.connected = TRUE, !.test_request_counter = 0]
             r == IF x.cfg.reset_on_logon THEN StoreReset(a) ELSE a
             p == [r EXCEPT !.pending_logon = TRUE]
  <1>0. x \in State /\ x.cfg \in Configs BY DEF Stocked
  <1>1. a \in State BY <1>0 DEF State
  <1>2. OnAttach(x, open) \in {a, SendLogon(r), p} BY DEF OnAttach
  <1>3. /\ a.cfg = x.cfg /\ a.stash = x.stash /\ a.next_target = x.next_target /\ a.connected
        /\ a.writer = x.writer /\ a.resend_range = x.resend_range /\ a.phase = "idle"
        /\ a.replay = x.replay /\ a.received_logon = x.received_logon /\ a.sent_logout = x.sent_logout
    BY <1>0 DEF State
  <1>4. Queue(a, r, 0) /\ r.connected /\ r.writer = a.writer /\ r.resend_range = a.resend_range
    BY <1>1, <1>3, StoreResetQueue, CalmRefl DEF Calm
  <1>5. r.received_logon = a.received_logon /\ r.sent_logout = a.sent_logout
    BY <1>1 DEF StoreReset, State
  <1> HIDE DEF a
  <1> HIDE DEF r
  <1>6. r \in State BY <1>4 DEF Queue
  <1>7. p \in State BY <1>6 DEF State
  <1>8. Calm(r, p) /\ Undisturbed(r, p) BY <1>6, <1>7, SameCalm DEF State, Undisturbed
  <1> HIDE DEF p
  <1>9. ASSUME NEW y, Queue(a, y, 0), a.writer # "dead" => y.connected /\ y.writer # "dead",
               Steady(x) => /\ y.resend_range = a.resend_range
                            /\ y.received_logon = a.received_logon /\ y.sent_logout = a.sent_logout
        PROVE  /\ Keeps(x, y)
               /\ Steady(x) => ~y.sent_logout /\ ~y.received_logon /\ y.stash = {}
    <2>1. /\ y \in State /\ y.cfg = x.cfg /\ y.phase = "idle" /\ y.stash \subseteq x.stash
          /\ y.next_target <= x.next_target + 0
          /\ ~y.connected => y.stash = {}
      BY <1>3, <1>9 DEF Queue
    <2>2. x.next_target \in Nat /\ y.next_target \in Nat BY <1>0, <2>1, TargetFacts
    <2>3. \A k \in y.stash : k \in x.stash /\ k.seq \in Nat BY <1>0, <2>1 DEF State, Msg
    <2>4. \A k \in Nat : /\ k > x.next_target => k > y.next_target
                         /\ k >= x.next_target => k >= y.next_target
      BY <2>1, <2>2
    <2>5. (Ahead(x) => Ahead(y)) /\ (AtOrAhead(x) => AtOrAhead(y)) BY <2>3, <2>4 DEF Ahead, AtOrAhead
    <2>6. Stocked(y) BY <1>0, <2>1 DEF Stocked, Unique
    <2>7. Aligned(x) => Aligned(y) BY <2>1, <2>5 DEF Aligned, Lone
    <2>8. Steady(x) => Clean(x) BY DEF Steady
    <2>9. Steady(x) => y.resend_range = NoRange BY <1>3, <1>9, <2>8 DEF Clean
    <2>10. Steady(x) => Steady(y) /\ Justified(y)
      BY <1>3, <1>9, <2>1, <2>9 DEF Steady, Justified, Asked, Waiting
    <2> QED BY <1>3, <1>9, <2>1, <2>6, <2>7, <2>8, <2>10 DEF Keeps, Clean
  <1>10. Queue(a, a, 0) BY <1>1, CalmRefl DEF Calm
  <1>11. Calm(r, SendLogon(r)) /\ (r.writer # "dead" => Undisturbed(r, SendLogon(r)))
    BY <1>6, SendLogonCalm
  <1>12. ASSUME NEW y, Calm(r, y), r.writer # "dead" => Undisturbed(r, y)
         PROVE  /\ Keeps(x, y)
                /\ Steady(x) => ~y.sent_logout /\ ~y.received_logon /\ y.stash = {}
    <2>1. Queue(a, y, 0 + 0) BY <1>1, <1>4, <1>12, QueueTrans DEF Calm
    <2>2. a.writer # "dead" => y.connected /\ y.writer # "dead" BY <1>4, <1>12 DEF Calm, Live
    <2>3. Steady(x) => r.writer # "dead" BY <1>3, <1>4 DEF Steady
    <2> QED BY <1>4, <1>5, <1>9, <1>12, <2>1, <2>2, <2>3 DEF Undisturbed
  <1> QED BY <1>2, <1>3, <1>8, <1>9, <1>10, <1>11, <1>12

\* Session::on_protocol_deadline.
LEMMA OnProtocolDeadlineKeeps ==
  ASSUME NEW x, Stocked(x), x.phase = "idle", x.connected, NEW since_recv, NEW idle
  PROVE  Keeps(x, OnProtocolDeadline(x, since_recv, idle))
  <1> DEFINE t == [x EXCEPT !.test_request_counter = @ + 1]
             u == SendMessage(t, WithType("TestRequest"))
             l == InitiateLogout(x)
             d == Disconnect(l)
  <1>0. x \in State BY DEF Stocked
  <1>1. x.test_request_counter + 1 \in Nat BY <1>0 DEF State
  <1>2. t \in State BY <1>0, <1>1 DEF State
  <1>3. /\ Calm(x, t) /\ t.writer = x.writer
        /\ t.next_target = x.next_target /\ t.resend_range = x.resend_range
    BY <1>0, <1>2, SameCalm DEF State
  <1>4. OnProtocolDeadline(x, since_recv, idle) \in
           {Disconnect(x), d, u, SendMessage(x, WithType("Heartbeat")), x}
    BY DEF OnProtocolDeadline
  <1> HIDE DEF t
  <1>5. WithType("TestRequest") \in Msg /\ WithType("Heartbeat") \in Msg BY WithTypeType, TypeNames
  <1>6. Calm(t, u) /\ (t.writer # "dead" => Undisturbed(t, u)) BY <1>2, <1>5, SendMessageCalm
  <1> HIDE DEF u
  <1>7. Calm(x, u) BY <1>0, <1>3, <1>6, CalmTrans
  <1>8. Keeps(x, u) BY <1>3, <1>6, <1>7, CalmKeeps DEF Undisturbed, Steady
  <1>9. Keeps(x, d)
    <2>1. Calm(x, l) BY <1>0, InitiateLogoutCalm
    <2> HIDE DEF l
    <2>2. l \in State /\ l.phase = "idle" BY <2>1 DEF Calm, Queue
    <2>3. d \in State /\ d.phase = "idle" BY <2>2, DisconnectQueue DEF Queue
    <2>4. Alike(d, d) BY DEF Alike
    <2> QED BY <2>1, <2>3, <2>4, DisconnectKeeps
  <1> HIDE DEF d
  <1> QED BY <1>4, <1>5, <1>8, <1>9, KeepsRefl, DropKeeps, SendMessageKeeps

\* A store reset between connections.
LEMMA RestartKeeps ==
  ASSUME NEW x, Stocked(x), NEW y, Keeps(x, y), y.phase = "idle", Steady(x) => Clean(y)
  PROVE  Keeps(x, StoreReset(y))
  <1> DEFINE z == StoreReset(y)
  <1>0. y \in State BY DEF Keeps, Stocked
  <1>1. /\ Queue(y, z, 0) /\ z.connected = y.connected /\ z.writer = y.writer
        /\ z.resend_range = y.resend_range /\ z.stash = y.stash /\ z.next_target = 1
    BY <1>0, StoreResetQueue
  <1>2. z \in State /\ z.cfg = y.cfg /\ z.phase = "idle" BY <1>1 DEF Queue
  <1>3. Clean(y) => Clean(z) BY <1>0 DEF Clean, StoreReset, State
  <1> HIDE DEF z
  <1>4. Ahead(y) => Ahead(z) /\ AtOrAhead(z)
    <2>1. \A k \in y.stash : k.seq \in Nat BY <1>0 DEF State, Msg
    <2>2. y.next_target \in Nat /\ y.next_target # 0 BY <1>0, TargetFacts
    <2>3. \A k \in Nat : k > y.next_target => k > 1 /\ k >= 1 BY <2>2
    <2> QED BY <1>1, <2>1, <2>3 DEF Ahead, AtOrAhead
  <1>5. Stocked(z) BY <1>1, <1>2 DEF Keeps, Stocked, Unique
  <1>6. Aligned(x) => Aligned(z) BY <1>1, <1>2, <1>4 DEF Keeps, Aligned, Lone
  <1>7. Steady(x) => Steady(z) /\ Justified(z)
    BY <1>1, <1>2, <1>3 DEF Keeps, Steady, Justified, Asked, Waiting, Clean
  <1> QED BY <1>5, <1>6, <1>7 DEF Keeps, z

\* Session::on_schedule_tick.
LEMMA OnScheduleTickKeeps ==
  ASSUME NEW x, Stocked(x), x.phase = "idle", NEW in_range, NEW same_range, NEW open
  PROVE  Keeps(x, OnScheduleTick(x, in_range, same_range, open))
  <1> DEFINE l == InitiateLogout(x)
             y == IF x.connected /\ IsLoggedOn(x) /\ ~x.sent_logout /\ ~open THEN l ELSE x
             b == [y EXCEPT !.pending_logon = FALSE]
             d == LeaveSession(x)
  <1>0. x \in State BY DEF Stocked
  <1>1. Calm(x, l) /\ (x.writer # "dead" => l.next_target = x.next_target /\ l.resend_range = x.resend_range)
    BY <1>0, InitiateLogoutCalm
  <1>2. Calm(x, x) BY <1>0, CalmRefl
  <1>3. \/ OnScheduleTick(x, in_range, same_range, open) \in {d, StoreReset(d), y}
        \/ OnScheduleTick(x, in_range, same_range, open) = SendLogon(b) /\ y.connected
    BY DEF OnScheduleTick
  <1>4. d = Disconnect(x) \/ (d = Disconnect(l) /\ x.connected) BY DEF LeaveSession
  <1>5. y = x \/ (y = l /\ IsLoggedOn(x)) OBVIOUS
  <1>6. ~x.connected => y = x OBVIOUS
  <1> HIDE DEF l, d, y
  <1>7. Keeps(x, d) /\ d.phase = "idle" /\ (Steady(x) => Clean(d))
    <2>1. l \in State /\ l.phase = "idle" BY <1>1 DEF Calm, Queue
    <2>2. Disconnect(l) \in State /\ Disconnect(l).phase = "idle" /\ Disconnect(x).phase = "idle"
      BY <1>0, <2>1, DisconnectQueue DEF Queue
    <2>3. Alike(Disconnect(l), Disconnect(l)) BY DEF Alike
    <2>4. x.connected => Keeps(x, Disconnect(l)) BY <1>1, <2>2, <2>3, DisconnectKeeps
    <2>5. Keeps(x, Disconnect(x)) BY DropKeeps
    <2>6. Steady(x) /\ x.connected => l.connected BY <1>1 DEF Steady, Calm, Live
    <2>7. Steady(x) /\ x.connected => Clean(Disconnect(l)) BY <2>1, <2>6, DisconnectQueue
    <2>8. Steady(x) => Clean(Disconnect(x))
      <3>1. ~x.connected => Disconnect(x) = x BY DEF Disconnect
      <3> QED BY <1>0, <3>1, DisconnectQueue DEF Steady
    <2> QED BY <1>4, <2>2, <2>4, <2>5, <2>7, <2>8
  <1>8. Keeps(x, StoreReset(d)) BY <1>7, RestartKeeps
  <1>9. Keeps(x, y) BY <1>5, KeepsRefl, LogoutKeeps DEF l
  <1>10. y \in State /\ Calm(x, y) BY <1>1, <1>2, <1>5 DEF Calm, Queue
  <1>11. b \in State BY <1>10 DEF State
  <1>12. Calm(y, b) /\ Undisturbed(y, b) /\ b.writer = y.writer
    BY <1>10, <1>11, SameCalm DEF State, Undisturbed
  <1> HIDE DEF b
  <1>13. Calm(b, SendLogon(b)) /\ (b.writer # "dead" => Undisturbed(b, SendLogon(b)))
    BY <1>11, SendLogonCalm
  <1>14. Calm(x, SendLogon(b)) BY <1>0, <1>10, <1>12, <1>13, CalmTrans
  <1>15. ASSUME y.connected PROVE Keeps(x, SendLogon(b))
    <2>1. x.connected BY <1>6, <1>15
    <2>2. Steady(x) => y.writer # "dead" BY <1>10 DEF Steady, Calm, Live
    <2>3. Steady(x) => y.next_target = x.next_target /\ y.resend_range = x.resend_range
      BY <1>1, <1>5 DEF Steady
    <2> QED BY <1>12, <1>13, <1>14, <2>1, <2>2, <2>3, CalmKeeps DEF Undisturbed
  <1> QED BY <1>3, <1>7, <1>8, <1>9, <1>15

--------------------------------------------------------------------------------
(***************************************************************************)
(* The specification.                                                      *)
(***************************************************************************)
RecoveryInv ==
    /\ Stocked(s)
    /\ OperatorSets = {} => Aligned(s)
    /\ OperatorSets = {} /\ ~WritesFail => Steady(s) /\ (NoResets => Justified(s))

\* Every step but a failing write and an operator's command keeps each part.
LEMMA NextKeeps ==
  ASSUME Stocked(s), [Next]_vars, ~WriteSideFails, ~SetSeqNums PROVE Keeps(s, s')
  <1>0. s \in State BY DEF Stocked
  <1>1. CASE Attach
    <2>1. PICK open \in BOOLEAN : s' = Settle(OnAttach(s, open)) BY <1>1 DEF Attach
    <2>2. ~s.connected /\ s.phase = "idle" BY <1>1 DEF Attach, Running, Idle
    <2> QED BY <2>1, <2>2, OnAttachKeeps, SettleKeeps
  <1>2. CASE Receive
    <2>1. PICK m \in Inbound, o \in Oracle : s' = Settle(OnInbound(s, m, o))
      BY <1>2 DEF Receive
    <2>2. s.connected /\ s.phase = "idle" BY <1>2 DEF Receive, Idle
    <2> QED BY <2>1, <2>2, OnInboundKeeps, SettleKeeps
  <1>3. CASE PeerCloses BY <1>3, DropKeeps, SettleKeeps DEF PeerCloses, Running, Idle
  <1>4. CASE RetransmitNext BY <1>4, RetransmitStepKeeps DEF RetransmitNext
  <1>5. CASE RetransmitDone BY <1>5, RetransmitEndKeeps DEF RetransmitDone
  <1>6. CASE DrainNext
    <2>1. PICK m \in InStash(s), o \in Oracle : s' = Settle(DrainStep(s, m, o))
      BY <1>6 DEF DrainNext
    <2>2. s.phase = "drain" BY <1>6 DEF DrainNext
    <2> QED BY <2>1, <2>2, DrainStepKeeps, SettleKeeps
  <1>7. CASE DrainDone BY <1>7, DrainEndKeeps, SettleKeeps DEF DrainDone
  <1>8. CASE SendApp
    <2>1. PICK t \in AppTypes, p \in Payloads :
             s' = Settle(SendMessage(s, [WithType(t) EXCEPT !.payload = p]))
      BY <1>8 DEF SendApp
    <2>2. WithType(t) \in Msg BY WithTypeType, TypeNames
    <2>3. [WithType(t) EXCEPT !.payload = p] \in Msg BY <2>2 DEF Msg, Payload
    <2>4. s.phase = "idle" BY <1>8 DEF SendApp, Running, Idle
    <2> QED BY <2>1, <2>3, <2>4, SendMessageKeeps, SettleKeeps
  <1>9. CASE LogoutCommand BY <1>9, LogoutKeeps, SettleKeeps DEF LogoutCommand, Running, Idle
  <1>10. CASE Stop
    <2>1. s.phase = "idle" BY <1>10 DEF Stop, Running, Idle
    <2>2. CASE IsLoggedOn(s) BY <1>10, <2>1, <2>2, LogoutKeeps, SettleKeeps DEF Stop
    <2>3. CASE ~IsLoggedOn(s) BY <1>10, <2>1, <2>3, DropKeeps DEF Stop
    <2> QED BY <2>2, <2>3
  <1>11. CASE StopEnds BY <1>11, DropKeeps DEF StopEnds, Idle
  <1>12. CASE EngineDropped BY <1>12, DropKeeps DEF EngineDropped, Running, Idle
  <1>13. CASE ProtocolDeadline
    <2>1. PICK since_recv \in Silences, idle \in BOOLEAN :
             s' = Settle(OnProtocolDeadline(s, since_recv, idle))
      BY <1>13 DEF ProtocolDeadline
    <2>2. s.phase = "idle" /\ s.connected BY <1>13 DEF ProtocolDeadline, Running, Idle
    <2> QED BY <2>1, <2>2, OnProtocolDeadlineKeeps, SettleKeeps
  <1>14. CASE ScheduleTick
    <2>1. PICK in_range \in BOOLEAN, same_range \in BOOLEAN, open \in BOOLEAN :
             s' = Settle(OnScheduleTick(s, in_range, same_range, open))
      BY <1>14 DEF ScheduleTick
    <2>2. s.phase = "idle" BY <1>14 DEF ScheduleTick, Running, Idle
    <2> QED BY <2>1, <2>2, OnScheduleTickKeeps, SettleKeeps
  <1>15. CASE UNCHANGED vars BY <1>15, KeepsRefl DEF vars
  <1> QED BY <1>1, <1>2, <1>3, <1>4, <1>5, <1>6, <1>7, <1>8, <1>9, <1>10, <1>11, <1>12,
             <1>13, <1>14, <1>15 DEF Next

\* One step keeps the invariant.
LEMMA NextRecovers == ASSUME RecoveryInv, [Next]_vars PROVE RecoveryInv'
  <1>0. Stocked(s) /\ s \in State BY DEF RecoveryInv, Stocked
  <1>1. CASE WriteSideFails
    <2> DEFINE y == [s EXCEPT !.writer = "dead"]
    <2>1. s' = y /\ WritesFail BY <1>1 DEF WriteSideFails
    <2>2. y \in State BY <1>0, FieldFacts DEF State
    <2>3. /\ y.cfg = s.cfg /\ y.stash = s.stash /\ y.next_target = s.next_target
          /\ y.phase = s.phase /\ y.replay = s.replay /\ y.connected = s.connected
      BY <1>0 DEF State
    <2> HIDE DEF y
    <2>4. Stocked(y) BY <1>0, <2>2, <2>3 DEF Stocked, Unique
    <2>5. Aligned(s) => Aligned(y) BY <2>3 DEF Aligned, Ahead, AtOrAhead, Lone
    <2> QED BY <2>1, <2>4, <2>5 DEF RecoveryInv
  <1>2. CASE SetSeqNums
    <2>1. PICK n \in OperatorSets :
             \/ s' = [s EXCEPT !.next_sender = n]
             \/ s' = [s EXCEPT !.next_target = n, !.delivered = <<>>]
      BY <1>2 DEF SetSeqNums
    <2>2. n \in SeqNum /\ <<>> \in Seq(Nat) BY OperatorAssumption
    <2>3. s' \in State /\ s'.cfg = s.cfg /\ s'.stash = s.stash BY <1>0, <2>1, <2>2 DEF State
    <2>4. Stocked(s') BY <1>0, <2>3 DEF Stocked, Unique
    <2> QED BY <2>1, <2>4 DEF RecoveryInv
  <1>3. CASE ~WriteSideFails /\ ~SetSeqNums
    <2>1. Keeps(s, s') BY <1>0, <1>3, NextKeeps
    <2> QED BY <2>1 DEF RecoveryInv, Keeps
  <1> QED BY <1>1, <1>2, <1>3

\* A spawned session satisfies the invariant.
LEMMA InitRecovers == Init => RecoveryInv
  <1> SUFFICES ASSUME Init PROVE RecoveryInv
    OBVIOUS
  <1>1. s \in State BY InitType DEF TypeOK
  <1>2. PICK cfg \in Configs : s = Spawned(cfg) BY DEF Init
  <1>3. /\ s.cfg = cfg /\ s.stash = {} /\ s.resend_range = NoRange /\ ~s.connected
        /\ s.writer = "fresh" /\ s.phase = "idle" /\ s.next_target = 1
        /\ ~s.received_logon /\ ~s.sent_logon /\ ~s.sent_logout /\ ~s.sent_reset
        /\ ~s.received_reset /\ s.test_request_counter = 0
    BY <1>2 DEF Spawned
  <1>4. Stocked(s) BY <1>1, <1>3 DEF Stocked, Unique
  <1>5. Aligned(s) BY <1>3 DEF Aligned, Ahead, AtOrAhead, Lone
  <1>6. Steady(s) /\ Justified(s) BY <1>3 DEF Steady, Clean, Justified, Asked, Waiting
  <1> QED BY <1>4, <1>5, <1>6 DEF RecoveryInv

\* The invariant holds in every reachable state.
LEMMA Recovers == Spec => []RecoveryInv
  <1>1. Init => RecoveryInv BY InitRecovers
  <1>2. RecoveryInv /\ [Next]_vars => RecoveryInv' BY NextRecovers
  <1> QED BY <1>1, <1>2, PTL DEF Spec

\* Between events everything stashed is ahead of the expected number, against
\* any peer, any configuration, any resets and any failing write; only the
\* operator's SetSeqNums can put the number past the stash (on_target_too_high,
\* drain_stash, handle_sequence_reset).
THEOREM StashCorrect == OperatorSets = {} => (Spec => []StashAhead)
  <1> SUFFICES ASSUME OperatorSets = {} PROVE Spec => []StashAhead
    OBVIOUS
  <1>1. RecoveryInv => StashAhead
    BY DEF RecoveryInv, Stocked, Unique, Aligned, Ahead, StashAhead, Idle
  <1> QED BY <1>1, Recovers, PTL

\* A session without a connection carries nothing over into the next one, while
\* writes do not fail (disconnect).
THEOREM DisconnectCorrect == OperatorSets = {} /\ ~WritesFail => (Spec => []DisconnectedIsClean)
  <1> SUFFICES ASSUME OperatorSets = {}, ~WritesFail PROVE Spec => []DisconnectedIsClean
    OBVIOUS
  <1>1. RecoveryInv => DisconnectedIsClean
    BY DEF RecoveryInv, Steady, Clean, DisconnectedIsClean
  <1> QED BY <1>1, Recovers, PTL

\* A range that suppresses further ResendRequests always contains the expected
\* number, where no Logon resets the numbers behind it (send_resend_request,
\* check_resend_chunks).
THEOREM SuppressionCorrect ==
  OperatorSets = {} /\ ~WritesFail /\ NoResets => (Spec => []SuppressionJustified)
  <1> SUFFICES ASSUME OperatorSets = {}, ~WritesFail, NoResets PROVE Spec => []SuppressionJustified
    OBVIOUS
  <1>1. RecoveryInv => SuppressionJustified
    BY DEF RecoveryInv, Justified, Asked, Waiting, SuppressionJustified, Idle
  <1> QED BY <1>1, Recovers, PTL

\* Without a connection only on_attach makes one.
LEMMA OnlyAttachConnects ==
  ASSUME Stocked(s), Steady(s), ~s.connected, Next, ~SetSeqNums PROVE Attach \/ ~s'.connected
  <1>0. s \in State /\ Clean(s) BY DEF Stocked, Steady
  <1>1. s.phase \notin {"resend", "drain"} /\ ~IsLoggedOn(s) BY <1>0 DEF Steady, Clean, IsLoggedOn
  <1>2. Disconnect(s) = s BY DEF Disconnect
  <1>3. \A y \in State : Settle(y).connected = y.connected BY DEF Settle, State
  <1>4. SendApp => ~s'.connected
    <2> SUFFICES ASSUME SendApp PROVE ~s'.connected
      OBVIOUS
    <2>1. PICK t \in AppTypes, p \in Payloads :
             s' = Settle(SendMessage(s, [WithType(t) EXCEPT !.payload = p]))
      BY DEF SendApp
    <2>2. WithType(t) \in Msg BY WithTypeType, TypeNames
    <2>3. [WithType(t) EXCEPT !.payload = p] \in Msg BY <2>2 DEF Msg, Payload
    <2> QED BY <1>0, <1>3, <2>1, <2>3, SendMessageCalm, SendMessageType
  <1>5. ScheduleTick => ~s'.connected
    <2> SUFFICES ASSUME ScheduleTick PROVE ~s'.connected
      OBVIOUS
    <2>1. PICK in_range \in BOOLEAN, same_range \in BOOLEAN, open \in BOOLEAN :
             s' = Settle(OnScheduleTick(s, in_range, same_range, open))
      BY DEF ScheduleTick
    <2>2. OnScheduleTick(s, in_range, same_range, open) \in {s, StoreReset(s)}
      BY <1>2 DEF OnScheduleTick, LeaveSession
    <2>3. StoreReset(s) \in State /\ ~StoreReset(s).connected BY <1>0, StoreResetQueue DEF Queue
    <2> QED BY <1>0, <1>3, <2>1, <2>2, <2>3
  <1>6. Stop \/ StopEnds \/ EngineDropped => ~s'.connected
    BY <1>0, <1>1, <1>2 DEF Stop, StopEnds, EngineDropped, State
  <1> QED BY <1>1, <1>4, <1>5, <1>6 DEF Next, WriteSideFails, Receive, PeerCloses, RetransmitNext,
             RetransmitDone, DrainNext, DrainDone, LogoutCommand, ProtocolDeadline

\* A new connection waits for its own Logon, with no logout flag and no stash
\* of an earlier one, while writes do not fail (on_attach, disconnect).
THEOREM FreshConnectionCorrect ==
  OperatorSets = {} /\ ~WritesFail => (Spec => FreshConnectionAwaitsLogon)
  <1> SUFFICES ASSUME OperatorSets = {}, ~WritesFail PROVE Spec => FreshConnectionAwaitsLogon
    OBVIOUS
  <1> DEFINE A == (~s.connected /\ s'.connected) =>
                     ~s'.sent_logout /\ ~s'.received_logon /\ s'.stash = {}
  <1>1. RecoveryInv /\ [Next]_vars => [A]_vars
    <2> SUFFICES ASSUME RecoveryInv, Next, ~s.connected, s'.connected
                 PROVE  ~s'.sent_logout /\ ~s'.received_logon /\ s'.stash = {}
      BY DEF vars
    <2>1. Stocked(s) /\ Steady(s) /\ ~SetSeqNums BY DEF RecoveryInv, SetSeqNums
    <2>2. Attach BY <2>1, OnlyAttachConnects
    <2>3. PICK open \in BOOLEAN : s' = Settle(OnAttach(s, open)) BY <2>2 DEF Attach
    <2>4. s.phase = "idle" BY <2>2 DEF Attach, Running, Idle
    <2> DEFINE y == OnAttach(s, open)
    <2>5. /\ y \in State
          /\ ~y.sent_logout /\ ~y.received_logon /\ y.stash = {}
      BY <2>1, <2>4, OnAttachKeeps DEF Keeps, Stocked
    <2> HIDE DEF y
    <2> QED BY <2>3, <2>5 DEF Settle, State, y
  <1> QED BY <1>1, Recovers, PTL DEF Spec, FreshConnectionAwaitsLogon

--------------------------------------------------------------------------------
(***************************************************************************)
(* What drain_stash takes out reaches the application.                     *)
(***************************************************************************)
\* If there still is a connection, the application has heard what it had heard.
Heard(x, y) == y.connected => x.connected /\ y.delivered = x.delivered

\* Sending does not touch what was delivered, unless it ends the connection.
LEMMA SendHeard ==
  ASSUME NEW x \in State
  PROVE  /\ Heard(x, IncrTarget(x))
         /\ \A m : Heard(x, SendMessage(x, m)) /\ Heard(x, SendReject(x, m))
         /\ \A o : Heard(x, SendBusinessReject(x, o))
  <1>1. \A y \in State : Heard(y, IncrTarget(y)) /\ IncrTarget(y) \in State
    BY IncrTargetType DEF IncrTarget, State, Heard
  <1>2. \A y \in State : \A f : Heard(y, Transmit(y, f))
    <2>1. \A y \in State : Heard(y, Disconnect(y)) BY DisconnectQueue DEF Heard
    <2> QED BY <2>1 DEF Transmit, State, Heard
  <1>3. ASSUME NEW y \in State, NEW m PROVE Heard(y, SendMessage(y, m))
    <2> DEFINE f == [m EXCEPT !.seq = y.next_sender, !.poss_dup = FALSE]
               u == [y EXCEPT !.next_sender = @ + 1]
               w == IF y.cfg.persist_messages THEN SaveAndIncr(y, f) ELSE u
    <2>1. Heard(y, w) BY DEF SaveAndIncr, State, Heard
    <2>2. \A g : Heard(w, Transmit(w, g))
      BY DEF Transmit, Disconnect, StoreReset, SaveAndIncr, State, Heard
    <2>3. SendMessage(y, m) \in {w, Transmit(w, f)} BY DEF SendMessage
    <2> HIDE DEF w
    <2> QED BY <2>1, <2>2, <2>3 DEF Heard
  <1>4. \A m : Heard(x, SendReject(x, m)) BY <1>1, <1>3 DEF SendReject, Heard
  <1>5. \A o : Heard(x, SendBusinessReject(x, o)) BY <1>1, <1>3 DEF SendBusinessReject, Heard
  <1> QED BY <1>1, <1>3, <1>4, <1>5

\* A sound application message that is next goes to from_app, whatever the
\* verdict, or the connection is dropped.
LEMMA NextAppHeard ==
  ASSUME NEW q \in State, NEW m \in Msg, m.type \in AppTypes, m.defect = "none", NEW o \in Oracle,
         m.seq = q.next_target, ~q.cfg.check_latency
  PROVE  LET r == HandlePlain(q, m, o)
         IN  \/ r.flow = "Disconnect"
             \/ r.connected => m.seq \in {r.delivered[i] : i \in DOMAIN r.delivered}
  <1> DEFINE v == Verify(q, m, o, TRUE, TRUE)
             d == Append(q.delivered, m.seq)
             c == [q EXCEPT !.test_request_counter = 0, !.delivered = d]
             Got(y) == m.seq \in {y.delivered[i] : i \in DOMAIN y.delivered}
  <1>1. q.next_target \in Nat /\ q.next_target # 0 BY TargetFacts
  <1>2. v = Return(q, "Disconnect") \/ v = Callback(q, m, o)
    BY <1>1 DEF Verify, CheckSeqNum
  <1>3. o.verdict \in {"ok", "reject_logon", "reject", "unsupported"} BY DEF Oracle, Verdicts
  <1>4. Callback(q, m, o) \in {Return(c, "Continue"), Return(InitiateLogout(IncrTarget(c)), "Disconnect"),
                               Return(SendReject(c, m), "Stop"), Return(SendBusinessReject(c, o), "Stop")}
    BY <1>3 DEF Callback
  <1>5. HandlePlain(q, m, o) = IF v.flow = "Continue" THEN IncrTarget(v) ELSE v BY DEF HandlePlain
  <1>6. d \in Seq(Nat) /\ m.seq \in {d[i] : i \in DOMAIN d}
    <2>1. q.delivered \in Seq(Nat) /\ m.seq \in Nat BY DEF State, Msg
    <2>2. d \in Seq(Nat) /\ Len(d) = Len(q.delivered) + 1 /\ d[Len(d)] = m.seq BY <2>1
    <2>3. Len(q.delivered) \in Nat /\ DOMAIN d = 1..Len(d) BY <2>1, <2>2
    <2>4. Len(d) \in DOMAIN d BY <2>2, <2>3
    <2> QED BY <2>2, <2>4
  <1> HIDE DEF d, v
  <1>7. c \in State /\ c.delivered = d BY <1>6 DEF State
  <1>8. Got(c) BY <1>6, <1>7
  <1> HIDE DEF c
  <1>9. \A y : Heard(c, y) /\ y.connected => Got(y) BY <1>8 DEF Heard
  <1>10. \A y \in State : \A f : /\ Return(y, f).flow = f /\ Return(y, f).connected = y.connected
                                 /\ Return(y, f).delivered = y.delivered
    BY DEF Return, State
  <1>11. Return(q, "Disconnect").flow = "Disconnect" BY <1>10
  <1>12. InitiateLogout(IncrTarget(c)) \in State BY <1>7, IncrTargetType, InitiateLogoutType
  <1>13. SendReject(c, m) \in State /\ SendBusinessReject(c, o) \in State
    BY <1>7, SendRejectType, SendBusinessRejectType
  <1>14. CASE v = Return(c, "Continue")
    <2>1. v \in State /\ v.flow = "Continue" /\ v.delivered = d
      BY <1>7, <1>10, <1>14, ReturnType, FieldFacts
    <2>2. IncrTarget(v).delivered = d BY <2>1 DEF IncrTarget, State
    <2> QED BY <1>5, <1>6, <2>1, <2>2
  <1>15. CASE v = Return(SendReject(c, m), "Stop")
    <2>1. Heard(c, SendReject(c, m)) BY <1>7, SendHeard
    <2> QED BY <1>5, <1>9, <1>10, <1>13, <1>15, <2>1
  <1>16. CASE v = Return(SendBusinessReject(c, o), "Stop")
    <2>1. Heard(c, SendBusinessReject(c, o)) BY <1>7, SendHeard
    <2> QED BY <1>5, <1>9, <1>10, <1>13, <1>16, <2>1
  <1>17. CASE v = Return(q, "Disconnect") BY <1>5, <1>11, <1>17
  <1>18. CASE v = Return(InitiateLogout(IncrTarget(c)), "Disconnect") BY <1>5, <1>10, <1>12, <1>18
  <1> QED BY <1>2, <1>4, <1>14, <1>15, <1>16, <1>17, <1>18

\* No stashed message is lost between the stash and from_app, against any peer
\* and with any failing write: except by the MsgTypes that begin with A, which
\* drain_stash takes for a Logon (contains_field "35=A").
THEOREM StashDelivered ==
  (\A m \in Inbound : m.type # "AppA") => (Spec => StashedAppDelivered)
  <1> SUFFICES ASSUME \A m \in Inbound : m.type # "AppA" PROVE Spec => StashedAppDelivered
    OBVIOUS
  <1> DEFINE A == \A m \in InStash(s) :
                     (s.phase = "drain" /\ m.type \in AppTypes /\ m.defect = "none" /\ m \notin s'.stash
                        /\ ~s.cfg.check_latency /\ s'.connected)
                        => m.seq \in {s'.delivered[i] : i \in DOMAIN s'.delivered}
  <1>1. RecoveryInv /\ [Next]_vars => [A]_vars
    <2> SUFFICES ASSUME RecoveryInv, Next, NEW m \in InStash(s), s.phase = "drain", m.type \in AppTypes,
                        m.defect = "none", m \notin s'.stash, ~s.cfg.check_latency, s'.connected
                 PROVE  m.seq \in {s'.delivered[i] : i \in DOMAIN s'.delivered}
      BY DEF vars
    <2>1. s \in State /\ Unique(s) /\ s.stash \subseteq Inbound BY DEF RecoveryInv, Stocked
    <2>2. m \in s.stash /\ m.seq = s.next_target /\ m \in Inbound /\ m \in Msg
      BY <2>1, InboundAssumption DEF InStash
    <2>3. ~WriteSideFails
      <3>1. WriteSideFails => s'.stash = s.stash BY <2>1 DEF WriteSideFails, State
      <3> QED BY <2>2, <3>1
    <2>4. DrainNext
      BY <2>3 DEF Next, Attach, Receive, PeerCloses, RetransmitNext, RetransmitDone, DrainDone, SendApp,
         LogoutCommand, SetSeqNums, Stop, StopEnds, EngineDropped, ProtocolDeadline,
         ScheduleTick, Running, Idle
    <2>5. PICK k \in InStash(s), o \in Oracle : s' = Settle(DrainStep(s, k, o)) BY <2>4 DEF DrainNext
    <2>6. k = m BY <2>1, <2>2, <2>5 DEF InStash, Unique
    <2> DEFINE q == [s EXCEPT !.stash = @ \ {m}, !.last_processed_was_queued = TRUE]
               r == HandlePlain(q, m, o)
    <2>7. m.type = "App" BY <2>2 DEF AppTypes
    <2>8. Process(q, m, o) = r BY <2>7 DEF Process
    <2>9. DrainStep(s, m, o) = IF r.flow = "Disconnect" THEN Abort(r) ELSE Return(r, "Continue")
      BY <2>7, <2>8 DEF DrainStep, OnlyAdvances
    <2>10. s.stash \ {m} \in SUBSET Msg BY <2>1 DEF State
    <2>11. q \in State BY <2>1, <2>10 DEF State
    <2>12. q.next_target = s.next_target /\ q.cfg = s.cfg BY <2>1 DEF State
    <2> HIDE DEF q
    <2>13. r \in State BY <2>2, <2>11, HandlePlainType
    <2>14. \/ r.flow = "Disconnect"
           \/ r.connected => m.seq \in {r.delivered[i] : i \in DOMAIN r.delivered}
      BY <2>2, <2>11, <2>12, NextAppHeard
    <2> HIDE DEF r
    <2>15. \A y \in State : Settle(y).connected = y.connected /\ Settle(y).delivered = y.delivered
      BY DEF Settle, State
    <2>16. CASE r.flow = "Disconnect"
      <3>1. Disconnect(r) \in State /\ ~Disconnect(r).connected BY <2>13, DisconnectQueue DEF Queue
      <3>2. Abort(r) \in State BY <2>13, AbortType
      <3>3. ~Abort(r).connected BY <3>1 DEF Abort, State
      <3> QED BY <2>5, <2>6, <2>9, <2>15, <2>16, <3>2, <3>3
    <2>17. CASE r.flow # "Disconnect"
      <3>1. Return(r, "Continue") \in State BY <2>13, ReturnType, FieldFacts
      <3>2. /\ Return(r, "Continue").connected = r.connected
            /\ Return(r, "Continue").delivered = r.delivered
        BY <2>13 DEF Return, State
      <3> QED BY <2>5, <2>6, <2>9, <2>14, <2>15, <2>17, <3>1, <3>2
    <2> QED BY <2>16, <2>17
  <1> QED BY <1>1, Recovers, PTL DEF Spec, StashedAppDelivered
================================================================================
