----------------------------- MODULE SessionProofs -----------------------------
(***************************************************************************)
(* Type correctness of SessionCore: every operator maps records of State   *)
(* to records of State, for every configuration and every message.         *)
(***************************************************************************)
EXTENDS SessionCore, SequenceTheorems, TLAPS

\* Arithmetic on sequence numbers.
LEMMA SeqNumFacts == /\ 1 \in SeqNum
                     /\ \A n \in SeqNum : n \in Nat /\ n + 1 \in SeqNum /\ n - 1 \in Nat
  BY DEF SeqNum

\* Constants of the record's fields have their types.
LEMMA FieldFacts ==
    /\ NoRange \in ResendRange /\ NoReplay \in Replay
    /\ "fresh" \in Writers /\ "used" \in Writers /\ "dead" \in Writers
    /\ "Continue" \in Flows /\ "Stop" \in Flows /\ "Disconnect" \in Flows
    /\ "idle" \in Phases /\ "resend" \in Phases /\ "drain" \in Phases /\ "stopped" \in Phases
  BY DEF NoRange, ResendRange, NoReplay, Replay, Writers, Flows, Phases

\* Message::with_type yields a message.
LEMMA WithTypeType == ASSUME NEW t \in MsgTypes PROVE WithType(t) \in Msg
  BY DEF WithType, Msg, Defects, Payload

\* The types of the messages the session sends.
LEMMA TypeNames ==
    /\ AppTypes \subseteq MsgTypes
    /\ {"Logon", "Heartbeat", "TestRequest", "ResendRequest", "Reject", "SequenceReset",
        "Logout", "App", "AppA"} = MsgTypes
    /\ "App" \in AppTypes
  BY DEF MsgTypes, AppTypes

\* A call's result is a record of State.
LEMMA ReturnType ==
  ASSUME NEW x \in State, NEW f \in Flows PROVE Return(x, f) \in State
  BY DEF Return, State

\* MessageStore::reset.
LEMMA StoreResetType == ASSUME NEW x \in State PROVE StoreReset(x) \in State
  <1>1. <<>> \in Seq(Nat) BY EmptySeq
  <1> QED BY <1>1, SeqNumFacts DEF StoreReset, State

\* incr_next_target_seq_num.
LEMMA IncrTargetType == ASSUME NEW x \in State PROVE IncrTarget(x) \in State
  <1>1. x.next_target + 1 \in SeqNum BY SeqNumFacts DEF State
  <1> QED BY <1>1 DEF IncrTarget, State

\* save_message_and_incr.
LEMMA SaveType ==
  ASSUME NEW x \in State, NEW f \in Msg, f.seq \in SeqNum PROVE SaveAndIncr(x, f) \in State
  <1>1. x.next_sender + 1 \in SeqNum BY SeqNumFacts DEF State
  <1> DEFINE kept == {y \in x.saved : y.seq # f.seq} \cup
                     (IF f.type \in AppTypes
                      THEN {[seq |-> f.seq, type |-> f.type, payload |-> f.payload]}
                      ELSE {})
  <1>2. kept \in SUBSET Saved BY DEF State, Saved, Msg
  <1>3. SaveAndIncr(x, f) = [x EXCEPT !.next_sender = x.next_sender + 1, !.saved = kept]
    BY DEF SaveAndIncr
  <1> HIDE DEF kept
  <1> QED BY <1>1, <1>2, <1>3 DEF State

\* The stash.
LEMMA StashInsertType ==
  ASSUME NEW x \in State, NEW m \in Msg PROVE StashInsert(x, m) \in State
  BY DEF StashInsert, State

\* Session::disconnect.
LEMMA DisconnectType == ASSUME NEW x \in State PROVE Disconnect(x) \in State
  <1> DEFINE r == [x EXCEPT !.connected = FALSE, !.writer = "fresh",
                            !.received_logon = FALSE, !.sent_logon = FALSE,
                            !.sent_logout = FALSE,
                            !.sent_reset = FALSE, !.received_reset = FALSE,
                            !.test_request_counter = 0, !.resend_range = NoRange,
                            !.stash = {},
                            !.app_online = @ /\ ~(x.received_logon \/ x.sent_logon)]
  <1>1. (x.app_online /\ ~(x.received_logon \/ x.sent_logon)) \in BOOLEAN OBVIOUS
  <1>2. r \in State BY <1>1, FieldFacts DEF State
  <1> QED BY <1>2, StoreResetType DEF Disconnect

\* Session::transmit.
LEMMA TransmitType ==
  ASSUME NEW x \in State, NEW f \in Msg PROVE Transmit(x, f) \in State
  <1>1. Append(x.out, f) \in Seq(Msg) BY DEF State
  <1>2. [x EXCEPT !.out = Append(@, f), !.writer = "used"] \in State
    BY <1>1, FieldFacts DEF State
  <1> QED BY <1>2, DisconnectType DEF Transmit

\* Session::send_message.
LEMMA SendMessageType ==
  ASSUME NEW x \in State, NEW m \in Msg PROVE SendMessage(x, m) \in State
  <1> DEFINE f == [m EXCEPT !.seq = x.next_sender, !.poss_dup = FALSE]
             r == IF x.cfg.persist_messages THEN SaveAndIncr(x, f)
                  ELSE [x EXCEPT !.next_sender = @ + 1]
  <1>1. x.next_sender \in SeqNum /\ x.next_sender \in Nat /\ x.next_sender + 1 \in SeqNum
    BY SeqNumFacts DEF State
  <1>2. f \in Msg /\ f.seq \in SeqNum BY <1>1 DEF Msg
  <1>3. [x EXCEPT !.next_sender = @ + 1] \in State BY <1>1 DEF State
  <1>4. r \in State BY <1>2, <1>3, SaveType
  <1>5. SendMessage(x, m) = IF x.sent_logon \/ m.type \in {"Logon", "Logout", "ResendRequest", "SequenceReset"}
                            THEN Transmit(r, f) ELSE r
    BY DEF SendMessage
  <1> HIDE DEF r, f
  <1> QED BY <1>2, <1>4, <1>5, TransmitType

\* Session::send_logon.
LEMMA SendLogonType == ASSUME NEW x \in State PROVE SendLogon(x) \in State
  <1> DEFINE reset == \/ x.cfg.send_reset_seq_num_flag
                      \/ x.cfg.reset_on_logon /\ x.next_sender = 1 /\ x.next_target = 1
             y == [x EXCEPT !.sent_reset = @ \/ reset, !.sent_logon = TRUE]
             num == IF x.cfg.send_next_expected THEN x.next_target ELSE 0
             m == [WithType("Logon") EXCEPT !.flag = reset, !.num = num]
  <1>1. reset \in BOOLEAN /\ (x.sent_reset \/ reset) \in BOOLEAN OBVIOUS
  <1>2. num \in Nat BY SeqNumFacts DEF State
  <1>3. SendLogon(x) = SendMessage(y, m) BY DEF SendLogon
  <1> HIDE DEF reset, num
  <1>4. y \in State BY <1>1 DEF State
  <1>5. WithType("Logon") \in Msg BY WithTypeType, TypeNames
  <1>6. m \in Msg BY <1>1, <1>2, <1>5 DEF Msg
  <1> QED BY <1>3, <1>4, <1>6, SendMessageType

\* Session::send_logon_reply.
LEMMA SendLogonReplyType == ASSUME NEW x \in State PROVE SendLogonReply(x) \in State
  <1> DEFINE flag == x.received_reset /\ x.cfg.send_next_expected
             y == [x EXCEPT !.sent_reset = @ \/ x.received_reset, !.sent_logon = TRUE]
             num == IF x.cfg.send_next_expected THEN x.next_target + 1 ELSE 0
             m == [WithType("Logon") EXCEPT !.flag = flag, !.num = num]
  <1>1. flag \in BOOLEAN /\ (x.sent_reset \/ x.received_reset) \in BOOLEAN OBVIOUS
  <1>2. num \in Nat BY SeqNumFacts DEF State
  <1>3. SendLogonReply(x) = SendMessage(y, m) BY DEF SendLogonReply
  <1> HIDE DEF flag, num
  <1>4. y \in State BY <1>1 DEF State
  <1>5. WithType("Logon") \in Msg BY WithTypeType, TypeNames
  <1>6. m \in Msg BY <1>1, <1>2, <1>5 DEF Msg
  <1> QED BY <1>3, <1>4, <1>6, SendMessageType

\* Session::initiate_logout.
LEMMA InitiateLogoutType == ASSUME NEW x \in State PROVE InitiateLogout(x) \in State
  <1>1. [x EXCEPT !.sent_logout = TRUE] \in State BY DEF State
  <1>2. WithType("Logout") \in Msg BY WithTypeType, TypeNames
  <1> QED BY <1>1, <1>2, SendMessageType DEF InitiateLogout

\* Session::send_reject.
LEMMA SendRejectType == ASSUME NEW x \in State, NEW m PROVE SendReject(x, m) \in State
  <1>1. WithType("Reject") \in Msg BY WithTypeType, TypeNames
  <1> QED BY <1>1, IncrTargetType, SendMessageType DEF SendReject

\* Session::send_business_reject.
LEMMA SendBusinessRejectType ==
  ASSUME NEW x \in State, NEW o PROVE SendBusinessReject(x, o) \in State
  <1>1. WithType("App") \in Msg BY WithTypeType, TypeNames
  <1>2. [WithType("App") EXCEPT !.payload = "business_reject"] \in Msg
    BY <1>1 DEF Msg, Payload
  <1> QED BY <1>2, IncrTargetType, SendMessageType DEF SendBusinessReject

\* Session::send_resend_request, for a message above the expected number.
LEMMA SendResendRequestType ==
  ASSUME NEW x \in State, NEW begin \in Nat, NEW received \in Nat, begin < received
  PROVE  SendResendRequest(x, begin, received) \in State
  <1> DEFINE full_end == received - 1
             max == x.cfg.max_messages_in_resend_request
             capped == max # 0 /\ begin + max - 1 < full_end
             chunk_end == IF capped THEN begin + max - 1 ELSE full_end
             range == [begin |-> begin, full_end |-> full_end, chunk_end |-> chunk_end]
             y == [x EXCEPT !.resend_range = range]
             m == [WithType("ResendRequest") EXCEPT !.num = begin,
                                                    !.end = IF max = 0 THEN 0 ELSE chunk_end]
  <1>1. max \in Nat BY DEF State, Config
  <1>2. full_end \in Nat /\ chunk_end \in Nat BY <1>1
  <1>3. SendResendRequest(x, begin, received) = SendMessage(y, m) BY DEF SendResendRequest
  <1> HIDE DEF full_end, chunk_end, max
  <1>4. range \in ResendRange BY <1>2 DEF ResendRange
  <1> HIDE DEF range
  <1>5. y \in State BY <1>4 DEF State
  <1>6. WithType("ResendRequest") \in Msg BY WithTypeType, TypeNames
  <1>7. m \in Msg BY <1>2, <1>6 DEF Msg
  <1> QED BY <1>3, <1>5, <1>7, SendMessageType

\* Session::check_resend_chunks.
LEMMA CheckResendChunksType == ASSUME NEW x \in State PROVE CheckResendChunks(x) \in State
  <1>1. [x EXCEPT !.resend_range = NoRange] \in State BY FieldFacts DEF State
  <1>2. /\ x.next_target \in Nat
        /\ x.resend_range.full_end \in Nat /\ x.resend_range.full_end + 1 \in Nat
    BY SeqNumFacts DEF State, ResendRange
  <1>3. x.next_target <= x.resend_range.full_end => x.next_target < x.resend_range.full_end + 1
    BY <1>2
  <1> QED BY <1>1, <1>2, <1>3, SendResendRequestType DEF CheckResendChunks

\* Session::send_gap_fill.
LEMMA SendGapFillType ==
  ASSUME NEW x \in State, NEW begin \in Nat, NEW new_seq \in Nat
  PROVE  SendGapFill(x, begin, new_seq) \in State
  <1>1. WithType("SequenceReset") \in Msg BY WithTypeType, TypeNames
  <1>2. GapFill(begin, new_seq) \in Msg BY <1>1 DEF GapFill, Msg
  <1> QED BY <1>2, TransmitType DEF SendGapFill

\* Session::on_target_too_high.
LEMMA OnTargetTooHighType ==
  ASSUME NEW x \in State, NEW m \in Msg, m.seq > x.next_target
  PROVE  OnTargetTooHigh(x, m) \in State
  <1>1. StashInsert(x, m) \in State BY StashInsertType
  <1>2. m.seq \in Nat /\ x.next_target \in Nat /\ x.next_target < m.seq
    BY SeqNumFacts DEF State, Msg
  <1> QED BY <1>1, <1>2, SendResendRequestType DEF OnTargetTooHigh

\* Session::on_target_too_low.
LEMMA OnTargetTooLowType ==
  ASSUME NEW x \in State, NEW m PROVE OnTargetTooLow(x, m) \in State
  <1>1. SendReject(x, m) \in State BY SendRejectType
  <1>2. InitiateLogout(x) \in State /\ InitiateLogout(SendReject(x, m)) \in State
    BY <1>1, InitiateLogoutType
  <1>3. \A y \in State : Return(y, "Stop") \in State /\ Return(y, "Disconnect") \in State
    BY ReturnType, FieldFacts
  <1> QED BY <1>1, <1>2, <1>3 DEF OnTargetTooLow

\* The callback stage of Session::verify.
LEMMA CallbackType ==
  ASSUME NEW x \in State, NEW m \in Msg, NEW o \in Oracle PROVE Callback(x, m, o) \in State
  <1> DEFINE d == IF m.type \in AppTypes THEN Append(x.delivered, m.seq) ELSE x.delivered
             r == [x EXCEPT !.test_request_counter = 0, !.delivered = d]
  <1>1. m.seq \in Nat BY DEF Msg
  <1>2. d \in Seq(Nat) BY <1>1 DEF State
  <1> HIDE DEF d
  <1>3. r \in State BY <1>2 DEF State
  <1> HIDE DEF r
  <1>4. /\ InitiateLogout(IncrTarget(r)) \in State
        /\ SendReject(r, m) \in State
        /\ SendBusinessReject(r, o) \in State
    BY <1>3, InitiateLogoutType, IncrTargetType, SendRejectType, SendBusinessRejectType
  <1>5. \A y \in State, f \in Flows : Return(y, f) \in State BY ReturnType
  <1>6. o.verdict \in {"ok", "reject_logon", "reject", "unsupported"}
    BY DEF Oracle, Verdicts
  <1>7. Callback(x, m, o) \in {Return(r, "Continue"), Return(InitiateLogout(IncrTarget(r)), "Disconnect"),
                               Return(SendReject(r, m), "Stop"), Return(SendBusinessReject(r, o), "Stop")}
    BY <1>6 DEF Callback, r, d
  <1> QED BY <1>3, <1>4, <1>5, <1>7, FieldFacts

\* The sequence-number stage of Session::verify.
LEMMA CheckSeqNumType ==
  ASSUME NEW x \in State, NEW m \in Msg, NEW o \in Oracle, NEW hi \in BOOLEAN, NEW lo \in BOOLEAN
  PROVE  CheckSeqNum(x, m, o, hi, lo) \in State
  <1>1. Return(SendReject(x, m), "Stop") \in State BY SendRejectType, ReturnType, FieldFacts
  <1>2. m.seq > x.next_target => Return(OnTargetTooHigh(x, m), "Stop") \in State
    BY OnTargetTooHighType, ReturnType, FieldFacts
  <1> QED BY <1>1, <1>2, OnTargetTooLowType, CallbackType DEF CheckSeqNum

\* Session::verify.
LEMMA VerifyType ==
  ASSUME NEW x \in State, NEW m \in Msg, NEW o \in Oracle, NEW hi \in BOOLEAN, NEW lo \in BOOLEAN
  PROVE  Verify(x, m, o, hi, lo) \in State
  <1>1. SendReject(x, m) \in State /\ InitiateLogout(SendReject(x, m)) \in State
    BY SendRejectType, InitiateLogoutType
  <1>2. \A y \in State, f \in Flows : Return(y, f) \in State BY ReturnType
  <1> QED BY <1>1, <1>2, CheckSeqNumType, FieldFacts DEF Verify

\* The end of Session::handle_resend_request.
LEMMA ConsumeRequestType ==
  ASSUME NEW x \in State, NEW n PROVE ConsumeRequest(x, n) \in State
  BY IncrTargetType DEF ConsumeRequest

\* Session::answer_resend.
LEMMA AnswerResendType ==
  ASSUME NEW x \in State, NEW begin \in Nat, NEW end \in Nat, NEW request \in Nat
  PROVE  AnswerResend(x, begin, end, request) \in State
  <1> DEFINE p == [begin |-> begin, seq |-> begin, end |-> end, gap_begin |-> 0,
                   request |-> request, mark |-> Len(x.out)]
  <1>1. Len(x.out) \in Nat BY LenProperties DEF State
  <1>2. p \in Replay BY <1>1 DEF Replay
  <1> HIDE DEF p
  <1>3. [x EXCEPT !.phase = "resend", !.replay = p] \in State BY <1>2, FieldFacts DEF State
  <1>4. ConsumeRequest(x, request) \in State BY ConsumeRequestType
  <1>5. ConsumeRequest(SendGapFill(x, begin, end + 1), request) \in State
    BY SendGapFillType, ConsumeRequestType
  <1>6. AnswerResend(x, begin, end, request) \in
           {ConsumeRequest(x, request), [x EXCEPT !.phase = "resend", !.replay = p],
            ConsumeRequest(SendGapFill(x, begin, end + 1), request)}
    BY DEF AnswerResend, p, State, Config
  <1> QED BY <1>3, <1>4, <1>5, <1>6

\* One iteration of Session::retransmit.
LEMMA RetransmitStepType ==
  ASSUME NEW x \in State, NEW veto \in BOOLEAN PROVE RetransmitStep(x, veto) \in State
  <1> DEFINE p == x.replay
             found == {y \in x.saved : y.seq = p.seq}
             next == [x EXCEPT !.replay.seq = p.seq + 1]
             y == CHOOSE y \in found : TRUE
             frame == [WithType(y.type) EXCEPT !.seq = y.seq, !.poss_dup = TRUE,
                                               !.payload = y.payload]
             filled == IF p.gap_begin = 0 THEN next ELSE SendGapFill(next, p.gap_begin, p.seq)
             grown == [next EXCEPT !.replay.gap_begin = IF p.gap_begin = 0 THEN p.seq ELSE @]
             flushed == [filled EXCEPT !.replay.gap_begin = 0]
  <1>1. p \in Replay /\ p.seq \in Nat /\ p.gap_begin \in Nat BY DEF State, Replay
  <1>2. [x.replay EXCEPT !.seq = p.seq + 1] \in Replay BY <1>1 DEF Replay
  <1>3. next \in State BY <1>2 DEF State
  <1>4. grown \in State
    <2>1. next.replay \in Replay BY <1>3 DEF State
    <2> HIDE DEF next
    <2>2. [next.replay EXCEPT !.gap_begin = IF p.gap_begin = 0 THEN p.seq ELSE @] \in Replay
      BY <1>1, <2>1 DEF Replay
    <2> QED BY <1>3, <2>2 DEF State
  <1>5. flushed \in State
    <2>1. filled \in State BY <1>1, <1>3, SendGapFillType
    <2> HIDE DEF filled
    <2>2. [filled.replay EXCEPT !.gap_begin = 0] \in Replay BY <2>1 DEF State, Replay
    <2> QED BY <2>1, <2>2 DEF State
  <1>6. ASSUME found # {} PROVE frame \in Msg
    <2>1. y \in found BY <1>6
    <2>2. y \in Saved BY <2>1 DEF State
    <2> HIDE DEF y
    <2>3. WithType(y.type) \in Msg BY <2>2, WithTypeType, TypeNames DEF Saved
    <2>4. y.seq \in Nat /\ y.payload \in Payload BY <2>2, SeqNumFacts DEF Saved
    <2> QED BY <2>3, <2>4 DEF Msg
  <1>7. RetransmitStep(x, veto) = IF found = {} \/ veto THEN grown ELSE Transmit(flushed, frame)
    BY DEF RetransmitStep
  <1> HIDE DEF grown, flushed, frame, found
  <1> QED BY <1>4, <1>5, <1>6, <1>7, TransmitType

\* From the handler to drain_stash.
LEMMA EnterDrainType == ASSUME NEW x \in State PROVE EnterDrain(x) \in State
  BY FieldFacts DEF EnterDrain, State

\* The end of Session::retransmit.
LEMMA RetransmitEndType == ASSUME NEW x \in State PROVE RetransmitEnd(x) \in State
  <1>1. x.replay.gap_begin \in Nat /\ x.replay.end + 1 \in Nat BY DEF State, Replay
  <1>2. SendGapFill(x, x.replay.gap_begin, x.replay.end + 1) \in State BY <1>1, SendGapFillType
  <1> QED BY <1>2, ConsumeRequestType, EnterDrainType DEF RetransmitEnd

\* An accepted Logon in Session::handle_logon.
LEMMA AcceptLogonType ==
  ASSUME NEW x \in State, NEW m \in Msg PROVE AcceptLogon(x, m) \in State
  <1> DEFINE gap == IF x.cfg.send_next_expected /\ m.num # 0 /\ m.num < x.next_sender
                    THEN m.num ELSE 0
             r1 == IF x.cfg.initiator THEN x ELSE SendLogonReply(x)
             r2 == [r1 EXCEPT !.sent_reset = FALSE, !.received_reset = FALSE]
             range == [begin |-> r2.next_target, full_end |-> m.seq - 1, chunk_end |-> m.seq - 1]
             r3 == CASE m.seq <= r2.next_target -> IncrTarget(r2)
                     [] m.seq > r2.next_target /\ x.cfg.send_next_expected /\ ~m.flag ->
                          [StashInsert(r2, m) EXCEPT !.resend_range = range]
                     [] OTHER -> OnTargetTooHigh(r2, m)
             r4 == [r3 EXCEPT !.app_online = @ \/ IsLoggedOn(r3)]
  <1>1. m.num \in Nat /\ m.seq \in Nat BY DEF Msg
  <1>2. gap \in Nat BY <1>1
  <1>3. r1 \in State BY SendLogonReplyType
  <1> HIDE DEF r1
  <1>4. r2 \in State BY <1>3 DEF State
  <1> HIDE DEF r2
  <1>5. r2.next_target \in Nat BY <1>4, SeqNumFacts DEF State
  <1>6. r3 \in State
    <2>1. CASE m.seq <= r2.next_target
      <3>1. IncrTarget(r2) \in State BY <1>4, IncrTargetType
      <3>2. ~(m.seq > r2.next_target) BY <1>1, <1>5, <2>1
      <3> QED BY <2>1, <3>1, <3>2
    <2>2. CASE m.seq > r2.next_target
      <3>1. m.seq - 1 \in Nat BY <1>1, <1>5, <2>2
      <3>2. range \in ResendRange BY <3>1, <1>5 DEF ResendRange
      <3> HIDE DEF range
      <3>3. StashInsert(r2, m) \in State BY <1>4, StashInsertType
      <3>4. [StashInsert(r2, m) EXCEPT !.resend_range = range] \in State
        BY <3>2, <3>3 DEF State
      <3>5. OnTargetTooHigh(r2, m) \in State BY <1>4, <2>2, OnTargetTooHighType
      <3>6. ~(m.seq <= r2.next_target) BY <1>1, <1>5, <2>2
      <3> QED BY <3>4, <3>5, <3>6
    <2> QED BY <2>1, <2>2, <1>1, <1>5
  <1> HIDE DEF r3
  <1>7. (r3.app_online \/ IsLoggedOn(r3)) \in BOOLEAN OBVIOUS
  <1>8. r4 \in State BY <1>6, <1>7 DEF State
  <1> HIDE DEF r4
  <1>9. r4.next_sender - 1 \in Nat BY <1>8, SeqNumFacts DEF State
  <1>10. AnswerResend(r4, gap, r4.next_sender - 1, 0) \in State
    BY <1>2, <1>8, <1>9, AnswerResendType
  <1>11. AcceptLogon(x, m) = IF gap # 0 THEN AnswerResend(r4, gap, r4.next_sender - 1, 0) ELSE r4
    BY DEF AcceptLogon, r1, r2, r3, r4
  <1> QED BY <1>8, <1>10, <1>11

\* The resets a Logon asks for.
LEMMA LogonResetsType ==
  ASSUME NEW x \in State, NEW m \in Msg PROVE LogonResets(x, m) \in State
  <1>1. (x.received_reset \/ m.flag) \in BOOLEAN OBVIOUS
  <1>2. [x EXCEPT !.received_reset = @ \/ m.flag] \in State BY <1>1 DEF State
  <1> QED BY <1>2, StoreResetType DEF LogonResets

\* Session::handle_logon.
LEMMA HandleLogonType ==
  ASSUME NEW x \in State, NEW m \in Msg, NEW o \in Oracle PROVE HandleLogon(x, m, o) \in State
  <1> DEFINE r == LogonResets(x, m)
             v == Verify(r, m, o, FALSE, TRUE)
             a == [v EXCEPT !.received_logon = TRUE]
  <1>1. r \in State BY LogonResetsType
  <1>2. v \in State BY <1>1, VerifyType
  <1>3. a \in State BY <1>2 DEF State
  <1>4. \A y \in State : Return(y, "Disconnect") \in State BY ReturnType, FieldFacts
  <1>5. InitiateLogout(a) \in State /\ AcceptLogon(a, m) \in State
    BY <1>3, InitiateLogoutType, AcceptLogonType
  <1>6. HandleLogon(x, m, o) \in
           {Return(x, "Disconnect"), Return(r, "Disconnect"), v,
            Return(InitiateLogout(a), "Disconnect"), AcceptLogon(a, m)}
    BY DEF HandleLogon
  <1> HIDE DEF r, v, a
  <1> QED BY <1>1, <1>2, <1>4, <1>5, <1>6

\* handle_plain_admin and handle_app_message.
LEMMA HandlePlainType ==
  ASSUME NEW x \in State, NEW m \in Msg, NEW o \in Oracle PROVE HandlePlain(x, m, o) \in State
  BY VerifyType, IncrTargetType DEF HandlePlain

\* Session::handle_test_request.
LEMMA HandleTestRequestType ==
  ASSUME NEW x \in State, NEW m \in Msg, NEW o \in Oracle
  PROVE  HandleTestRequest(x, m, o) \in State
  <1>1. WithType("Heartbeat") \in Msg BY WithTypeType, TypeNames
  <1> QED BY <1>1, VerifyType, IncrTargetType, SendMessageType DEF HandleTestRequest

\* Session::handle_resend_request.
LEMMA HandleResendRequestType ==
  ASSUME NEW x \in State, NEW m \in Msg, NEW o \in Oracle
  PROVE  HandleResendRequest(x, m, o) \in State
  <1> DEFINE v == Verify(x, m, o, FALSE, FALSE)
             end == IF m.end = 0 \/ m.end >= v.next_sender THEN v.next_sender - 1 ELSE m.end
  <1>1. v \in State BY VerifyType
  <1> HIDE DEF v
  <1>2. end \in Nat BY <1>1, SeqNumFacts DEF State, Msg
  <1>3. m.num \in Nat /\ m.seq \in Nat BY DEF Msg
  <1>4. AnswerResend(v, m.num, end, m.seq) \in State BY <1>1, <1>2, <1>3, AnswerResendType
  <1>5. HandleResendRequest(x, m, o) = IF v.flow = "Continue" THEN AnswerResend(v, m.num, end, m.seq) ELSE v
    BY DEF HandleResendRequest, v
  <1> QED BY <1>1, <1>4, <1>5

\* Session::handle_sequence_reset.
LEMMA HandleSequenceResetType ==
  ASSUME NEW x \in State, NEW m \in Msg, NEW o \in Oracle
  PROVE  HandleSequenceReset(x, m, o) \in State
  <1> DEFINE v == Verify(x, m, o, m.flag, m.flag)
             moved == [v EXCEPT !.next_target = m.num, !.stash = {y \in @ : y.seq >= m.num}]
  <1>1. m.flag \in BOOLEAN BY DEF Msg
  <1>2. v \in State BY <1>1, VerifyType
  <1> HIDE DEF v
  <1>3. ASSUME m.num > v.next_target PROVE moved \in State
    <2>1. m.num \in SeqNum BY <1>2, <1>3 DEF State, Msg, SeqNum
    <2>2. {y \in v.stash : y.seq >= m.num} \in SUBSET Msg BY <1>2 DEF State
    <2> QED BY <1>2, <2>1, <2>2 DEF State
  <1>4. SendReject(v, m) \in State BY <1>2, SendRejectType
  <1>5. \/ HandleSequenceReset(x, m, o) = moved /\ m.num > v.next_target
        \/ HandleSequenceReset(x, m, o) = SendReject(v, m)
        \/ HandleSequenceReset(x, m, o) = v
    BY DEF HandleSequenceReset, v
  <1> QED BY <1>2, <1>3, <1>4, <1>5

\* Session::handle_logout.
LEMMA HandleLogoutType ==
  ASSUME NEW x \in State, NEW m \in Msg, NEW o \in Oracle PROVE HandleLogout(x, m, o) \in State
  <1> DEFINE v == Verify(x, m, o, FALSE, FALSE)
             r == IncrTarget(IF v.sent_logout THEN v ELSE InitiateLogout(v))
  <1>1. v \in State BY VerifyType
  <1>2. r \in State /\ StoreReset(r) \in State
    BY <1>1, InitiateLogoutType, IncrTargetType, StoreResetType
  <1>3. \A y \in State : Return(y, "Disconnect") \in State BY ReturnType, FieldFacts
  <1>4. HandleLogout(x, m, o) \in {v, Return(StoreReset(r), "Disconnect"), Return(r, "Disconnect")}
    BY DEF HandleLogout
  <1> HIDE DEF v, r
  <1> QED BY <1>1, <1>2, <1>3, <1>4

\* Session::process.
LEMMA ProcessType ==
  ASSUME NEW x \in State, NEW m \in Msg, NEW o \in Oracle PROVE Process(x, m, o) \in State
  <1>1. Return(InitiateLogout(IncrTarget(x)), "Disconnect") \in State
    BY IncrTargetType, InitiateLogoutType, ReturnType, FieldFacts
  <1> QED BY <1>1, SendRejectType, HandleLogonType, HandleTestRequestType,
             HandleResendRequestType, HandleSequenceResetType, HandleLogoutType,
             HandlePlainType DEF Process

\* A handler's Err(Disconnect).
LEMMA AbortType == ASSUME NEW x \in State PROVE Abort(x) \in State
  <1>1. Disconnect(x) \in State BY DisconnectType
  <1> QED BY <1>1, FieldFacts DEF Abort, State

\* Session::on_inbound up to drain_stash.
LEMMA OnInboundType ==
  ASSUME NEW x \in State, NEW m \in Msg, NEW o \in Oracle PROVE OnInbound(x, m, o) \in State
  <1> DEFINE r == Process(x, m, o)
  <1>1. r \in State BY ProcessType
  <1> HIDE DEF r
  <1>2. Abort(r) \in State /\ EnterDrain(r) \in State /\ Disconnect(x) \in State
    BY <1>1, AbortType, EnterDrainType, DisconnectType
  <1>3. [r EXCEPT !.flow = "Continue"] \in State BY <1>1, FieldFacts DEF State
  <1>4. OnInbound(x, m, o) \in {Disconnect(x), x, Abort(r), [r EXCEPT !.flow = "Continue"], EnterDrain(r)}
    BY DEF OnInbound, r
  <1> QED BY <1>1, <1>2, <1>3, <1>4

\* One iteration of Session::drain_stash.
LEMMA DrainStepType ==
  ASSUME NEW x \in State, NEW m \in Msg, NEW o \in Oracle PROVE DrainStep(x, m, o) \in State
  <1> DEFINE q == [x EXCEPT !.stash = @ \ {m}, !.last_processed_was_queued = TRUE]
             r == Process(q, m, o)
  <1>1. q \in State BY DEF State
  <1>2. r \in State BY <1>1, ProcessType
  <1>3. IncrTarget(q) \in State /\ Abort(r) \in State /\ Return(r, "Continue") \in State
    BY <1>1, <1>2, IncrTargetType, AbortType, ReturnType, FieldFacts
  <1>4. DrainStep(x, m, o) \in {IncrTarget(q), Abort(r), Return(r, "Continue")}
    BY DEF DrainStep
  <1> HIDE DEF q, r
  <1> QED BY <1>3, <1>4

\* The end of Session::drain_stash.
LEMMA DrainEndType == ASSUME NEW x \in State PROVE DrainEnd(x) \in State
  <1>1. CheckResendChunks(x) \in State BY CheckResendChunksType
  <1> QED BY <1>1, FieldFacts DEF DrainEnd, State

\* Session::on_attach.
LEMMA OnAttachType ==
  ASSUME NEW x \in State, NEW open \in BOOLEAN PROVE OnAttach(x, open) \in State
  <1> DEFINE a == [x EXCEPT !.connected = TRUE, !.test_request_counter = 0]
             r == IF x.cfg.reset_on_logon THEN StoreReset(a) ELSE a
  <1>1. a \in State BY DEF State
  <1>2. r \in State BY <1>1, StoreResetType
  <1> HIDE DEF a, r
  <1>3. SendLogon(r) \in State BY <1>2, SendLogonType
  <1>4. [r EXCEPT !.pending_logon = TRUE] \in State BY <1>2 DEF State
  <1>5. OnAttach(x, open) \in {a, SendLogon(r), [r EXCEPT !.pending_logon = TRUE]}
    BY DEF OnAttach, a, r
  <1> QED BY <1>1, <1>3, <1>4, <1>5

\* Session::on_protocol_deadline.
LEMMA OnProtocolDeadlineType ==
  ASSUME NEW x \in State, NEW since_recv, NEW idle PROVE OnProtocolDeadline(x, since_recv, idle) \in State
  <1> DEFINE t == [x EXCEPT !.test_request_counter = @ + 1]
  <1>1. x.test_request_counter + 1 \in Nat BY DEF State
  <1>2. t \in State BY <1>1 DEF State
  <1> HIDE DEF t
  <1>3. WithType("TestRequest") \in Msg /\ WithType("Heartbeat") \in Msg BY WithTypeType, TypeNames
  <1>4. SendMessage(t, WithType("TestRequest")) \in State /\ SendMessage(x, WithType("Heartbeat")) \in State
    BY <1>2, <1>3, SendMessageType
  <1>5. Disconnect(x) \in State /\ Disconnect(InitiateLogout(x)) \in State
    BY DisconnectType, InitiateLogoutType
  <1>6. OnProtocolDeadline(x, since_recv, idle) \in
           {Disconnect(x), Disconnect(InitiateLogout(x)), SendMessage(t, WithType("TestRequest")),
            SendMessage(x, WithType("Heartbeat")), x}
    BY DEF OnProtocolDeadline, t
  <1> QED BY <1>4, <1>5, <1>6

\* Session::on_schedule_tick.
LEMMA OnScheduleTickType ==
  ASSUME NEW x \in State, NEW in_range, NEW same_range, NEW open
  PROVE  OnScheduleTick(x, in_range, same_range, open) \in State
  <1> DEFINE y == IF x.connected /\ IsLoggedOn(x) /\ ~x.sent_logout /\ ~open
                  THEN InitiateLogout(x) ELSE x
  <1>1. LeaveSession(x) \in State BY InitiateLogoutType, DisconnectType DEF LeaveSession
  <1>2. y \in State BY InitiateLogoutType
  <1> HIDE DEF y
  <1>3. [y EXCEPT !.pending_logon = FALSE] \in State BY <1>2 DEF State
  <1>4. SendLogon([y EXCEPT !.pending_logon = FALSE]) \in State BY <1>3, SendLogonType
  <1>5. OnScheduleTick(x, in_range, same_range, open) \in
           {LeaveSession(x), StoreReset(LeaveSession(x)), y, SendLogon([y EXCEPT !.pending_logon = FALSE])}
    BY DEF OnScheduleTick, y
  <1> QED BY <1>1, <1>2, <1>4, <1>5, StoreResetType

\* A spawned session has its type.
LEMMA SpawnedType == ASSUME NEW cfg \in Config PROVE Spawned(cfg) \in State
  <1>1. <<>> \in Seq(Nat) /\ <<>> \in Seq(Msg) BY EmptySeq
  <1>2. {} \in SUBSET Msg /\ {} \in SUBSET Saved OBVIOUS
  <1> QED BY <1>1, <1>2, FieldFacts, SeqNumFacts DEF Spawned, State
================================================================================
