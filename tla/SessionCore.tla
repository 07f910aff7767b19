------------------------------ MODULE SessionCore ------------------------------
(***************************************************************************)
(* The FIX session layer of src/session.rs as functions on a session       *)
(* record.  A session is one tokio task, so a handler runs to completion   *)
(* before the next one starts; every helper of the code is an operator     *)
(* from the record to the record, and a sequence of calls is a composition *)
(* of operators.  The two loops of the code (retransmit, drain_stash) are  *)
(* cut into one operator per iteration, with the loop's locals in the      *)
(* record; "phase" says which loop the task is inside.                     *)
(*                                                                         *)
(* What a call returns is the field "flow": "Continue" and "Stop" are the  *)
(* values of the enum Flow (Ok(()) is "Continue"), "Disconnect" is         *)
(* Err(Disconnect).                                                        *)
(***************************************************************************)
EXTENDS Integers, Sequences

CONSTANT Payloads   \* contents of application messages

(***************************************************************************)
(* Messages.  "App" stands for the application messages whose MsgType does *)
(* not begin with the letter A, "AppA" for those whose MsgType does (AE    *)
(* TradeCaptureReport, AR, AB ...); drain_stash tells them apart.          *)
(*   seq       MsgSeqNum(34), 0 when the tag is missing                    *)
(*   flag      ResetSeqNumFlag(141) of a Logon, GapFillFlag(123) of a      *)
(*             SequenceReset                                               *)
(*   num       NextExpectedMsgSeqNum(789) of a Logon, NewSeqNo(36) of a    *)
(*             SequenceReset (0: missing), BeginSeqNo(7) of a              *)
(*             ResendRequest                                               *)
(*   end       EndSeqNo(16) of a ResendRequest, 0: to infinity             *)
(*   defect    which check of the message itself fails                     *)
(***************************************************************************)
AppTypes == {"App", "AppA"}
MsgTypes == {"Logon", "Heartbeat", "TestRequest", "ResendRequest", "Reject",
             "SequenceReset", "Logout"} \cup AppTypes
Defects == {"none", "garbled", "no_msg_type", "begin_string", "dictionary",
            "no_sending_time", "comp_id", "orig_after_sending", "no_orig_sending"}
Payload == Payloads \cup {"none", "business_reject"}

Msg == [type: MsgTypes, seq: Nat, poss_dup: BOOLEAN, flag: BOOLEAN, num: Nat,
        end: Nat, payload: Payload, defect: Defects]

\* Message::with_type: a message with only its type set.
WithType(t) == [type |-> t, seq |-> 0, poss_dup |-> FALSE, flag |-> FALSE, num |-> 0,
                end |-> 0, payload |-> "none", defect |-> "none"]

\* What the environment decides while one message is handled: the verdict of
\* from_admin/from_app, whether to_app vetoes a message sent meanwhile, and
\* whether SendingTime is outside the latency window by now.
Verdicts == {"ok", "reject_logon", "reject", "unsupported"}
Oracle == [verdict: Verdicts, veto: BOOLEAN, late: BOOLEAN]

(***************************************************************************)
(* The session record: struct Session, the two sequence numbers and the    *)
(* application messages of its store, and the locals of retransmit.        *)
(* "out" holds the frames handed to the write task and "delivered" the     *)
(* MsgSeqNums given to from_app since the store was last reset; both are   *)
(* histories no operator reads.  "app_online" is what the application was  *)
(* last told: on_logon or on_logout.                                       *)
(***************************************************************************)
Config == [initiator: BOOLEAN, persist_messages: BOOLEAN, reset_on_logon: BOOLEAN,
           reset_on_logout: BOOLEAN, reset_on_disconnect: BOOLEAN,
           send_reset_seq_num_flag: BOOLEAN, send_redundant_resend_requests: BOOLEAN,
           send_next_expected: BOOLEAN, max_messages_in_resend_request: Nat,
           check_latency: BOOLEAN, check_comp_id: BOOLEAN,
           requires_orig_sending_time: BOOLEAN,
           send_logout_before_disconnect_from_timeout: BOOLEAN]

SeqNum == Nat \ {0}
ResendRange == [begin: Nat, full_end: Nat, chunk_end: Nat]
NoRange == [begin |-> 0, full_end |-> 0, chunk_end |-> 0]
Saved == [seq: SeqNum, type: AppTypes, payload: Payload]
\* seq: cursor of the loop, gap_begin: 0 is None, request: MsgSeqNum of the
\* ResendRequest being answered (0: the 789 replay after a Logon), mark: how
\* many frames of "out" precede the replay.
Replay == [begin: Nat, seq: Nat, end: Nat, gap_begin: Nat, request: Nat, mark: Nat]
NoReplay == [begin |-> 0, seq |-> 0, end |-> 0, gap_begin |-> 0, request |-> 0, mark |-> 0]
\* The write task of the connection: no frame given to it yet, at least one,
\* or ended by a failed write (it cannot fail before its first write).
Writers == {"fresh", "used", "dead"}
Flows == {"Continue", "Stop", "Disconnect"}
Phases == {"idle", "resend", "drain", "stopped"}

State == [cfg: Config, connected: BOOLEAN, writer: Writers,
          received_logon: BOOLEAN, sent_logon: BOOLEAN, sent_logout: BOOLEAN,
          sent_reset: BOOLEAN, received_reset: BOOLEAN,
          test_request_counter: Nat, resend_range: ResendRange, stash: SUBSET Msg,
          last_processed_was_queued: BOOLEAN, pending_logon: BOOLEAN,
          next_sender: SeqNum, next_target: SeqNum, saved: SUBSET Saved,
          phase: Phases, replay: Replay, flow: Flows, stopping: BOOLEAN,
          app_online: BOOLEAN, out: Seq(Msg), delivered: Seq(Nat)]

\* Session::spawn with an empty store.
Spawned(cfg) ==
    [cfg |-> cfg, connected |-> FALSE, writer |-> "fresh",
     received_logon |-> FALSE, sent_logon |-> FALSE, sent_logout |-> FALSE,
     sent_reset |-> FALSE, received_reset |-> FALSE,
     test_request_counter |-> 0, resend_range |-> NoRange, stash |-> {},
     last_processed_was_queued |-> FALSE, pending_logon |-> FALSE,
     next_sender |-> 1, next_target |-> 1, saved |-> {},
     phase |-> "idle", replay |-> NoReplay, flow |-> "Continue", stopping |-> FALSE,
     app_online |-> FALSE, out |-> <<>>, delivered |-> <<>>]

IsLoggedOn(s) == s.received_logon /\ s.sent_logon

Return(s, flow) == [s EXCEPT !.flow = flow]

--------------------------------------------------------------------------------
(***************************************************************************)
(* The store, as the session uses it: MessageStore without I/O errors.     *)
(***************************************************************************)
\* Mutant: the target number restarts at 0.
StoreResetToZero(s) == [s EXCEPT !.next_sender = 1, !.next_target = 0, !.saved = {},
                                 !.delivered = <<>>]

StoreReset(s) == [s EXCEPT !.next_sender = 1, !.next_target = 1, !.saved = {},
                           !.delivered = <<>>]

IncrTarget(s) == [s EXCEPT !.next_target = @ + 1]

\* save_message_and_incr; a stored administrative message and a missing one
\* are the same to every reader, so only application messages are kept.
SaveAndIncr(s, f) ==
    [s EXCEPT !.next_sender = @ + 1,
              !.saved = {x \in @ : x.seq # f.seq} \cup
                        (IF f.type \in AppTypes
                         THEN {[seq |-> f.seq, type |-> f.type, payload |-> f.payload]}
                         ELSE {})]

\* BTreeMap::insert into the stash.
StashInsert(s, m) == [s EXCEPT !.stash = {x \in @ : x.seq # m.seq} \cup {m}]

--------------------------------------------------------------------------------
(***************************************************************************)
(* Disconnecting and sending.                                              *)
(***************************************************************************)
\* Mutant: the logon flags survive the connection.
DisconnectKeepsLogon(s) ==
    IF s.connected THEN [s EXCEPT !.connected = FALSE, !.stash = {}] ELSE s

\* Mutant: the outstanding request survives the connection.
DisconnectKeepsRange(s) ==
    IF s.connected
    THEN [s EXCEPT !.connected = FALSE, !.writer = "fresh", !.received_logon = FALSE,
                   !.sent_logon = FALSE, !.sent_logout = FALSE, !.sent_reset = FALSE,
                   !.received_reset = FALSE, !.test_request_counter = 0, !.stash = {},
                   !.app_online = FALSE]
    ELSE s

Disconnect(s) ==
    IF ~s.connected THEN s
    ELSE LET r == [s EXCEPT !.connected = FALSE, !.writer = "fresh",
                            !.received_logon = FALSE, !.sent_logon = FALSE, !.sent_logout = FALSE,
                            !.sent_reset = FALSE, !.received_reset = FALSE,
                            !.test_request_counter = 0, !.resend_range = NoRange,
                            !.stash = {},
                            !.app_online = @ /\ ~(s.received_logon \/ s.sent_logon)]
         IN  IF s.cfg.reset_on_disconnect THEN StoreReset(r) ELSE r

Transmit(s, f) ==
    CASE ~s.connected                       -> s
      [] s.connected /\ s.writer = "dead"   -> Disconnect(s)
      [] s.connected /\ s.writer # "dead"   -> [s EXCEPT !.out = Append(@, f), !.writer = "used"]

\* Session control always goes out, everything else once a Logon was sent.
SendMessage(s, m) ==
    LET f == [m EXCEPT !.seq = s.next_sender, !.poss_dup = FALSE]
        r == IF s.cfg.persist_messages
             THEN SaveAndIncr(s, f)
             ELSE [s EXCEPT !.next_sender = @ + 1]
    IN  IF s.sent_logon \/ m.type \in {"Logon", "Logout", "ResendRequest", "SequenceReset"}
        THEN Transmit(r, f)
        ELSE r

SendLogon(s) ==
    LET should_reset == \/ s.cfg.send_reset_seq_num_flag
                        \/ /\ s.cfg.reset_on_logon
                           /\ s.next_sender = 1
                           /\ s.next_target = 1
    IN  SendMessage([s EXCEPT !.sent_reset = @ \/ should_reset, !.sent_logon = TRUE],
                    [WithType("Logon") EXCEPT
                        !.flag = should_reset,
                        !.num = IF s.cfg.send_next_expected THEN s.next_target ELSE 0])

SendLogonReply(s) ==
    SendMessage([s EXCEPT !.sent_reset = @ \/ s.received_reset, !.sent_logon = TRUE],
                [WithType("Logon") EXCEPT
                    !.flag = s.received_reset /\ s.cfg.send_next_expected,
                    !.num = IF s.cfg.send_next_expected THEN s.next_target + 1 ELSE 0])

InitiateLogout(s) == SendMessage([s EXCEPT !.sent_logout = TRUE], WithType("Logout"))

SendReject(s, m) ==
    SendMessage(IF m.type \notin {"Logon", "SequenceReset"} /\ m.seq = s.next_target
                THEN IncrTarget(s) ELSE s,
                WithType("Reject"))

\* BusinessMessageReject(j) is an application message: to_app may veto it.
SendBusinessReject(s, o) ==
    IF o.veto THEN IncrTarget(s)
    ELSE SendMessage(IncrTarget(s), [WithType("App") EXCEPT !.payload = "business_reject"])

SendResendRequest(s, begin, received) ==
    LET full_end  == received - 1
        max       == s.cfg.max_messages_in_resend_request
        capped    == max # 0 /\ begin + max - 1 < full_end
        chunk_end == IF capped THEN begin + max - 1 ELSE full_end
    IN  SendMessage([s EXCEPT !.resend_range = [begin |-> begin, full_end |-> full_end,
                                                chunk_end |-> chunk_end]],
                    [WithType("ResendRequest") EXCEPT
                        !.num = begin, !.end = IF max = 0 THEN 0 ELSE chunk_end])

\* Mutant: a satisfied range stays recorded.
CheckResendChunksNever(s) == s

CheckResendChunks(s) ==
    LET r == s.resend_range
    IN  CASE r = NoRange \/ s.next_target <= r.chunk_end -> s
          [] r # NoRange /\ r.chunk_end < s.next_target /\ s.next_target <= r.full_end ->
                SendResendRequest(s, s.next_target, r.full_end + 1)
          [] OTHER -> [s EXCEPT !.resend_range = NoRange]

GapFill(begin, new_seq) ==
    [WithType("SequenceReset") EXCEPT !.seq = begin, !.poss_dup = TRUE, !.flag = TRUE,
                                      !.num = new_seq]

SendGapFill(s, begin, new_seq) == Transmit(s, GapFill(begin, new_seq))

--------------------------------------------------------------------------------
(***************************************************************************)
(* The verify pipeline.                                                    *)
(***************************************************************************)
ValidLogonState(s, t) ==
    \/ t = "Logon" /\ (s.sent_reset \/ s.received_reset \/ ~s.received_logon)
    \/ t # "Logon" /\ s.received_logon
    \/ t = "Logout" /\ s.sent_logon
    \/ t # "Logout" /\ s.sent_logout
    \/ t \in {"SequenceReset", "Reject"}

OnTargetTooHigh(s, m) ==
    LET r == StashInsert(s, m)
    IN  IF s.resend_range # NoRange /\ ~s.cfg.send_redundant_resend_requests
        THEN r
        ELSE SendResendRequest(r, s.next_target, m.seq)

OnTargetTooLow(s, m) ==
    LET orig_checked == m.type # "SequenceReset" /\ s.cfg.requires_orig_sending_time
    IN  CASE ~m.poss_dup -> Return(InitiateLogout(s), "Disconnect")
          [] m.poss_dup /\ orig_checked /\ m.defect = "orig_after_sending" ->
                Return(InitiateLogout(SendReject(s, m)), "Stop")
          [] m.poss_dup /\ orig_checked /\ m.defect = "no_orig_sending" ->
                Return(SendReject(s, m), "Stop")
          [] OTHER -> Return(s, "Stop")

\* The last stage of verify: the message is alive and goes to the application.
Callback(s, m, o) ==
    LET r == [s EXCEPT !.test_request_counter = 0,
                       !.delivered = IF m.type \in AppTypes THEN Append(@, m.seq) ELSE @]
    IN  CASE o.verdict = "ok"           -> Return(r, "Continue")
          [] o.verdict = "reject_logon" -> Return(InitiateLogout(IncrTarget(r)), "Disconnect")
          [] o.verdict = "reject"       -> Return(SendReject(r, m), "Stop")
          [] o.verdict = "unsupported"  -> Return(SendBusinessReject(r, o), "Stop")

\* A too-low GapFill straight after a stash replay is obeyed anyway.
ObeyAnyway(s, m) == s.last_processed_was_queued /\ m.type = "SequenceReset" /\ m.flag

\* Mutant: the number just consumed is not yet too low.
CheckSeqNumLax(s, m, o, check_too_high, check_too_low) ==
    CASE (check_too_high \/ check_too_low) /\ m.seq = 0 -> Return(SendReject(s, m), "Stop")
      [] check_too_high /\ m.seq > s.next_target -> Return(OnTargetTooHigh(s, m), "Stop")
      [] check_too_low /\ m.seq # 0 /\ m.seq + 1 < s.next_target -> OnTargetTooLow(s, m)
      [] OTHER -> Callback(s, m, o)

CheckSeqNum(s, m, o, check_too_high, check_too_low) ==
    CASE (check_too_high \/ check_too_low) /\ m.seq = 0 -> Return(SendReject(s, m), "Stop")
      [] check_too_high /\ m.seq > s.next_target -> Return(OnTargetTooHigh(s, m), "Stop")
      [] check_too_low /\ m.seq # 0 /\ m.seq < s.next_target /\ ~ObeyAnyway(s, m) ->
            OnTargetTooLow(s, m)
      [] OTHER -> Callback(s, m, o)

Verify(s, m, o, check_too_high, check_too_low) ==
    IF ~ValidLogonState(s, m.type) THEN Return(s, "Disconnect")
    ELSE IF m.defect = "no_sending_time" THEN Return(SendReject(s, m), "Stop")
    ELSE IF \/ s.cfg.check_latency /\ o.late
            \/ s.cfg.check_comp_id /\ m.defect = "comp_id"
         THEN Return(InitiateLogout(SendReject(s, m)), "Stop")
    ELSE CheckSeqNum(s, m, o, check_too_high, check_too_low)

--------------------------------------------------------------------------------
(***************************************************************************)
(* Answering a resend request: one step of the retransmit loop per         *)
(* sequence number, then the caller's own end.                             *)
(***************************************************************************)
\* After the answer a ResendRequest consumes its own number if in sequence.
ConsumeRequest(s, request) ==
    IF request # 0 /\ request = s.next_target THEN IncrTarget(s) ELSE s

AnswerResend(s, begin, end, request) ==
    CASE begin > end -> ConsumeRequest(s, request)
      [] begin <= end /\ s.cfg.persist_messages ->
            [s EXCEPT !.phase = "resend",
                      !.replay = [begin |-> begin, seq |-> begin, end |-> end,
                                  gap_begin |-> 0, request |-> request,
                                  mark |-> Len(s.out)]]
      [] begin <= end /\ ~s.cfg.persist_messages ->
            ConsumeRequest(SendGapFill(s, begin, end + 1), request)

\* Mutant: a message is resent without filling the gap before it.
RetransmitSkipsGap(s, veto) ==
    LET p     == s.replay
        found == {x \in s.saved : x.seq = p.seq}
        next  == [s EXCEPT !.replay.seq = p.seq + 1]
    IN  IF found = {} \/ veto
        THEN [next EXCEPT !.replay.gap_begin = IF p.gap_begin = 0 THEN p.seq ELSE @]
        ELSE Transmit([next EXCEPT !.replay.gap_begin = 0],
                      [WithType("App") EXCEPT !.seq = p.seq, !.poss_dup = TRUE])

\* One iteration of the loop: resend the stored application message, or let
\* the gap that will be filled grow.
RetransmitStep(s, veto) ==
    LET p     == s.replay
        found == {x \in s.saved : x.seq = p.seq}
        next  == [s EXCEPT !.replay.seq = p.seq + 1]
    IN  IF found = {} \/ veto
        THEN [next EXCEPT !.replay.gap_begin = IF p.gap_begin = 0 THEN p.seq ELSE @]
        ELSE LET x      == CHOOSE x \in found : TRUE
                 frame  == [WithType(x.type) EXCEPT !.seq = x.seq, !.poss_dup = TRUE,
                                                    !.payload = x.payload]
                 filled == IF p.gap_begin = 0 THEN next
                           ELSE SendGapFill(next, p.gap_begin, p.seq)
             IN  Transmit([filled EXCEPT !.replay.gap_begin = 0], frame)

EnterDrain(s) == [s EXCEPT !.phase = "drain", !.last_processed_was_queued = FALSE,
                           !.replay = NoReplay, !.flow = "Continue"]

\* Mutant: the last GapFill stops one short of the range.
RetransmitEndShort(s) ==
    LET p == s.replay
        r == IF p.gap_begin = 0 THEN s ELSE SendGapFill(s, p.gap_begin, p.end)
    IN  EnterDrain(ConsumeRequest(r, p.request))

\* Mutant: the last GapFill goes one beyond the range.
RetransmitEndLong(s) ==
    LET p == s.replay
        r == IF p.gap_begin = 0 THEN s ELSE SendGapFill(s, p.gap_begin, p.end + 2)
    IN  EnterDrain(ConsumeRequest(r, p.request))

RetransmitEnd(s) ==
    LET p == s.replay
        r == IF p.gap_begin = 0 THEN s ELSE SendGapFill(s, p.gap_begin, p.end + 1)
    IN  EnterDrain(ConsumeRequest(r, p.request))

--------------------------------------------------------------------------------
(***************************************************************************)
(* The handlers.                                                           *)
(***************************************************************************)
\* The Logon is accepted: reply, account for its number, tell the application,
\* replay what the peer says it misses.
AcceptLogon(s, m) ==
    LET gap == IF s.cfg.send_next_expected /\ m.num # 0 /\ m.num < s.next_sender
               THEN m.num ELSE 0
        r1  == IF s.cfg.initiator THEN s ELSE SendLogonReply(s)
        r2  == [r1 EXCEPT !.sent_reset = FALSE, !.received_reset = FALSE]
        r3  == CASE m.seq <= r2.next_target -> IncrTarget(r2)
                 [] m.seq > r2.next_target /\ s.cfg.send_next_expected /\ ~m.flag ->
                       [StashInsert(r2, m) EXCEPT
                           !.resend_range = [begin |-> r2.next_target, full_end |-> m.seq - 1,
                                             chunk_end |-> m.seq - 1]]
                 [] OTHER -> OnTargetTooHigh(r2, m)
        r4  == [r3 EXCEPT !.app_online = @ \/ IsLoggedOn(r3)]
    IN  IF gap # 0 THEN AnswerResend(r4, gap, r4.next_sender - 1, 0) ELSE r4

\* What the Logon's own flags do before it is verified.
LogonResets(s, m) ==
    LET r == [s EXCEPT !.received_reset = @ \/ m.flag]
    IN  IF \/ m.flag /\ ~s.sent_reset
           \/ ~s.cfg.initiator /\ s.cfg.reset_on_logon /\ ~r.received_reset
        THEN StoreReset(r)
        ELSE r

HandleLogon(s, m, o) ==
    IF s.cfg.check_latency /\ (o.late \/ m.defect = "no_sending_time")
    THEN Return(s, "Disconnect")
    ELSE LET r == LogonResets(s, m)
             v == Verify(r, m, o, FALSE, TRUE)
             a == [v EXCEPT !.received_logon = TRUE]
         IN  IF s.cfg.initiator /\ ~s.sent_logon THEN Return(r, "Disconnect")
             ELSE IF v.flow # "Continue" THEN v
             ELSE IF s.cfg.send_next_expected /\ m.num > a.next_sender
                  THEN Return(InitiateLogout(a), "Disconnect")
             ELSE AcceptLogon(a, m)

\* Heartbeat, Reject and application messages: verify, then consume.
HandlePlain(s, m, o) ==
    LET v == Verify(s, m, o, TRUE, TRUE)
    IN  IF v.flow = "Continue" THEN IncrTarget(v) ELSE v

HandleTestRequest(s, m, o) ==
    LET v == Verify(s, m, o, TRUE, TRUE)
    IN  IF v.flow = "Continue" THEN IncrTarget(SendMessage(v, WithType("Heartbeat"))) ELSE v

HandleResendRequest(s, m, o) ==
    LET v   == Verify(s, m, o, FALSE, FALSE)
        end == IF m.end = 0 \/ m.end >= v.next_sender THEN v.next_sender - 1 ELSE m.end
    IN  IF v.flow = "Continue" THEN AnswerResend(v, m.num, end, m.seq) ELSE v

\* Mutant: the stash keeps what the GapFill superseded.
SequenceResetKeepsStash(s, m, o) ==
    LET v == Verify(s, m, o, m.flag, m.flag)
    IN  CASE v.flow = "Continue" /\ m.num > v.next_target -> [v EXCEPT !.next_target = m.num]
          [] v.flow = "Continue" /\ m.num # 0 /\ m.num < v.next_target -> SendReject(v, m)
          [] OTHER -> v

HandleSequenceReset(s, m, o) ==
    LET v == Verify(s, m, o, m.flag, m.flag)
    IN  CASE v.flow = "Continue" /\ m.num > v.next_target ->
                [v EXCEPT !.next_target = m.num, !.stash = {x \in @ : x.seq >= m.num}]
          [] v.flow = "Continue" /\ m.num # 0 /\ m.num < v.next_target -> SendReject(v, m)
          [] OTHER -> v

HandleLogout(s, m, o) ==
    LET v == Verify(s, m, o, FALSE, FALSE)
        r == IncrTarget(IF v.sent_logout THEN v ELSE InitiateLogout(v))
    IN  IF v.flow # "Continue" THEN v
        ELSE Return(IF s.cfg.reset_on_logout THEN StoreReset(r) ELSE r, "Disconnect")

Process(s, m, o) ==
    CASE m.defect = "no_msg_type"  -> s
      [] m.defect = "begin_string" -> Return(InitiateLogout(IncrTarget(s)), "Disconnect")
      [] m.defect = "dictionary"   -> SendReject(s, m)
      [] OTHER ->
            CASE m.type = "Logon"         -> HandleLogon(s, m, o)
              [] m.type = "TestRequest"   -> HandleTestRequest(s, m, o)
              [] m.type = "ResendRequest" -> HandleResendRequest(s, m, o)
              [] m.type = "SequenceReset" -> HandleSequenceReset(s, m, o)
              [] m.type = "Logout"        -> HandleLogout(s, m, o)
              [] OTHER                    -> HandlePlain(s, m, o)

\* A handler's Err(Disconnect), as on_inbound treats it.
Abort(s) == [Disconnect(s) EXCEPT !.flow = "Continue", !.phase = "idle", !.replay = NoReplay]

OnInbound(s, m, o) ==
    LET r == Process(s, m, o)
    IN  CASE m.defect = "garbled" ->
                IF ~s.received_logon /\ m.type \in {"Logon", "AppA"} THEN Disconnect(s) ELSE s
          [] m.defect # "garbled" /\ r.flow = "Disconnect" -> Abort(r)
          [] OTHER -> IF r.phase = "resend" THEN [r EXCEPT !.flow = "Continue"] ELSE EnterDrain(r)

\* Mutant: every queued message only advances the number.
OnlyAdvancesAll(m) == m.type \in MsgTypes

\* A raw message that contains_field finds "35=A" or "35=2" in: a Logon or a
\* ResendRequest, and also every MsgType that begins with A.
OnlyAdvances(m) == m.type \in {"Logon", "ResendRequest", "AppA"}

InStash(s) == {m \in s.stash : m.seq = s.next_target}

\* One iteration of drain_stash.
DrainStep(s, m, o) ==
    LET q == [s EXCEPT !.stash = @ \ {m}, !.last_processed_was_queued = TRUE]
        r == Process(q, m, o)
    IN  IF OnlyAdvances(m) THEN IncrTarget(q)
        ELSE IF r.flow = "Disconnect" THEN Abort(r)
        ELSE Return(r, "Continue")

DrainEnd(s) == [CheckResendChunks(s) EXCEPT !.phase = "idle"]

--------------------------------------------------------------------------------
(***************************************************************************)
(* Connections, timers and the schedule.                                   *)
(***************************************************************************)
OnAttach(s, logon_open) ==
    LET a == [s EXCEPT !.connected = TRUE, !.test_request_counter = 0]
        r == IF s.cfg.reset_on_logon THEN StoreReset(a) ELSE a
    IN  IF ~s.cfg.initiator THEN a
        ELSE IF logon_open THEN SendLogon(r)
        ELSE [r EXCEPT !.pending_logon = TRUE]

\* since_recv is how long the peer was silent and idle whether nothing was
\* sent for HeartBtInt.
Silences == {"short", "test", "dead"}
OnProtocolDeadline(s, since_recv, idle) ==
    IF s.sent_logout \/ ~s.received_logon
    THEN Disconnect(s)
    ELSE CASE since_recv = "dead" ->
                 Disconnect(IF s.cfg.send_logout_before_disconnect_from_timeout
                            THEN InitiateLogout(s) ELSE s)
           [] since_recv = "test" /\ s.test_request_counter = 0 ->
                 SendMessage([s EXCEPT !.test_request_counter = @ + 1],
                             WithType("TestRequest"))
           [] since_recv = "short" /\ idle /\ s.test_request_counter = 0 ->
                 SendMessage(s, WithType("Heartbeat"))
           [] OTHER -> s

\* Log out, if that is still to be done, and drop the connection.
LeaveSession(s) ==
    Disconnect(IF s.connected /\ IsLoggedOn(s) /\ ~s.sent_logout THEN InitiateLogout(s) ELSE s)

OnScheduleTick(s, in_range, same_range, logon_open) ==
    LET out == IF s.connected /\ IsLoggedOn(s) /\ ~s.sent_logout /\ ~logon_open
               THEN InitiateLogout(s) ELSE s
    IN  CASE ~in_range -> LeaveSession(s)
          [] in_range /\ ~same_range -> StoreReset(LeaveSession(s))
          [] OTHER -> IF out.pending_logon /\ out.connected /\ ~out.sent_logon /\ logon_open
                      THEN SendLogon([out EXCEPT !.pending_logon = FALSE])
                      ELSE out
================================================================================
