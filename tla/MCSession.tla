------------------------------- MODULE MCSession -------------------------------
(***************************************************************************)
(* Small instances of Session for TLC: configurations and the frames a     *)
(* peer may send.                                                          *)
(***************************************************************************)
EXTENDS Session

\* The defaults of settings.rs for an acceptor.
Acceptor ==
    [initiator |-> FALSE, persist_messages |-> TRUE, reset_on_logon |-> FALSE,
     reset_on_logout |-> FALSE, reset_on_disconnect |-> FALSE,
     send_reset_seq_num_flag |-> FALSE, send_redundant_resend_requests |-> FALSE,
     send_next_expected |-> FALSE, max_messages_in_resend_request |-> 0,
     check_latency |-> FALSE, check_comp_id |-> TRUE, requires_orig_sending_time |-> TRUE,
     send_logout_before_disconnect_from_timeout |-> FALSE]
Initiator == [Acceptor EXCEPT !.initiator = TRUE]

Plain == {Acceptor, Initiator}
Gapped == Plain \cup {[Acceptor EXCEPT !.max_messages_in_resend_request = 1]}
Variant ==
    {[Acceptor EXCEPT !.max_messages_in_resend_request = 1],
     [Acceptor EXCEPT !.reset_on_disconnect = TRUE, !.reset_on_logon = TRUE],
     [Acceptor EXCEPT !.send_next_expected = TRUE],
     [Initiator EXCEPT !.reset_on_logon = TRUE, !.persist_messages = FALSE,
                       !.send_logout_before_disconnect_from_timeout = TRUE],
     [Initiator EXCEPT !.send_redundant_resend_requests = TRUE, !.reset_on_logout = TRUE,
                       !.check_latency = TRUE]}

Numbered(t, ns) == {[WithType(t) EXCEPT !.seq = n] : n \in ns}
Dup(ms) == {[m EXCEPT !.poss_dup = TRUE] : m \in ms}
Flawed(m, ds) == {[m EXCEPT !.defect = d] : d \in ds}

Logons == Numbered("Logon", 1..2)
ResetLogon == [WithType("Logon") EXCEPT !.seq = 1, !.flag = TRUE]
GapFills == {[WithType("SequenceReset") EXCEPT !.seq = 2, !.num = n, !.flag = TRUE,
                                               !.poss_dup = TRUE] : n \in {1, 4}}

\* Frames for gap detection and recovery.
Recovery ==
    Logons \cup Numbered("App", 2..5) \cup Dup(Numbered("App", {2, 3})) \cup GapFills
    \cup {[WithType("SequenceReset") EXCEPT !.seq = 2, !.num = 5]}
    \cup Numbered("Logout", {2, 4}) \cup Numbered("TestRequest", {3})
    \cup {[WithType("ResendRequest") EXCEPT !.seq = n, !.num = 1] : n \in {2, 3}}

\* Frames that fail a check, and the 789 and 141 forms of the Logon.
Checks ==
    Logons \cup Numbered("App", {2, 0}) \cup {ResetLogon}
    \cup {[WithType("Logon") EXCEPT !.seq = 1, !.num = n] : n \in {1, 3}}
    \cup {[WithType("ResendRequest") EXCEPT !.seq = 2, !.num = 1, !.end = 1]}
    \cup Numbered("Heartbeat", {2}) \cup Numbered("Reject", {1})
    \cup Flawed([WithType("App") EXCEPT !.seq = 2], Defects)
    \cup Flawed([WithType("App") EXCEPT !.seq = 1, !.poss_dup = TRUE],
                {"orig_after_sending", "no_orig_sending"})
    \cup Flawed([WithType("Logon") EXCEPT !.seq = 1], {"garbled", "no_sending_time"})

\* A short dialogue: enough for a message too early and out of turn, a reset and a resend.
Dialogue ==
    Numbered("Logon", {1}) \cup {ResetLogon} \cup Numbered("App", 2..3)
    \cup {[WithType("ResendRequest") EXCEPT !.seq = 2, !.num = 1]}

\* Frames whose CompID check fails: the session rejects, then logs out.
Stale == Logons \cup Flawed([WithType("App") EXCEPT !.seq = 2], {"none", "comp_id"})

\* Application messages whose MsgType begins with A.
TradeCapture == Logons \cup Numbered("AppA", 2..3) \cup Numbered("App", 2..3)
================================================================================
