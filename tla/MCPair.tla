--------------------------------- MODULE MCPair ---------------------------------
(* Pairs of configurations. *)
EXTENDS Pair

\* The defaults of settings.rs.
Defaults ==
    [initiator |-> FALSE, persist_messages |-> TRUE, reset_on_logon |-> FALSE,
     reset_on_logout |-> FALSE, reset_on_disconnect |-> FALSE,
     send_reset_seq_num_flag |-> FALSE, send_redundant_resend_requests |-> FALSE,
     send_next_expected |-> FALSE, max_messages_in_resend_request |-> 0,
     check_latency |-> TRUE, check_comp_id |-> TRUE, requires_orig_sending_time |-> TRUE,
     send_logout_before_disconnect_from_timeout |-> FALSE]

Two(cfg) == [side \in Sides |-> [cfg EXCEPT !.initiator = side = "initiator"]]

WithSends(cfgs, sends) == [side \in Sides |-> [config |-> cfgs[side], sends |-> sends[side]]]

MCPairs ==
    {WithSends(Two(Defaults), [side \in Sides |-> 1]),
     WithSends(Two([Defaults EXCEPT !.max_messages_in_resend_request = 1]), [initiator |-> 0, acceptor |-> 2])}
================================================================================
