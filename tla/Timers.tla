--------------------------------- MODULE Timers ---------------------------------
(***************************************************************************)
(* The protocol deadlines of a session (next_protocol_deadline and         *)
(* on_protocol_deadline of src/session.rs) over a discrete clock.          *)
(*                                                                         *)
(* The instants last_sent and last_received are kept as the time that has  *)
(* passed since, up to Horizon, beyond every deadline.  A HeartBtInt of    *)
(* five units makes 1.2 and 2.4 of it whole numbers.                       *)
(***************************************************************************)
EXTENDS Naturals

CONSTANTS
    Units,          \* HeartBtInt is 5 * Units
    logon_timeout, logout_timeout,
    StoreFails,     \* the message store may refuse a message
    OutOfOrder,     \* the peer may send numbers above the expected one
    SendsInLogout   \* messages may be sent while the Logout is unanswered

ASSUME TimersAssumption ==
    /\ Units \in Nat \ {0}
    /\ logon_timeout \in Nat \ {0} /\ logout_timeout \in Nat \ {0}
    /\ {StoreFails, OutOfOrder, SendsInLogout} \subseteq BOOLEAN

VARIABLES
    connected, received_logon, sent_logout,
    hbi,            \* heart_bt_int
    since_sent, since_recv,
    test_request_counter,
    since_heard,    \* history: the time since the peer's last message
    silent,         \* history: the peer sends nothing any more
    fired           \* history: the last step was on_protocol_deadline

flags == <<connected, received_logon, sent_logout, hbi>>
clocks == <<since_sent, since_recv, since_heard>>
vars == <<flags, clocks, test_request_counter, silent, fired>>

Largest(S) == CHOOSE n \in S : \A k \in S : k <= n
Horizon == Largest({12 * Units, logon_timeout, logout_timeout}) + 1
Older(age) == IF age < Horizon THEN age + 1 ELSE age

Init == /\ connected = FALSE /\ received_logon = FALSE /\ sent_logout = FALSE
        /\ hbi \in {0, 5 * Units}
        /\ since_sent = 0 /\ since_recv = 0 /\ since_heard = 0
        /\ test_request_counter = 0
        /\ silent = FALSE
        /\ fired = FALSE

\* mul(hbi, 1.2 * n) and mul(hbi, 2.4)
Silence(n) == n * (6 * (hbi \div 5))

--------------------------------------------------------------------------------
\* Mutant: the Logout has no deadline of its own.
DueWithoutLogout ==
    /\ connected
    /\ IF ~received_logon THEN since_recv >= logon_timeout
       ELSE /\ hbi # 0
            /\ \/ since_recv >= Silence(2)
               \/ since_recv >= Silence(test_request_counter + 1)
               \/ test_request_counter = 0 /\ since_sent >= hbi

\* next_protocol_deadline: sleep_until has fired.  The deadline is a minimum,
\* so it is due when one of its terms is.
Due == /\ connected
       /\ CASE sent_logout -> since_sent >= logout_timeout
            [] ~sent_logout /\ ~received_logon -> since_recv >= logon_timeout
            [] OTHER -> /\ hbi # 0
                        /\ \/ since_recv >= Silence(2)
                           \/ since_recv >= Silence(test_request_counter + 1)
                           \/ test_request_counter = 0 /\ since_sent >= hbi

Disconnect == /\ connected' = FALSE /\ received_logon' = FALSE /\ sent_logout' = FALSE
              /\ test_request_counter' = 0
              /\ UNCHANGED <<hbi, clocks, silent>>

\* A message is sent, or the store refuses it: last_sent is set by transmit.
\* A write that fails disconnects: the step is then followed by Close.
Transmit == /\ \/ since_sent' = 0
               \/ StoreFails /\ UNCHANGED since_sent
            /\ UNCHANGED <<since_recv, since_heard, silent>>

\* Mutant: the test request is not counted.
SendTestRequestUncounted ==
    /\ Transmit
    /\ UNCHANGED <<test_request_counter, flags>>

SendTestRequest ==
    /\ test_request_counter' = test_request_counter + 1
    /\ Transmit
    /\ UNCHANGED flags

SendHeartbeat == /\ Transmit
                 /\ UNCHANGED <<flags, test_request_counter>>

\* Mutant: the connection is given up when the test request is due.
TimedOutEarly == since_recv >= Silence(1)

\* The peer was not heard for 2.4 HeartBtInt.
TimedOut == since_recv >= Silence(2)

\* on_protocol_deadline; the alternatives in the order of the code.
OnProtocolDeadline ==
    /\ Due
    /\ fired' = TRUE
    /\ \/ sent_logout /\ Disconnect
       \/ ~sent_logout /\ ~received_logon /\ Disconnect
       \/ /\ ~sent_logout /\ received_logon
          /\ \/ TimedOut /\ Disconnect
             \/ /\ ~TimedOut /\ since_recv >= Silence(test_request_counter + 1)
                /\ SendTestRequest
             \/ /\ ~TimedOut /\ since_recv < Silence(test_request_counter + 1)
                /\ SendHeartbeat

--------------------------------------------------------------------------------
\* on_attach
Attach == /\ ~connected
          /\ connected' = TRUE
          /\ since_sent' = 0 /\ since_recv' = 0 /\ since_heard' = 0
          /\ test_request_counter' = 0
          /\ silent' = FALSE
          /\ fired' = FALSE
          /\ UNCHANGED <<received_logon, sent_logout, hbi>>

\* handle_logon; an acceptor takes over HeartBtInt from the Logon.
ReceiveLogon ==
    /\ connected /\ ~received_logon /\ ~silent
    /\ received_logon' = TRUE
    /\ hbi' \in {0, 5 * Units}
    /\ since_sent' = 0 /\ since_recv' = 0 /\ since_heard' = 0
    /\ test_request_counter' = 0
    /\ fired' = FALSE
    /\ UNCHANGED <<connected, sent_logout, silent>>

\* A message in sequence: verify sets last_received.
Receive ==
    /\ connected /\ received_logon /\ ~silent
    /\ since_recv' = 0 /\ since_heard' = 0
    /\ test_request_counter' = 0
    /\ fired' = FALSE
    /\ UNCHANGED <<flags, since_sent, silent>>

\* A message ahead of a gap, or one that was seen before: verify returns
\* before last_received is set.
ReceiveOutOfOrder ==
    /\ OutOfOrder
    /\ connected /\ received_logon /\ ~silent
    /\ since_heard' = 0
    /\ fired' = FALSE
    /\ UNCHANGED <<flags, since_sent, since_recv, test_request_counter, silent>>

\* The application sends, or a handler answers.
Send == /\ connected /\ received_logon
        /\ sent_logout => SendsInLogout
        /\ Transmit
        /\ fired' = FALSE
        /\ UNCHANGED <<flags, test_request_counter>>

InitiateLogout ==
    /\ connected /\ ~sent_logout
    /\ sent_logout' = TRUE
    /\ Transmit
    /\ fired' = FALSE
    /\ UNCHANGED <<connected, received_logon, hbi, test_request_counter>>

\* Any other reason to disconnect.
Close == connected /\ Disconnect /\ fired' = FALSE

PeerDies == /\ connected /\ ~silent
            /\ silent' = TRUE
            /\ fired' = FALSE
            /\ UNCHANGED <<flags, clocks, test_request_counter>>

Advance == /\ connected
           /\ since_sent' = Older(since_sent)
           /\ since_recv' = Older(since_recv)
           /\ since_heard' = Older(since_heard)
           /\ fired' = FALSE
           /\ UNCHANGED <<flags, test_request_counter, silent>>

Next == \/ OnProtocolDeadline \/ Attach \/ ReceiveLogon \/ Receive \/ ReceiveOutOfOrder
        \/ Send \/ InitiateLogout \/ Close \/ PeerDies \/ Advance

\* Time passes, and select! takes a timer that has fired.
Spec == /\ Init /\ [][Next]_vars
        /\ WF_vars(Advance)
        /\ SF_vars(OnProtocolDeadline)

--------------------------------------------------------------------------------
TypeOK == /\ {connected, received_logon, sent_logout, silent, fired} \subseteq BOOLEAN
          /\ since_sent \in 0..Horizon /\ since_recv \in 0..Horizon
          /\ since_heard \in 0..since_recv
          /\ test_request_counter \in 0..1

\* The timer is not due again at once: handling a deadline moves it into the
\* future ("... recomputing a later deadline").
NoSpin == fired => ~Due

\* Only a peer that was not heard for the time of its timeout is given up.
GivenUpIsSilent ==
    [][(OnProtocolDeadline /\ ~connected' /\ ~sent_logout) =>
            since_heard >= IF received_logon THEN Silence(2) ELSE logon_timeout]_vars

\* A peer that dies is noticed, before and after its Logon, unless heartbeats
\* are turned off.
DeadPeerNoticed == (connected /\ silent /\ (hbi # 0 \/ ~received_logon)) ~> ~connected

\* A Logout that is not answered ends the connection.
LogoutTimesOut == (connected /\ sent_logout) ~> ~connected
================================================================================
