------------------------------ MODULE TimersProofs ------------------------------
(***************************************************************************)
(* The deadlines of a session for every HeartBtInt and every timeout.      *)
(***************************************************************************)
EXTENDS Timers, TLAPS

\* The types; HeartBtInt is off or the configured one.
Shape == /\ connected \in BOOLEAN /\ received_logon \in BOOLEAN /\ sent_logout \in BOOLEAN
         /\ silent \in BOOLEAN /\ fired \in BOOLEAN
         /\ hbi \in {0, 5 * Units}
         /\ since_sent \in 0..Horizon /\ since_recv \in 0..Horizon
         /\ since_heard \in 0..since_recv
         /\ test_request_counter \in 0..1

\* Without a gap every message of the peer moves last_received.
Heard == OutOfOrder = FALSE => since_heard = since_recv

--------------------------------------------------------------------------------
LEMMA LargestNat ==
  ASSUME NEW a \in Nat, NEW b \in Nat, NEW c \in Nat
  PROVE  Largest({a, b, c}) \in Nat
  <1>1. \E n \in {a, b, c} : \A k \in {a, b, c} : k <= n
    <2>1. CASE b <= a /\ c <= a BY <2>1
    <2>2. CASE a <= b /\ c <= b BY <2>2
    <2>3. CASE a <= c /\ b <= c BY <2>3
    <2> QED BY <2>1, <2>2, <2>3
  <1> QED BY <1>1 DEF Largest

LEMMA HorizonNat == Horizon \in Nat /\ Units \in Nat /\ 12 * Units \in Nat
  <1>1. Units \in Nat /\ 12 * Units \in Nat /\ logon_timeout \in Nat /\ logout_timeout \in Nat
    BY TimersAssumption
  <1> QED BY <1>1, LargestNat DEF Horizon

\* The deadlines grow with the number of test requests.
LEMMA SilenceGrows ==
  ASSUME hbi \in {0, 5 * Units}
  PROVE  /\ hbi \in Nat
         /\ \A n \in Nat : Silence(n) \in Nat
         /\ \A n \in Nat : Silence(2) <= Silence(n + 2)
  <1> DEFINE W == 6 * (hbi \div 5)
  <1>1. hbi \in Nat /\ W \in Nat BY HorizonNat
  <1> HIDE DEF W
  <1>2. \A n \in Nat : n * W \in Nat /\ (n + 2) * W = n * W + 2 * W BY <1>1
  <1>3. \A n \in Nat : Silence(n) = n * W BY DEF Silence, W
  <1> QED BY <1>1, <1>2, <1>3

LEMMA InitShape == Init => Shape /\ Heard
  <1> SUFFICES ASSUME Init PROVE Shape /\ Heard OBVIOUS
  <1>1. connected \in BOOLEAN /\ received_logon \in BOOLEAN /\ sent_logout \in BOOLEAN
        /\ silent \in BOOLEAN /\ fired \in BOOLEAN
    BY Zenon DEF Init
  <1> QED BY <1>1, HorizonNat DEF Init, Shape, Heard

\* The flags stay Boolean.
LEMMA FlagsStep ==
  ASSUME Shape, Next
  PROVE  /\ connected' \in BOOLEAN /\ received_logon' \in BOOLEAN /\ sent_logout' \in BOOLEAN
         /\ silent' \in BOOLEAN /\ fired' \in BOOLEAN
  <1> USE DEF Shape, flags, clocks
  <1>1. CASE OnProtocolDeadline
    BY <1>1, Zenon DEF OnProtocolDeadline, Disconnect, SendTestRequest, SendHeartbeat, Transmit
  <1>2. CASE Attach BY <1>2, Zenon DEF Attach
  <1>3. CASE ReceiveLogon BY <1>3, Zenon DEF ReceiveLogon
  <1>4. CASE Receive BY <1>4, Zenon DEF Receive
  <1>5. CASE ReceiveOutOfOrder BY <1>5, Zenon DEF ReceiveOutOfOrder
  <1>6. CASE Send BY <1>6, Zenon DEF Send, Transmit
  <1>7. CASE InitiateLogout BY <1>7, Zenon DEF InitiateLogout, Transmit
  <1>8. CASE Close BY <1>8, Zenon DEF Close, Disconnect
  <1>9. CASE PeerDies BY <1>9, Zenon DEF PeerDies
  <1>10. CASE Advance BY <1>10, Zenon DEF Advance
  <1> QED BY <1>1, <1>2, <1>3, <1>4, <1>5, <1>6, <1>7, <1>8, <1>9, <1>10 DEF Next

\* A second test request is never counted: by then the peer has timed out.
LEMMA CounterStep ==
  ASSUME Shape, Next
  PROVE  test_request_counter' \in 0..1
  <1>1. test_request_counter \in 0..1 /\ since_recv \in Nat BY HorizonNat DEF Shape
  <1>2. CASE OnProtocolDeadline
    <2>1. ~TimedOut /\ since_recv >= Silence(test_request_counter + 1)
              => test_request_counter = 0
      BY <1>1 DEF TimedOut
    <2> QED BY <1>1, <1>2, <2>1
      DEF OnProtocolDeadline, Disconnect, SendTestRequest, SendHeartbeat
  <1>3. CASE ~OnProtocolDeadline
    BY <1>1, <1>3 DEF Next, Attach, ReceiveLogon, Receive, ReceiveOutOfOrder, Send,
       InitiateLogout, Close, Disconnect, PeerDies, Advance
  <1> QED BY <1>2, <1>3

\* The ages stay within the horizon, and the peer is heard no later than its
\* last message in sequence.
LEMMA ClockStep ==
  ASSUME Shape, Heard, Next
  PROVE  /\ since_sent' \in 0..Horizon /\ since_recv' \in 0..Horizon
         /\ since_heard' \in 0..since_recv' /\ Heard'
  <1> USE HorizonNat DEF Shape, Heard, clocks
  <1>1. CASE Advance BY <1>1 DEF Advance, Older
  <1>2. CASE ReceiveOutOfOrder BY <1>2 DEF ReceiveOutOfOrder
  <1>3. CASE Attach \/ ReceiveLogon \/ Receive BY <1>3 DEF Attach, ReceiveLogon, Receive
  <1>4. CASE OnProtocolDeadline \/ Send \/ InitiateLogout \/ Close \/ PeerDies
    <2>1. /\ since_recv' = since_recv /\ since_heard' = since_heard
          /\ since_sent' \in {since_sent, 0}
      BY <1>4 DEF OnProtocolDeadline, Send, InitiateLogout, Close, PeerDies, Disconnect,
         SendTestRequest, SendHeartbeat, Transmit
    <2> QED BY <2>1
  <1> QED BY <1>1, <1>2, <1>3, <1>4 DEF Next

LEMMA HbiStep == ASSUME Shape, Next PROVE hbi' \in {0, 5 * Units}
  BY DEF Shape, Next, flags, OnProtocolDeadline, Disconnect, SendTestRequest, SendHeartbeat,
     Attach, ReceiveLogon, Receive, ReceiveOutOfOrder, Send, InitiateLogout, Close, PeerDies, Advance

LEMMA StepShape == ASSUME Shape, Heard, [Next]_vars PROVE Shape' /\ Heard'
  <1>1. CASE Next
    BY <1>1, FlagsStep, CounterStep, ClockStep, HbiStep DEF Shape
  <1>2. CASE UNCHANGED vars
    BY <1>2 DEF vars, flags, clocks, Shape, Heard
  <1> QED BY <1>1, <1>2

LEMMA ShapeHolds == Spec => [](Shape /\ Heard)
  BY InitShape, StepShape, PTL DEF Spec

--------------------------------------------------------------------------------
\* The ages stay within the horizon and at most one test request is
\* outstanding, whatever the timeouts are.
THEOREM TypeCorrect == Spec => []TypeOK
  <1>1. Shape => TypeOK BY Zenon DEF Shape, TypeOK
  <1> QED BY <1>1, ShapeHolds, PTL

\* After on_protocol_deadline the timer is not due.
LEMMA DeadlineHandled ==
  ASSUME Shape, StoreFails = FALSE, OnProtocolDeadline
  PROVE  ~Due'
  <1> DEFINE c == test_request_counter
  <1>1. hbi \in {0, 5 * Units} /\ c \in Nat /\ since_recv \in Nat BY HorizonNat DEF Shape
  <1>2. hbi \in Nat /\ Silence(2) <= Silence(c + 2)
        /\ Silence(2) \in Nat /\ Silence(c + 1) \in Nat /\ Silence(c + 2) \in Nat
    BY <1>1, SilenceGrows
  <1>3. CASE Disconnect BY <1>3 DEF Disconnect, Due
  <1>4. CASE /\ ~sent_logout /\ received_logon /\ ~TimedOut
             /\ \/ since_recv >= Silence(c + 1) /\ SendTestRequest
                \/ since_recv < Silence(c + 1) /\ SendHeartbeat
    <2>1. since_sent' = 0 /\ since_recv' = since_recv
      BY <1>4 DEF SendTestRequest, SendHeartbeat, Transmit
    <2>2. hbi' = hbi /\ sent_logout' = sent_logout /\ received_logon' = received_logon
          /\ connected' = connected
      BY <1>4 DEF SendTestRequest, SendHeartbeat, flags
    <2>3. hbi # 0 BY <1>4 DEF OnProtocolDeadline, Due
    <2>4. Silence(2)' = Silence(2) /\ ~(since_recv' >= Silence(2)')
      BY <1>1, <1>2, <1>4, <2>1, <2>2 DEF TimedOut, Silence
    <2>5. ~(test_request_counter' = 0 /\ since_sent' >= hbi')
      BY <1>2, <2>1, <2>2, <2>3
    <2>6. ~(since_recv' >= Silence(test_request_counter + 1)')
      <3>1. CASE SendHeartbeat /\ since_recv < Silence(c + 1)
        <4>1. test_request_counter' = c BY <3>1 DEF SendHeartbeat
        <4>2. Silence(test_request_counter + 1)' = Silence(c + 1) BY <4>1, <2>2 DEF Silence
        <4> QED BY <1>1, <1>2, <2>1, <3>1, <4>2
      <3>2. CASE SendTestRequest
        <4>1. test_request_counter' + 1 = c + 2 BY <1>1, <3>2 DEF SendTestRequest
        <4>2. Silence(test_request_counter + 1)' = Silence(c + 2) BY <4>1, <2>2 DEF Silence
        <4>3. since_recv < Silence(2) BY <1>1, <1>2, <1>4 DEF TimedOut
        <4> QED BY <1>1, <1>2, <2>1, <4>2, <4>3
      <3> QED BY <1>4, <3>1, <3>2
    <2>7. ~sent_logout' /\ received_logon' BY <1>4, <2>2
    <2> QED BY <2>4, <2>5, <2>6, <2>7 DEF Due
  <1> QED BY <1>3, <1>4 DEF OnProtocolDeadline

\* on_protocol_deadline always moves the deadline into the future, so that the
\* select loop of the session never spins on a timer that is due again at once.
THEOREM DeadlineMoves ==
  ASSUME StoreFails = FALSE
  PROVE  Spec => []NoSpin
  <1>1. Init => NoSpin BY DEF Init, NoSpin
  <1>2. ASSUME Shape, NoSpin, [Next]_vars PROVE NoSpin'
    <2>1. CASE OnProtocolDeadline BY <1>2, <2>1, DeadlineHandled DEF NoSpin
    <2>2. CASE ~OnProtocolDeadline /\ Next
      <3>1. fired' = FALSE
        BY <2>2 DEF Next, Attach, ReceiveLogon, Receive, ReceiveOutOfOrder, Send,
           InitiateLogout, Close, PeerDies, Advance
      <3> QED BY <3>1 DEF NoSpin
    <2>3. CASE UNCHANGED vars
      <3>1. Due' = Due BY <2>3 DEF Due, vars, flags, clocks, Silence
      <3>2. fired' = fired BY <2>3 DEF vars
      <3> QED BY <1>2, <3>1, <3>2, Zenon DEF NoSpin
    <2> QED BY <1>2, <2>1, <2>2, <2>3
  <1> QED BY <1>1, <1>2, ShapeHolds, PTL DEF Spec

\* The timeouts give up only a peer that was silent for as long as they say,
\* while its messages arrive in sequence.
THEOREM OnlySilentPeersGivenUp ==
  ASSUME OutOfOrder = FALSE
  PROVE  Spec => GivenUpIsSilent
  <1> DEFINE Given == (OnProtocolDeadline /\ ~connected' /\ ~sent_logout) =>
                        since_heard >= IF received_logon THEN Silence(2) ELSE logon_timeout
  <1>1. ASSUME Shape, Heard, [Next]_vars PROVE [Given]_vars
    <2> SUFFICES ASSUME OnProtocolDeadline, ~connected', ~sent_logout
                 PROVE  since_heard >= IF received_logon THEN Silence(2) ELSE logon_timeout
      OBVIOUS
    <2>1. since_heard = since_recv BY <1>1 DEF Heard
    <2>2. connected BY DEF OnProtocolDeadline, Due
    <2>3. CASE ~received_logon BY <2>1, <2>3 DEF OnProtocolDeadline, Due
    <2>4. CASE received_logon
      <3>1. TimedOut
        BY <2>2, <2>4, Zenon DEF OnProtocolDeadline, SendTestRequest, SendHeartbeat, flags
      <3> QED BY <2>1, <2>4, <3>1 DEF TimedOut
    <2> QED BY <2>3, <2>4
  <1> QED BY <1>1, ShapeHolds, PTL DEF Spec, GivenUpIsSilent
=================================================================================
