------------------------------- MODULE PairProofs -------------------------------
(***************************************************************************)
(* Two engines of this code against each other, for every pair of          *)
(* configurations without resets, any number of application messages,      *)
(* breaks, Logouts and Heartbeats.                                         *)
(*                                                                         *)
(* "Good" is the invariant of one session as long as its peer keeps its    *)
(* own; it speaks of the peer only through a few values ("World").  Every  *)
(* operator of SessionCore keeps it, with the same world, so that one      *)
(* lemma per operator carries it through a handler.  "View" ties the two   *)
(* sessions and the frames between them together.                          *)
(***************************************************************************)
EXTENDS Pair, SessionProofs

\* Both stores keep the application messages (PersistMessages=Y).
Keeping == \A pair \in Pairs, side \in Sides : pair[side].config.persist_messages

\* No setting resets the numbers.
Plain(c) ==
    /\ ~c.reset_on_logon /\ ~c.reset_on_logout /\ ~c.reset_on_disconnect
    /\ ~c.send_reset_seq_num_flag
    /\ Keeping => c.persist_messages

--------------------------------------------------------------------------------
\* The number a session that took the frame expects next.
After(m) == IF m.type = "SequenceReset" THEN m.num ELSE m.seq + 1

\* Sent for the first time, not as the answer to a ResendRequest.
Fresh(m) == ~m.poss_dup

\* What an engine of this code sends when nothing resets the numbers.
Meek(m) ==
    /\ m.seq # 0 /\ m.defect = "none"
    /\ m.type = "Logon" => ~m.flag
    /\ m.type = "ResendRequest" => m.num # 0
    /\ m.type = "SequenceReset" => m.flag /\ m.poss_dup
    /\ m.poss_dup => m.type \in AppTypes \cup {"SequenceReset"}
    /\ m.type \in AppTypes => m.type = AppType

\* The numbers of the application messages a session sent; any, when the store
\* does not keep them.
Numbers(x) == IF Keeping THEN {y.seq : y \in x.saved} ELSE Nat

\* A frame says the truth about the numbers A of the sender's application
\* messages; "calm": no Logout is about, nor a type that drain_stash mistakes.
Truthful(m, A, calm) ==
    /\ m.type \in AppTypes => m.seq \in A
    /\ calm => /\ m.type # "Logout"
               /\ m.type \notin AppTypes \cup {"SequenceReset"} => m.seq \notin A
               /\ m.type = "SequenceReset" => \A n \in A : n < m.seq \/ m.num <= n

(***************************************************************************)
(* What a session is told about the rest of the pair:                      *)
(*   b     a number that a message of the peer has, or will have, and that *)
(*         is not used up by what has arrived                              *)
(*   n     the next number of the peer                                     *)
(*   app   the numbers of the peer's application messages                  *)
(*   k     a number the peer has reached                                   *)
(*   low   the session's own next number when the step began               *)
(*   nums  and the numbers of its application messages then                *)
(***************************************************************************)
World == [b : Nat, k : Nat, n : Nat, low : Nat, app : SUBSET Nat, nums : SUBSET Nat,
          calm : BOOLEAN]

Fit(w) ==
    /\ w \in World /\ w.b <= w.n
    /\ w.calm => Keeping /\ AppType = "App" /\ 0 \notin w.app

Tame(x) ==
    /\ Plain(x.cfg) /\ ~x.sent_reset /\ ~x.received_reset
    /\ \A y \in x.saved : y.seq < x.next_sender /\ y.type = AppType

\* Nothing the session expects, or will expect by what it holds, is above b.
Heeds(x, b) ==
    /\ x.next_target <= b
    /\ \A m \in x.stash : After(m) <= b
    /\ x.phase = "resend" => x.replay.request < b

\* What was received is true, what was given to the application was sent, and
\* nothing that was sent is passed over.
Hears(x, w) ==
    /\ \A m \in x.stash : Meek(m) /\ Truthful(m, w.app, w.calm)
    /\ x.phase = "resend" /\ w.calm => x.replay.request \notin w.app
    /\ \A i \in DOMAIN x.delivered : x.delivered[i] \in w.app
    /\ w.calm => \A n \in w.app :
                    n < x.next_target => \E i \in DOMAIN x.delivered : x.delivered[i] = n

\* What is being sent is true, and a fresh message is above all before it.
Speaks(x, w) ==
    /\ w.k <= w.low /\ w.low <= x.next_sender
    /\ w.nums \subseteq Numbers(x) /\ \A n \in Numbers(x) : n \in w.nums \/ w.low <= n
    /\ \A i \in DOMAIN x.out :
          /\ Meek(x.out[i]) /\ Truthful(x.out[i], Numbers(x), w.calm)
          /\ After(x.out[i]) <= x.next_sender
          /\ Fresh(x.out[i]) => w.k <= x.out[i].seq
          /\ w.calm /\ x.out[i].type = "Logon" => x.out[i].num <= w.n
    /\ \A i, j \in DOMAIN x.out : i < j /\ Fresh(x.out[j]) => After(x.out[i]) <= x.out[j].seq

\* A replay stays below the next number, and the gap it is about to fill holds
\* no application message.
Replays(x, calm) ==
    x.phase = "resend" =>
        /\ x.replay.seq <= x.replay.end + 1 /\ x.replay.end < x.next_sender
        /\ calm /\ x.replay.gap_begin # 0 =>
              \A n \in Numbers(x) : n < x.replay.gap_begin \/ x.replay.seq <= n

Good(x, w) ==
    /\ x \in State /\ Tame(x) /\ Heeds(x, w.b) /\ Hears(x, w) /\ Speaks(x, w)
    /\ Replays(x, w.calm)

--------------------------------------------------------------------------------
\* The fields Good does not speak of may change, the stash may shrink and a
\* replay may end.
Alike(x, y) ==
    /\ y \in State
    /\ y.cfg = x.cfg /\ (y.sent_reset => x.sent_reset) /\ (y.received_reset => x.received_reset)
    /\ y.next_sender = x.next_sender /\ y.next_target = x.next_target
    /\ y.saved = x.saved /\ y.out = x.out /\ y.delivered = x.delivered
    /\ y.stash \subseteq x.stash
    /\ y.phase # "resend" \/ (y.phase = x.phase /\ y.replay = x.replay)

\* Good is about those fields only.
LEMMA AlikeGood ==
  ASSUME NEW x, NEW y, NEW w, Good(x, w), Alike(x, y) PROVE Good(y, w)
  <1>1. Tame(y) BY DEF Good, Alike, Tame
  <1>2. Numbers(y) = Numbers(x) BY DEF Numbers, Alike
  <1>3. Heeds(y, w.b) BY DEF Good, Alike, Heeds
  <1>4. Hears(y, w) BY DEF Good, Alike, Hears
  <1>5. Speaks(y, w) BY <1>2 DEF Good, Alike, Speaks
  <1>6. Replays(y, w.calm) BY <1>2 DEF Good, Alike, Replays
  <1> QED BY <1>1, <1>3, <1>4, <1>5, <1>6 DEF Good, Alike

\* Numbers are numbers.
LEMMA NumberFacts ==
  ASSUME NEW x \in State
  PROVE  /\ x.next_sender \in Nat /\ x.next_sender # 0 /\ x.next_target \in Nat /\ x.next_target # 0
         /\ Numbers(x) \subseteq Nat
         /\ x.replay.seq \in Nat /\ x.replay.end \in Nat /\ x.replay.gap_begin \in Nat
         /\ x.replay.request \in Nat /\ x.replay.begin \in Nat
  <1>1. \A y \in x.saved : y.seq \in Nat BY SeqNumFacts DEF State, Saved
  <1>2. Numbers(x) \subseteq Nat BY <1>1 DEF Numbers
  <1>3. x.replay \in Replay BY DEF State
  <1>4. /\ x.next_sender \in Nat /\ x.next_sender # 0 /\ x.next_target \in Nat /\ x.next_target # 0
    BY DEF State, SeqNum
  <1> QED BY <1>2, <1>3, <1>4 DEF Replay

\* A frame leads to a number.
LEMMA AfterType == ASSUME NEW m \in Msg PROVE After(m) \in Nat /\ m.seq \in Nat /\ m.num \in Nat
  BY DEF After, Msg

\* What a call returns.
LEMMA ReturnGood ==
  ASSUME NEW x, NEW w, NEW f \in Flows, Good(x, w) PROVE Good(Return(x, f), w)
  <1>1. x \in State BY DEF Good
  <1>2. Return(x, f) \in State BY <1>1, ReturnType
  <1>3. Alike(x, Return(x, f)) BY <1>1, <1>2 DEF Alike, Return, State
  <1> QED BY <1>3, AlikeGood

\* incr_next_target_seq_num, when the number was used by the peer and the
\* message is with the application.
LEMMA IncrGood ==
  ASSUME NEW x, NEW w, Fit(w), Good(x, w), x.next_target < w.b,
         w.calm /\ x.next_target \in w.app =>
             \E i \in DOMAIN x.delivered : x.delivered[i] = x.next_target
  PROVE  Good(IncrTarget(x), w)
  <1> DEFINE y == IncrTarget(x)
  <1>1. x \in State /\ y \in State BY IncrTargetType DEF Good
  <1>2. /\ y.cfg = x.cfg /\ y.sent_reset = x.sent_reset /\ y.received_reset = x.received_reset
        /\ y.next_sender = x.next_sender /\ y.next_target = x.next_target + 1
        /\ y.saved = x.saved /\ y.out = x.out /\ y.delivered = x.delivered
        /\ y.stash = x.stash /\ y.phase = x.phase /\ y.replay = x.replay
    BY <1>1 DEF IncrTarget, State
  <1>3. x.next_target \in Nat /\ w.b \in Nat /\ w.app \subseteq Nat BY <1>1, NumberFacts DEF Fit, World
  <1> HIDE DEF y
  <1>4. Tame(y) BY <1>2 DEF Good, Tame
  <1>5. Numbers(y) = Numbers(x) BY <1>2 DEF Numbers
  <1>6. Heeds(y, w.b) BY <1>2, <1>3 DEF Good, Heeds
  <1>7. Hears(y, w)
    <2>1. \A n \in w.app : n < y.next_target => n < x.next_target \/ n = x.next_target BY <1>2, <1>3
    <2>2. w.calm => \A n \in w.app :
             n < y.next_target => \E i \in DOMAIN y.delivered : y.delivered[i] = n
      BY <1>2, <2>1 DEF Good, Hears
    <2> QED BY <1>2, <2>2 DEF Good, Hears
  <1>8. Speaks(y, w) BY <1>2, <1>5 DEF Good, Speaks
  <1>9. Replays(y, w.calm) BY <1>2, <1>5 DEF Good, Replays
  <1> QED BY <1>1, <1>4, <1>6, <1>7, <1>8, <1>9 DEF Good, y

\* Session::disconnect, without ResetOnDisconnect.
LEMMA DisconnectGood == ASSUME NEW x, NEW w, Good(x, w) PROVE Good(Disconnect(x), w)
  <1>1. x \in State /\ ~x.cfg.reset_on_disconnect /\ ~x.sent_reset /\ ~x.received_reset
    BY DEF Good, Tame, Plain
  <1>2. Disconnect(x) \in State BY <1>1, DisconnectType
  <1> DEFINE y == Disconnect(x)
  <1>3. /\ y.cfg = x.cfg /\ y.next_sender = x.next_sender /\ y.next_target = x.next_target
        /\ y.saved = x.saved /\ y.out = x.out /\ y.delivered = x.delivered
        /\ y.phase = x.phase /\ y.replay = x.replay
    BY <1>1 DEF Disconnect, State
  <1>4. y.stash \subseteq x.stash BY <1>1 DEF Disconnect, State
  <1>5. ~y.sent_reset /\ ~y.received_reset BY <1>1 DEF Disconnect, State
  <1> HIDE DEF y
  <1>6. Alike(x, y) BY <1>2, <1>3, <1>4, <1>5 DEF Alike, y
  <1> QED BY <1>6, AlikeGood DEF y

\* The frame f may follow what the session has sent.
Sendable(x, f, w) ==
    /\ f \in Msg /\ Meek(f) /\ Truthful(f, Numbers(x), w.calm)
    /\ After(f) <= x.next_sender
    /\ Fresh(f) => w.k <= f.seq /\ \A i \in DOMAIN x.out : After(x.out[i]) <= f.seq
    /\ w.calm /\ f.type = "Logon" => f.num <= w.n

\* Session::transmit.
LEMMA TransmitGood ==
  ASSUME NEW x, NEW f, NEW w, Good(x, w), Sendable(x, f, w) PROVE Good(Transmit(x, f), w)
  <1> DEFINE y == [x EXCEPT !.out = Append(@, f), !.writer = "used"]
             q == Append(x.out, f)
  <1>1. x \in State /\ f \in Msg /\ x.out \in Seq(Msg) BY DEF Good, State, Sendable
  <1>2. q \in Seq(Msg) /\ Len(x.out) \in Nat BY <1>1
  <1>3. /\ DOMAIN q = 1..(Len(x.out) + 1) /\ DOMAIN x.out = 1..Len(x.out)
        /\ q[Len(x.out) + 1] = f /\ \A i \in 1..Len(x.out) : q[i] = x.out[i]
    BY <1>1, AppendProperties
  <1>4. y \in State BY <1>1, <1>2, FieldFacts DEF State
  <1>5. /\ y.cfg = x.cfg /\ y.sent_reset = x.sent_reset /\ y.received_reset = x.received_reset
        /\ y.next_sender = x.next_sender /\ y.next_target = x.next_target
        /\ y.saved = x.saved /\ y.out = q /\ y.delivered = x.delivered
        /\ y.stash = x.stash /\ y.phase = x.phase /\ y.replay = x.replay
    BY <1>1 DEF State
  <1> HIDE DEF y, q
  <1>6. Tame(y) BY <1>5 DEF Good, Tame
  <1>7. Numbers(y) = Numbers(x) BY <1>5 DEF Numbers
  <1>8. Heeds(y, w.b) BY <1>5 DEF Good, Heeds
  <1>9. Hears(y, w) BY <1>5 DEF Good, Hears
  <1>10. Replays(y, w.calm) BY <1>5, <1>7 DEF Good, Replays
  <1>11. \A i \in DOMAIN q : \/ i \in DOMAIN x.out /\ q[i] = x.out[i]
                             \/ i = Len(x.out) + 1 /\ q[i] = f
    <2>1. 1..(Len(x.out) + 1) = (1..Len(x.out)) \cup {Len(x.out) + 1} BY <1>2
    <2> QED BY <1>3, <2>1
  <1>12. \A i \in DOMAIN q :
            /\ Meek(q[i]) /\ Truthful(q[i], Numbers(x), w.calm)
            /\ After(q[i]) <= x.next_sender
            /\ Fresh(q[i]) => w.k <= q[i].seq
            /\ w.calm /\ q[i].type = "Logon" => q[i].num <= w.n
    BY <1>11 DEF Good, Speaks, Sendable
  <1>13. \A i, j \in DOMAIN q : i < j /\ Fresh(q[j]) => After(q[i]) <= q[j].seq
    <2> SUFFICES ASSUME NEW i \in DOMAIN q, NEW j \in DOMAIN q, i < j, Fresh(q[j])
                 PROVE  After(q[i]) <= q[j].seq
      OBVIOUS
    <2>1. i \in DOMAIN x.out /\ q[i] = x.out[i] BY <1>2, <1>3
    <2>2. CASE q[j] = f BY <2>1, <2>2 DEF Sendable
    <2>3. CASE j \in DOMAIN x.out /\ q[j] = x.out[j] BY <2>1, <2>3 DEF Good, Speaks
    <2> QED BY <1>11, <2>2, <2>3
  <1>14. Speaks(y, w) BY <1>5, <1>7, <1>12, <1>13 DEF Good, Speaks
  <1>15. Good(y, w) BY <1>4, <1>6, <1>8, <1>9, <1>10, <1>14 DEF Good
  <1>16. Transmit(x, f) \in {x, Disconnect(x), y} BY DEF Transmit, y, q
  <1> QED BY <1>15, <1>16, DisconnectGood

\* What a session of this pair hands to send_message.
Sayable(m, w) ==
    /\ m \in Msg /\ m.defect = "none" /\ m.type # "SequenceReset"
    /\ m.type \in AppTypes => m.type = AppType
    /\ m.type = "Logon" => ~m.flag /\ (w.calm => m.num <= w.n)
    /\ m.type = "ResendRequest" => m.num # 0
    /\ w.calm => m.type # "Logout"

\* The number given to a message is used up, and the message kept, before it
\* goes out: what was said before stays true.
LEMMA NumberedGood ==
  ASSUME NEW x, NEW y, NEW t, NEW w, Fit(w), Good(x, w), y \in State, t \in AppTypes => t = AppType,
         y.cfg = x.cfg /\ y.sent_reset = x.sent_reset /\ y.received_reset = x.received_reset,
         y.next_sender = x.next_sender + 1 /\ y.next_target = x.next_target,
         y.out = x.out /\ y.delivered = x.delivered,
         y.stash = x.stash /\ y.phase = x.phase /\ y.replay = x.replay,
         \A z \in y.saved : z \in x.saved \/ (z.seq = x.next_sender /\ z.type = AppType /\ t = z.type),
         \A z \in x.saved : z.seq # x.next_sender => z \in y.saved,
         Keeping /\ t = AppType => \E z \in y.saved : z.seq = x.next_sender
  PROVE  /\ Good(y, w)
         /\ t \in AppTypes => x.next_sender \in Numbers(y)
         /\ w.calm /\ t \notin AppTypes => x.next_sender \notin Numbers(y)
  <1>1. x \in State /\ x.next_sender \in Nat /\ Numbers(x) \subseteq Nat
        /\ x.replay.seq \in Nat /\ x.replay.end \in Nat /\ x.replay.gap_begin \in Nat
    BY NumberFacts DEF Good
  <1>2. \A z \in x.saved : z.seq \in Nat /\ z.seq < x.next_sender /\ z.type = AppType
    BY <1>1, SeqNumFacts DEF Good, Tame, State, Saved
  <1>3. AppType \in AppTypes BY PairAssumption
  <1>4. Tame(y) BY <1>1, <1>2 DEF Good, Tame
  <1>5. Numbers(x) \subseteq Numbers(y) /\ \A n \in Numbers(y) : n \in Numbers(x) \/ n = x.next_sender
    <2>1. CASE ~Keeping BY <2>1 DEF Numbers
    <2>2. CASE Keeping
      <3>1. \A z \in x.saved : z \in y.saved BY <1>1, <1>2
      <3> QED BY <2>2, <3>1 DEF Numbers
    <2> QED BY <2>1, <2>2
  <1>6. Heeds(y, w.b) BY DEF Good, Heeds
  <1>7. Hears(y, w) BY DEF Good, Hears
  <1>8. \A m \in Msg : After(m) <= x.next_sender /\ Truthful(m, Numbers(x), w.calm)
                       => Truthful(m, Numbers(y), w.calm)
    <2> SUFFICES ASSUME NEW m \in Msg, After(m) <= x.next_sender, Truthful(m, Numbers(x), w.calm)
                 PROVE  Truthful(m, Numbers(y), w.calm)
      OBVIOUS
    <2>1. m.seq \in Nat /\ m.num \in Nat /\ After(m) \in Nat BY AfterType
    <2>2. m.type # "SequenceReset" => m.seq # x.next_sender BY <1>1, <2>1 DEF After
    <2>3. m.type = "SequenceReset" => m.num <= x.next_sender BY DEF After
    <2> QED BY <1>5, <2>2, <2>3 DEF Truthful
  <1>9. Speaks(y, w)
    <2>1. x.out \in Seq(Msg) BY <1>1 DEF State
    <2>2. \A i \in DOMAIN x.out : x.out[i] \in Msg /\ After(x.out[i]) \in Nat
      BY <2>1, AfterType, ElementOfSeq
    <2>3. w.low \in Nat BY DEF Fit, World
    <2>4. /\ \A i \in DOMAIN x.out : After(x.out[i]) <= x.next_sender
          /\ \A i \in DOMAIN x.out : Truthful(x.out[i], Numbers(x), w.calm)
          /\ w.low <= x.next_sender
      BY DEF Good, Speaks
    <2>5. \A i \in DOMAIN x.out : Truthful(x.out[i], Numbers(y), w.calm) BY <1>8, <2>2, <2>4
    <2>6. \A i \in DOMAIN x.out : After(x.out[i]) <= y.next_sender BY <1>1, <2>2, <2>4
    <2>7. w.low <= y.next_sender BY <1>1, <2>3, <2>4
    <2>8. w.nums \subseteq Numbers(y) /\ \A n \in Numbers(y) : n \in w.nums \/ w.low <= n
      BY <1>5, <2>4 DEF Good, Speaks
    <2> QED BY <2>5, <2>6, <2>7, <2>8 DEF Good, Speaks
  <1>10. Replays(y, w.calm)
    <2>1. ASSUME x.phase = "resend" PROVE x.replay.seq <= x.next_sender /\ x.replay.end < x.next_sender + 1
      BY <1>1, <2>1 DEF Good, Replays
    <2> QED BY <1>1, <1>5, <2>1 DEF Good, Replays
  <1>11. Good(y, w) BY <1>4, <1>6, <1>7, <1>9, <1>10 DEF Good
  <1>12. t \in AppTypes => x.next_sender \in Numbers(y) BY <1>1 DEF Numbers
  <1>13. ASSUME w.calm, t \notin AppTypes PROVE x.next_sender \notin Numbers(y)
    <2>1. Keeping BY <1>13 DEF Fit
    <2>2. \A z \in y.saved : z.seq # x.next_sender BY <1>1, <1>2, <1>3, <1>13
    <2> QED BY <2>1, <2>2 DEF Numbers
  <1> QED BY <1>11, <1>12, <1>13

\* Session::send_message.
LEMMA SendMessageGood ==
  ASSUME NEW x, NEW m, NEW w, Fit(w), Good(x, w), Sayable(m, w)
  PROVE  Good(SendMessage(x, m), w)
  <1> DEFINE f == [m EXCEPT !.seq = x.next_sender, !.poss_dup = FALSE]
             u == [x EXCEPT !.next_sender = @ + 1]
             y == IF x.cfg.persist_messages THEN SaveAndIncr(x, f) ELSE u
             z == [seq |-> x.next_sender, type |-> m.type, payload |-> m.payload]
  <1>1. x \in State /\ m \in Msg /\ x.next_sender \in SeqNum /\ x.next_sender \in Nat /\ x.next_sender # 0
    BY NumberFacts DEF Good, Sayable, State
  <1>2. /\ f \in Msg /\ f.seq = x.next_sender /\ f.type = m.type /\ f.payload = m.payload
        /\ f.poss_dup = FALSE /\ f.flag = m.flag /\ f.num = m.num /\ f.defect = m.defect
    BY <1>1 DEF Msg
  <1>3. u \in State
    <2>1. x.next_sender + 1 \in SeqNum BY <1>1, SeqNumFacts
    <2> QED BY <1>1, <2>1 DEF State
  <1>4. y \in State BY <1>1, <1>2, <1>3, SaveType
  <1>5. /\ y.cfg = x.cfg /\ y.sent_reset = x.sent_reset /\ y.received_reset = x.received_reset
        /\ y.next_sender = x.next_sender + 1 /\ y.next_target = x.next_target
        /\ y.out = x.out /\ y.delivered = x.delivered
        /\ y.stash = x.stash /\ y.phase = x.phase /\ y.replay = x.replay
    BY <1>1 DEF SaveAndIncr, State
  <1>6. y.saved = IF x.cfg.persist_messages
                  THEN {v \in x.saved : v.seq # x.next_sender} \cup
                       (IF m.type \in AppTypes THEN {z} ELSE {})
                  ELSE x.saved
    BY <1>1, <1>2 DEF SaveAndIncr, State
  <1>7. SendMessage(x, m) \in {y, Transmit(y, f)} BY DEF SendMessage
  <1>8. z.seq = x.next_sender /\ z.type = m.type OBVIOUS
  <1> HIDE DEF f, u, y, z
  <1>9. m.type \in AppTypes => m.type = AppType BY DEF Sayable
  <1>10. \A v \in y.saved : v \in x.saved \/ (v.seq = x.next_sender /\ v.type = AppType /\ m.type = v.type)
    BY <1>6, <1>8, <1>9
  <1>11. \A v \in x.saved : v.seq # x.next_sender => v \in y.saved BY <1>6
  <1>12. Keeping /\ m.type = AppType => \E v \in y.saved : v.seq = x.next_sender
    <2>1. Keeping => x.cfg.persist_messages BY DEF Good, Tame, Plain
    <2>2. AppType \in AppTypes BY PairAssumption
    <2> QED BY <1>6, <1>8, <2>1, <2>2
  <1>13. /\ Good(y, w)
         /\ m.type \in AppTypes => x.next_sender \in Numbers(y)
         /\ w.calm /\ m.type \notin AppTypes => x.next_sender \notin Numbers(y)
    BY <1>4, <1>5, <1>9, <1>10, <1>11, <1>12, NumberedGood
  <1>14. Sendable(y, f, w)
    <2>1. Meek(f) BY <1>1, <1>2, <1>9 DEF Meek, Sayable
    <2>2. Truthful(f, Numbers(y), w.calm) BY <1>2, <1>13 DEF Truthful, Sayable
    <2>3. After(f) <= y.next_sender BY <1>1, <1>2, <1>5 DEF After, Sayable
    <2>4. w.k <= f.seq
      <3>1. w.k \in Nat /\ w.low \in Nat BY DEF Fit, World
      <3> QED BY <1>1, <1>2, <3>1 DEF Good, Speaks
    <2>5. \A i \in DOMAIN y.out : After(y.out[i]) <= f.seq BY <1>2, <1>5 DEF Good, Speaks
    <2>6. w.calm /\ f.type = "Logon" => f.num <= w.n BY <1>2 DEF Sayable
    <2> QED BY <1>2, <2>1, <2>2, <2>3, <2>4, <2>5, <2>6 DEF Sendable
  <1> QED BY <1>7, <1>13, <1>14, TransmitGood

\* A send leaves alone what was received, unless the connection is lost.
LEMMA SendKeeps ==
  ASSUME NEW x, NEW m, NEW w, Good(x, w)
  PROVE  /\ SendMessage(x, m).next_target = x.next_target
         /\ SendMessage(x, m).delivered = x.delivered
         /\ SendMessage(x, m).cfg = x.cfg
         /\ SendMessage(x, m).flow = x.flow
         /\ SendMessage(x, m).phase = x.phase
  <1> DEFINE f == [m EXCEPT !.seq = x.next_sender, !.poss_dup = FALSE]
             u == [x EXCEPT !.next_sender = @ + 1]
             y == IF x.cfg.persist_messages THEN SaveAndIncr(x, f) ELSE u
  <1>1. x \in State /\ ~x.cfg.reset_on_disconnect BY DEF Good, Tame, Plain
  <1>2. y.next_target = x.next_target /\ y.delivered = x.delivered /\ y.cfg = x.cfg
        /\ y.flow = x.flow /\ y.phase = x.phase
    BY <1>1 DEF SaveAndIncr, State
  <1>3. /\ Transmit(y, f).next_target = y.next_target
        /\ Transmit(y, f).delivered = y.delivered
        /\ Transmit(y, f).cfg = y.cfg
        /\ Transmit(y, f).flow = y.flow
        /\ Transmit(y, f).phase = y.phase
    BY <1>1 DEF Transmit, Disconnect, SaveAndIncr, State
  <1>4. SendMessage(x, m) \in {y, Transmit(y, f)} BY DEF SendMessage
  <1> HIDE DEF y, f
  <1> QED BY <1>2, <1>3, <1>4

\* What send_message is called with.
LEMMA WithTypeSayable ==
  ASSUME NEW t \in MsgTypes \ {"SequenceReset"}, NEW w, t \in AppTypes => t = AppType,
         w.calm => t # "Logout"
  PROVE  Sayable(WithType(t), w) \/ t \in {"Logon", "ResendRequest"}
  <1>1. WithType(t) \in Msg BY WithTypeType
  <1>2. WithType(t).type = t /\ WithType(t).defect = "none" BY DEF WithType
  <1> QED BY <1>1, <1>2 DEF Sayable

\* The administrative messages.
LEMMA AdminSayable ==
  ASSUME NEW w
  PROVE  /\ \A t \in {"Heartbeat", "TestRequest", "Reject"} : Sayable(WithType(t), w)
         /\ ~w.calm => Sayable(WithType("Logout"), w)
  <1>1. {"Heartbeat", "TestRequest", "Reject", "Logout"} \subseteq MsgTypes \ {"SequenceReset"}
        /\ {"Heartbeat", "TestRequest", "Reject", "Logout"} \cap AppTypes = {}
    BY DEF MsgTypes, AppTypes
  <1> QED BY <1>1, WithTypeSayable

\* A Logon with NextExpectedMsgSeqNum num (0: none) and no reset flag.
LEMMA LogonSayable ==
  ASSUME NEW w, Fit(w), NEW num \in Nat, num <= w.n, NEW flag, flag = FALSE
  PROVE  Sayable([WithType("Logon") EXCEPT !.flag = flag, !.num = num], w)
  <1> DEFINE m == [WithType("Logon") EXCEPT !.flag = flag, !.num = num]
  <1>1. "Logon" \in MsgTypes /\ "Logon" \notin AppTypes BY DEF MsgTypes, AppTypes
  <1>2. WithType("Logon") \in Msg BY <1>1, WithTypeType
  <1>3. m \in Msg BY <1>2 DEF Msg
  <1>4. m.type = "Logon" /\ m.defect = "none" /\ m.flag = FALSE /\ m.num = num BY DEF WithType
  <1> QED BY <1>1, <1>3, <1>4 DEF Sayable

\* Session::initiate_logout.
LEMMA InitiateLogoutGood ==
  ASSUME NEW x, NEW w, Fit(w), Good(x, w), ~w.calm PROVE Good(InitiateLogout(x), w)
  <1> DEFINE y == [x EXCEPT !.sent_logout = TRUE]
  <1>1. x \in State BY DEF Good
  <1>2. y \in State BY <1>1 DEF State
  <1>3. Alike(x, y) BY <1>1, <1>2 DEF Alike, State
  <1>4. Good(y, w) BY <1>3, AlikeGood
  <1> QED BY <1>4, AdminSayable, SendMessageGood DEF InitiateLogout

\* Session::send_reject, of a SequenceReset.
LEMMA SendRejectGood ==
  ASSUME NEW x, NEW m, NEW w, Fit(w), Good(x, w), m.type = "SequenceReset"
  PROVE  Good(SendReject(x, m), w)
  BY AdminSayable, SendMessageGood DEF SendReject

\* Session::send_resend_request.
LEMMA SendResendRequestGood ==
  ASSUME NEW x, NEW w, Fit(w), Good(x, w), NEW begin \in Nat \ {0}, NEW received \in Nat,
         begin < received
  PROVE  Good(SendResendRequest(x, begin, received), w)
  <1> DEFINE full_end == received - 1
             max == x.cfg.max_messages_in_resend_request
             capped == max # 0 /\ begin + max - 1 < full_end
             chunk_end == IF capped THEN begin + max - 1 ELSE full_end
             range == [begin |-> begin, full_end |-> full_end, chunk_end |-> chunk_end]
             y == [x EXCEPT !.resend_range = range]
             end == IF max = 0 THEN 0 ELSE chunk_end
             m == [WithType("ResendRequest") EXCEPT !.num = begin, !.end = end]
  <1>1. x \in State BY DEF Good
  <1>2. max \in Nat BY <1>1 DEF State, Config
  <1>3. full_end \in Nat /\ chunk_end \in Nat /\ end \in Nat BY <1>2
  <1>4. SendResendRequest(x, begin, received) = SendMessage(y, m) BY DEF SendResendRequest
  <1> HIDE DEF full_end, chunk_end, max, end
  <1>5. range \in ResendRange BY <1>3 DEF ResendRange
  <1> HIDE DEF range
  <1>6. y \in State BY <1>1, <1>5 DEF State
  <1>7. Alike(x, y) BY <1>1, <1>6 DEF Alike, State
  <1>8. Good(y, w) BY <1>7, AlikeGood
  <1>9. WithType("ResendRequest") \in Msg BY WithTypeType, TypeNames
  <1>10. m \in Msg BY <1>3, <1>9 DEF Msg
  <1>11. m.type = "ResendRequest" /\ m.defect = "none" /\ m.num = begin BY DEF WithType
  <1>12. Sayable(m, w) BY <1>10, <1>11 DEF Sayable, AppTypes
  <1> HIDE DEF m, y
  <1> QED BY <1>4, <1>8, <1>12, SendMessageGood

\* Session::send_logon.
LEMMA SendLogonGood ==
  ASSUME NEW x, NEW w, Fit(w), Good(x, w) PROVE Good(SendLogon(x), w)
  <1> DEFINE reset == \/ x.cfg.send_reset_seq_num_flag
                      \/ x.cfg.reset_on_logon /\ x.next_sender = 1 /\ x.next_target = 1
             y == [x EXCEPT !.sent_reset = @ \/ reset, !.sent_logon = TRUE]
             num == IF x.cfg.send_next_expected THEN x.next_target ELSE 0
             m == [WithType("Logon") EXCEPT !.flag = reset, !.num = num]
  <1>1. /\ x \in State /\ x.cfg \in Config /\ ~x.cfg.send_reset_seq_num_flag /\ ~x.cfg.reset_on_logon
        /\ ~x.sent_reset
    BY DEF Good, Tame, Plain, State
  <1>2. reset = FALSE /\ (x.sent_reset \/ reset) = FALSE /\ (x.sent_reset \/ reset) \in BOOLEAN
    BY <1>1
  <1>3. num \in Nat /\ num <= w.n
    <2>1. x.next_target \in Nat /\ w.b \in Nat /\ w.n \in Nat BY <1>1, NumberFacts DEF Fit, World
    <2> QED BY <2>1 DEF Good, Heeds, Fit
  <1>4. SendLogon(x) = SendMessage(y, m) BY DEF SendLogon
  <1> HIDE DEF reset, num
  <1>5. y \in State BY <1>1, <1>2 DEF State
  <1>6. ~y.sent_reset BY <1>1, <1>2 DEF State
  <1>7. Alike(x, y) BY <1>1, <1>5, <1>6 DEF Alike, State
  <1>8. Good(y, w) BY <1>7, AlikeGood
  <1>9. Sayable(m, w) BY <1>2, <1>3, LogonSayable
  <1> QED BY <1>4, <1>8, <1>9, SendMessageGood

\* Session::send_logon_reply: the Logon it answers takes a number of the peer.
LEMMA SendLogonReplyGood ==
  ASSUME NEW x, NEW w, Fit(w), Good(x, w), x.next_target < w.b
  PROVE  /\ Good(SendLogonReply(x), w)
         /\ SendLogonReply(x).next_target = x.next_target
         /\ SendLogonReply(x).cfg = x.cfg
         /\ SendLogonReply(x).flow = x.flow
         /\ SendLogonReply(x).phase = x.phase
  <1> DEFINE flag == x.received_reset /\ x.cfg.send_next_expected
             y == [x EXCEPT !.sent_reset = @ \/ x.received_reset, !.sent_logon = TRUE]
             num == IF x.cfg.send_next_expected THEN x.next_target + 1 ELSE 0
             m == [WithType("Logon") EXCEPT !.flag = flag, !.num = num]
  <1>1. x \in State /\ ~x.sent_reset /\ ~x.received_reset BY DEF Good, Tame
  <1>2. flag = FALSE /\ (x.sent_reset \/ x.received_reset) = FALSE
        /\ (x.sent_reset \/ x.received_reset) \in BOOLEAN
    BY <1>1
  <1>3. num \in Nat /\ num <= w.n
    <2>1. x.next_target \in Nat /\ w.b \in Nat /\ w.n \in Nat BY <1>1, NumberFacts DEF Fit, World
    <2> QED BY <2>1 DEF Fit
  <1>4. SendLogonReply(x) = SendMessage(y, m) BY DEF SendLogonReply
  <1> HIDE DEF flag, num
  <1>5. y \in State BY <1>1, <1>2 DEF State
  <1>6. ~y.sent_reset BY <1>1, <1>2 DEF State
  <1>7. Alike(x, y) BY <1>1, <1>5, <1>6 DEF Alike, State
  <1>8. Good(y, w) BY <1>7, AlikeGood
  <1>9. Sayable(m, w) BY <1>2, <1>3, LogonSayable
  <1>10. y.next_target = x.next_target /\ y.cfg = x.cfg /\ y.flow = x.flow /\ y.phase = x.phase
    BY <1>1 DEF State
  <1> HIDE DEF y, m
  <1> QED BY <1>4, <1>8, <1>9, <1>10, SendMessageGood, SendKeeps

\* What arrives, or is taken from the stash.
Arrives(x, m, w) ==
    /\ m \in Msg /\ Meek(m) /\ Truthful(m, w.app, w.calm) /\ After(m) <= w.b
    /\ Fresh(m) => x.next_target <= m.seq
    /\ w.calm /\ m.type = "Logon" => m.num <= x.next_sender

\* The stash.
LEMMA StashInsertGood ==
  ASSUME NEW x, NEW m, NEW w, Good(x, w), Arrives(x, m, w) PROVE Good(StashInsert(x, m), w)
  <1> DEFINE y == StashInsert(x, m)
  <1>1. x \in State /\ m \in Msg BY DEF Good, Arrives
  <1>2. y \in State BY <1>1, StashInsertType
  <1>3. /\ y.cfg = x.cfg /\ y.sent_reset = x.sent_reset /\ y.received_reset = x.received_reset
        /\ y.next_sender = x.next_sender /\ y.next_target = x.next_target
        /\ y.saved = x.saved /\ y.out = x.out /\ y.delivered = x.delivered
        /\ y.phase = x.phase /\ y.replay = x.replay
    BY <1>1 DEF StashInsert, State
  <1>4. \A z \in y.stash : z \in x.stash \/ z = m BY <1>1 DEF StashInsert, State
  <1> HIDE DEF y
  <1>5. Tame(y) BY <1>3 DEF Good, Tame
  <1>6. Numbers(y) = Numbers(x) BY <1>3 DEF Numbers
  <1>7. Heeds(y, w.b) BY <1>3, <1>4 DEF Good, Heeds, Arrives
  <1>8. Hears(y, w) BY <1>3, <1>4 DEF Good, Hears, Arrives
  <1>9. Speaks(y, w) BY <1>3, <1>6 DEF Good, Speaks
  <1>10. Replays(y, w.calm) BY <1>3, <1>6 DEF Good, Replays
  <1> QED BY <1>2, <1>5, <1>7, <1>8, <1>9, <1>10 DEF Good, y

\* Session::on_target_too_high.
LEMMA OnTargetTooHighGood ==
  ASSUME NEW x, NEW m, NEW w, Fit(w), Good(x, w), Arrives(x, m, w), m.seq > x.next_target
  PROVE  Good(OnTargetTooHigh(x, m), w)
  <1>1. x \in State /\ m \in Msg BY DEF Good, Arrives
  <1>2. m.seq \in Nat /\ x.next_target \in Nat \ {0} BY <1>1, NumberFacts, AfterType
  <1>3. Good(StashInsert(x, m), w) BY StashInsertGood
  <1> QED BY <1>2, <1>3, SendResendRequestGood DEF OnTargetTooHigh

\* The end of Session::drain_stash, with check_resend_chunks.
LEMMA DrainEndGood == ASSUME NEW x, NEW w, Fit(w), Good(x, w) PROVE Good(DrainEnd(x), w)
  <1> DEFINE c == CheckResendChunks(x)
             n == [x EXCEPT !.resend_range = NoRange]
             r == x.resend_range
             y == SendResendRequest(x, x.next_target, r.full_end + 1)
  <1>1. x \in State /\ x.next_target \in Nat \ {0} BY NumberFacts DEF Good
  <1>2. r.full_end \in Nat BY <1>1 DEF State, ResendRange
  <1>3. x.next_target <= r.full_end => Good(y, w) BY <1>1, <1>2, SendResendRequestGood
  <1>4. n \in State BY <1>1, FieldFacts DEF State
  <1>5. Alike(x, n) BY <1>1, <1>4 DEF Alike, State
  <1>6. Good(n, w) BY <1>5, AlikeGood
  <1>7. c \in {x, n} \/ (c = y /\ x.next_target <= r.full_end) BY DEF CheckResendChunks
  <1> HIDE DEF c, n, y, r
  <1>8. Good(c, w) BY <1>3, <1>6, <1>7
  <1>9. c \in State BY <1>8 DEF Good
  <1>10. [c EXCEPT !.phase = "idle"] \in State BY <1>9, FieldFacts DEF State
  <1>11. Alike(c, [c EXCEPT !.phase = "idle"]) BY <1>9, <1>10 DEF Alike, State
  <1> QED BY <1>8, <1>11, AlikeGood DEF DrainEnd, c

--------------------------------------------------------------------------------
\* The message is given to the application, or is an administrative one.
Heard(x, m) == [x EXCEPT !.test_request_counter = 0,
                         !.delivered = IF m.type \in AppTypes THEN Append(@, m.seq) ELSE @]

\* Good stays, and an application message is among the deliveries.
LEMMA HeardGood ==
  ASSUME NEW x, NEW m, NEW w, Good(x, w), Arrives(x, m, w)
  PROVE  /\ Good(Heard(x, m), w)
         /\ m.type \in AppTypes => \E i \in DOMAIN Heard(x, m).delivered : Heard(x, m).delivered[i] = m.seq
         /\ Heard(x, m).next_target = x.next_target /\ Heard(x, m).next_sender = x.next_sender
         /\ Heard(x, m).cfg = x.cfg /\ Heard(x, m).phase = x.phase
  <1> DEFINE y == Heard(x, m)
             q == Append(x.delivered, m.seq)
             d == IF m.type \in AppTypes THEN q ELSE x.delivered
  <1>1. x \in State /\ m.seq \in Nat /\ x.delivered \in Seq(Nat) BY AfterType DEF Good, Arrives, State
  <1>2. q \in Seq(Nat) /\ Len(x.delivered) \in Nat BY <1>1
  <1>3. /\ DOMAIN q = 1..(Len(x.delivered) + 1) /\ DOMAIN x.delivered = 1..Len(x.delivered)
        /\ q[Len(x.delivered) + 1] = m.seq /\ \A i \in 1..Len(x.delivered) : q[i] = x.delivered[i]
    BY <1>1, AppendProperties
  <1>4. DOMAIN q = DOMAIN x.delivered \cup {Len(x.delivered) + 1} BY <1>2, <1>3
  <1>5. d \in Seq(Nat) BY <1>1, <1>2
  <1>6. y = [x EXCEPT !.test_request_counter = 0, !.delivered = d] BY DEF Heard
  <1>7. /\ \A i \in DOMAIN d : 
               (d[i] = m.seq /\ m.type \in AppTypes) \/ (i \in DOMAIN x.delivered /\ d[i] = x.delivered[i])
        /\ \A i \in DOMAIN x.delivered : i \in DOMAIN d /\ d[i] = x.delivered[i]
        /\ m.type \in AppTypes => \E i \in DOMAIN d : d[i] = m.seq
    BY <1>3, <1>4
  <1> HIDE DEF d, q, y
  <1>8. y \in State BY <1>1, <1>5, <1>6 DEF State
  <1>9. /\ y.cfg = x.cfg /\ y.sent_reset = x.sent_reset /\ y.received_reset = x.received_reset
        /\ y.next_sender = x.next_sender /\ y.next_target = x.next_target
        /\ y.saved = x.saved /\ y.out = x.out /\ y.delivered = d
        /\ y.stash = x.stash /\ y.phase = x.phase /\ y.replay = x.replay
    BY <1>1, <1>6 DEF State
  <1>10. Tame(y) BY <1>9 DEF Good, Tame
  <1>11. Numbers(y) = Numbers(x) BY <1>9 DEF Numbers
  <1>12. Heeds(y, w.b) BY <1>9 DEF Good, Heeds
  <1>13. Hears(y, w)
    <2>1. m.type \in AppTypes => m.seq \in w.app BY DEF Arrives, Truthful
    <2>2. \A i \in DOMAIN d : d[i] \in w.app BY <1>7, <2>1 DEF Good, Hears
    <2>3. w.calm => \A n \in w.app : n < x.next_target => \E i \in DOMAIN d : d[i] = n
      BY <1>7 DEF Good, Hears
    <2> QED BY <1>9, <2>2, <2>3 DEF Good, Hears
  <1>14. Speaks(y, w) BY <1>9, <1>11 DEF Good, Speaks
  <1>15. Replays(y, w.calm) BY <1>9, <1>11 DEF Good, Replays
  <1>16. Good(y, w) BY <1>8, <1>10, <1>12, <1>13, <1>14, <1>15 DEF Good
  <1> QED BY <1>7, <1>9, <1>16 DEF y

\* Session::verify, on what an engine of this code sends and with applications
\* that accept it: out of order, stashed, a duplicate, or heard.
LEMMA VerifyCases ==
  ASSUME NEW x, NEW m, NEW w, Good(x, w), Arrives(x, m, w), NEW hi \in BOOLEAN, NEW lo \in BOOLEAN
  PROVE  LET v == Verify(x, m, Fine, hi, lo)
         IN  \/ v = Return(x, "Disconnect")
             \/ v = Return(x, "Stop")
             \/ hi /\ m.seq > x.next_target /\ v = Return(OnTargetTooHigh(x, m), "Stop")
             \/ /\ v = Return(Heard(x, m), "Continue")
                /\ hi => m.seq <= x.next_target
                /\ lo => m.seq >= x.next_target \/ m.type = "SequenceReset"
  <1>1. x \in State /\ m \in Msg BY DEF Good, Arrives
  <1>2. m.seq \in Nat /\ m.seq # 0 /\ x.next_target \in Nat
    BY <1>1, NumberFacts, AfterType DEF Arrives, Meek
  <1>3. m.defect = "none" /\ (m.type = "SequenceReset" => m.poss_dup) BY DEF Arrives, Meek
  <1>4. ~m.poss_dup => x.next_target <= m.seq BY DEF Arrives, Fresh
  <1>5. Callback(x, m, Fine) = Return(Heard(x, m), "Continue") BY DEF Callback, Fine, Heard
  <1>6. m.poss_dup => OnTargetTooLow(x, m) = Return(x, "Stop") BY <1>3 DEF OnTargetTooLow
  <1>7. Verify(x, m, Fine, hi, lo) \in {Return(x, "Disconnect"), CheckSeqNum(x, m, Fine, hi, lo)}
    BY <1>3 DEF Verify, Fine
  <1> DEFINE c == CheckSeqNum(x, m, Fine, hi, lo)
  <1>8. \/ hi /\ m.seq > x.next_target /\ c = Return(OnTargetTooHigh(x, m), "Stop")
        \/ lo /\ m.seq < x.next_target /\ c = OnTargetTooLow(x, m)
        \/ /\ c = Return(Heard(x, m), "Continue")
           /\ hi => m.seq <= x.next_target
           /\ lo => m.seq >= x.next_target \/ m.type = "SequenceReset"
    BY <1>2, <1>5 DEF CheckSeqNum, ObeyAnyway
  <1>9. lo /\ m.seq < x.next_target => m.poss_dup BY <1>2, <1>4
  <1> HIDE DEF c
  <1> QED BY <1>6, <1>7, <1>8, <1>9 DEF c

\* What a call returns, its flow included.
LEMMA VerifyGood ==
  ASSUME NEW x, NEW m, NEW w, Fit(w), Good(x, w), Arrives(x, m, w), NEW hi \in BOOLEAN, NEW lo \in BOOLEAN
  PROVE  Good(Verify(x, m, Fine, hi, lo), w)
  <1>1. \A y : \A f \in Flows : Good(y, w) => Good(Return(y, f), w) BY ReturnGood
  <1>2. m.seq > x.next_target => Good(OnTargetTooHigh(x, m), w) BY OnTargetTooHighGood
  <1>3. Good(Heard(x, m), w) BY HeardGood
  <1> QED BY <1>1, <1>2, <1>3, VerifyCases, FieldFacts

\* When verify lets a message through.
LEMMA VerifyThrough ==
  ASSUME NEW x, NEW m, NEW w, Good(x, w), Arrives(x, m, w), NEW hi \in BOOLEAN, NEW lo \in BOOLEAN,
         Verify(x, m, Fine, hi, lo).flow = "Continue"
  PROVE  /\ Verify(x, m, Fine, hi, lo) = Return(Heard(x, m), "Continue")
         /\ hi => m.seq <= x.next_target
         /\ lo => m.seq >= x.next_target \/ m.type = "SequenceReset"
  <1>1. x \in State BY DEF Good
  <1>2. Return(x, "Disconnect").flow # "Continue" /\ Return(x, "Stop").flow # "Continue"
    BY <1>1 DEF Return, State
  <1>3. m.seq > x.next_target => Return(OnTargetTooHigh(x, m), "Stop").flow # "Continue"
    <2>1. m \in Msg BY DEF Arrives
    <2>2. m.seq > x.next_target => OnTargetTooHigh(x, m) \in State BY <1>1, <2>1, OnTargetTooHighType
    <2> QED BY <2>2 DEF Return, State
  <1> QED BY <1>2, <1>3, VerifyCases

\* The record verify lets through, which is the message heard.
LEMMA ThroughFacts ==
  ASSUME NEW x, NEW m, NEW w, Good(x, w), Arrives(x, m, w)
  PROVE  LET v == Return(Heard(x, m), "Continue")
         IN  /\ Good(v, w)
             /\ m.type \in AppTypes => \E i \in DOMAIN v.delivered : v.delivered[i] = m.seq
             /\ v.next_target = x.next_target /\ v.next_sender = x.next_sender
             /\ v.cfg = x.cfg /\ v.phase = x.phase
  <1>1. Good(Heard(x, m), w) /\ Heard(x, m) \in State BY HeardGood DEF Good
  <1>2. Good(Return(Heard(x, m), "Continue"), w) BY <1>1, ReturnGood, FieldFacts
  <1> DEFINE h == Heard(x, m)
             v == Return(h, "Continue")
  <1>3. /\ v.delivered = h.delivered /\ v.next_target = h.next_target /\ v.next_sender = h.next_sender
        /\ v.cfg = h.cfg /\ v.phase = h.phase
    BY <1>1 DEF Return, State
  <1> HIDE DEF h, v
  <1> QED BY <1>2, <1>3, HeardGood DEF h, v

\* A message in sequence that is with the application, or not for it, is
\* consumed.
LEMMA ConsumeGood ==
  ASSUME NEW x, NEW m, NEW w, Fit(w), Good(x, w), m \in Msg, Truthful(m, w.app, w.calm), After(m) <= w.b,
         m.type # "SequenceReset", m.seq = x.next_target,
         m.type \in AppTypes => \E i \in DOMAIN x.delivered : x.delivered[i] = m.seq
  PROVE  Good(IncrTarget(x), w)
  <1>1. m.seq \in Nat /\ w.b \in Nat BY AfterType DEF Fit, World
  <1>2. x.next_target < w.b BY <1>1 DEF After
  <1>3. w.calm /\ x.next_target \in w.app => m.type \in AppTypes BY DEF Truthful
  <1> QED BY <1>2, <1>3, IncrGood

\* handle_plain_admin and handle_app_message.
LEMMA HandlePlainGood ==
  ASSUME NEW x, NEW m, NEW w, Fit(w), Good(x, w), Arrives(x, m, w), m.type # "SequenceReset"
  PROVE  Good(HandlePlain(x, m, Fine), w)
  <1> DEFINE v == Verify(x, m, Fine, TRUE, TRUE)
  <1>1. Good(v, w) BY VerifyGood
  <1>2. ASSUME v.flow = "Continue" PROVE Good(IncrTarget(v), w)
    <2>1. v = Return(Heard(x, m), "Continue") /\ m.seq <= x.next_target /\ m.seq >= x.next_target
      BY <1>2, VerifyThrough
    <2>2. x.next_target \in Nat /\ m.seq \in Nat /\ m \in Msg BY NumberFacts, AfterType DEF Good, Arrives
    <2> HIDE DEF v
    <2>3. m.seq = v.next_target BY <2>1, <2>2, ThroughFacts
    <2> QED BY <1>1, <2>1, <2>2, <2>3, ThroughFacts, ConsumeGood DEF Arrives
  <1> HIDE DEF v
  <1> QED BY <1>1, <1>2 DEF HandlePlain, v

\* Session::handle_test_request.
LEMMA HandleTestRequestGood ==
  ASSUME NEW x, NEW m, NEW w, Fit(w), Good(x, w), Arrives(x, m, w), m.type = "TestRequest"
  PROVE  Good(HandleTestRequest(x, m, Fine), w)
  <1> DEFINE v == Verify(x, m, Fine, TRUE, TRUE)
             y == SendMessage(v, WithType("Heartbeat"))
  <1>1. Good(v, w) BY VerifyGood
  <1>2. ASSUME v.flow = "Continue" PROVE Good(IncrTarget(y), w)
    <2>1. v = Return(Heard(x, m), "Continue") /\ m.seq <= x.next_target /\ m.seq >= x.next_target
      BY <1>2, VerifyThrough
    <2>2. x.next_target \in Nat /\ m.seq \in Nat /\ m \in Msg BY NumberFacts, AfterType DEF Good, Arrives
    <2> HIDE DEF v
    <2>3. m.seq = v.next_target BY <2>1, <2>2, ThroughFacts
    <2>4. Good(y, w) BY <1>1, AdminSayable, SendMessageGood
    <2>5. y.next_target = v.next_target BY <1>1, SendKeeps
    <2>6. m.type \notin AppTypes BY DEF AppTypes
    <2> HIDE DEF y
    <2> QED BY <2>2, <2>3, <2>4, <2>5, <2>6, ConsumeGood DEF Arrives
  <1> HIDE DEF v
  <1> QED BY <1>1, <1>2 DEF HandleTestRequest, v

\* Session::handle_logout: a Logout above the expected number is taken for it,
\* so the expected number may stay behind, but it does not get ahead.
LEMMA HandleLogoutGood ==
  ASSUME NEW x, NEW m, NEW w, Fit(w), Good(x, w), Arrives(x, m, w), m.type = "Logout"
  PROVE  Good(HandleLogout(x, m, Fine), w)
  <1> DEFINE v == Verify(x, m, Fine, FALSE, FALSE)
             y == IF v.sent_logout THEN v ELSE InitiateLogout(v)
  <1>1. Good(v, w) BY VerifyGood
  <1>2. ~w.calm BY DEF Arrives, Truthful
  <1>3. ASSUME v.flow = "Continue" PROVE Good(IncrTarget(y), w)
    <2>1. v = Return(Heard(x, m), "Continue") BY <1>3, VerifyThrough
    <2>2. x.next_target \in Nat /\ m.seq \in Nat /\ w.b \in Nat
      BY NumberFacts, AfterType DEF Good, Arrives, Fit, World
    <2>3. ~m.poss_dup BY DEF Arrives, Meek, AppTypes
    <2>4. x.next_target < w.b BY <2>2, <2>3 DEF Arrives, Fresh, After
    <2> HIDE DEF v
    <2>5. v.next_target = x.next_target BY <2>1, ThroughFacts
    <2>6. v \in State /\ [v EXCEPT !.sent_logout = TRUE] \in State BY <1>1 DEF Good, State
    <2>7. Alike(v, [v EXCEPT !.sent_logout = TRUE]) BY <2>6 DEF Alike, State
    <2>8. Good([v EXCEPT !.sent_logout = TRUE], w) BY <1>1, <2>7, AlikeGood
    <2>9. InitiateLogout(v).next_target = v.next_target
      <3>1. [v EXCEPT !.sent_logout = TRUE].next_target = v.next_target BY <2>6 DEF State
      <3> QED BY <2>8, <3>1, SendKeeps DEF InitiateLogout
    <2>10. Good(y, w) /\ y.next_target = x.next_target BY <1>1, <1>2, <2>5, <2>9, InitiateLogoutGood
    <2> HIDE DEF y
    <2> QED BY <1>2, <2>4, <2>10, IncrGood
  <1>4. ~x.cfg.reset_on_logout BY DEF Good, Tame, Plain
  <1>5. HandleLogout(x, m, Fine) = IF v.flow # "Continue" THEN v ELSE Return(IncrTarget(y), "Disconnect")
    BY <1>4 DEF HandleLogout
  <1> HIDE DEF v, y
  <1> QED BY <1>1, <1>3, <1>5, ReturnGood, FieldFacts

\* Session::handle_sequence_reset: a GapFill passes over numbers that are not
\* application messages only.
LEMMA HandleSequenceResetGood ==
  ASSUME NEW x, NEW m, NEW w, Fit(w), Good(x, w), Arrives(x, m, w), m.type = "SequenceReset"
  PROVE  Good(HandleSequenceReset(x, m, Fine), w)
  <1> DEFINE v == Verify(x, m, Fine, m.flag, m.flag)
             y == [v EXCEPT !.next_target = m.num, !.stash = {z \in @ : z.seq >= m.num}]
  <1>1. m.flag /\ m.flag \in BOOLEAN /\ m \in Msg BY DEF Arrives, Meek, Msg
  <1>2. Good(v, w) BY <1>1, VerifyGood
  <1>3. Good(SendReject(v, m), w) BY <1>2, SendRejectGood
  <1>4. ASSUME v.flow = "Continue", m.num > v.next_target PROVE Good(y, w)
    <2>1. v = Return(Heard(x, m), "Continue") /\ m.seq <= x.next_target BY <1>1, <1>4, VerifyThrough
    <2> HIDE DEF v
    <2>2. v.next_target = x.next_target BY <2>1, ThroughFacts
    <2>3. v \in State /\ v.next_target \in Nat /\ m.num \in Nat /\ m.seq \in Nat /\ w.app \subseteq Nat
      BY <1>1, <1>2, NumberFacts, AfterType DEF Good, Fit, World
    <2>4. m.num \in SeqNum BY <1>4, <2>3 DEF SeqNum
    <2>5. {z \in v.stash : z.seq >= m.num} \in SUBSET Msg BY <2>3 DEF State
    <2>6. y \in State BY <2>3, <2>4, <2>5 DEF State
    <2>7. /\ y.cfg = v.cfg /\ y.sent_reset = v.sent_reset /\ y.received_reset = v.received_reset
          /\ y.next_sender = v.next_sender /\ y.next_target = m.num
          /\ y.saved = v.saved /\ y.out = v.out /\ y.delivered = v.delivered
          /\ y.phase = v.phase /\ y.replay = v.replay
      BY <2>3 DEF State
    <2>8. y.stash \subseteq v.stash BY <2>3 DEF State
    <2> HIDE DEF y
    <2>9. Tame(y) BY <1>2, <2>7 DEF Good, Tame
    <2>10. Numbers(y) = Numbers(v) BY <2>7 DEF Numbers
    <2>11. Heeds(y, w.b) BY <1>2, <2>7, <2>8 DEF Good, Heeds, Arrives, After
    <2>12. Hears(y, w)
      <3>1. w.calm => \A n \in w.app : n < m.num => n < v.next_target
        BY <2>1, <2>2, <2>3 DEF Arrives, Truthful
      <3> QED BY <1>2, <2>7, <2>8, <3>1 DEF Good, Hears
    <2>13. Speaks(y, w) BY <1>2, <2>7, <2>10 DEF Good, Speaks
    <2>14. Replays(y, w.calm) BY <1>2, <2>7, <2>10 DEF Good, Replays
    <2> QED BY <2>6, <2>9, <2>11, <2>12, <2>13, <2>14 DEF Good
  <1>5. \/ HandleSequenceReset(x, m, Fine) = y /\ v.flow = "Continue" /\ m.num > v.next_target
        \/ HandleSequenceReset(x, m, Fine) = SendReject(v, m)
        \/ HandleSequenceReset(x, m, Fine) = v
    BY DEF HandleSequenceReset
  <1> HIDE DEF v, y
  <1> QED BY <1>2, <1>3, <1>4, <1>5

\* The end of handle_resend_request: the request is consumed if in sequence.
LEMMA ConsumeRequestGood ==
  ASSUME NEW x, NEW w, NEW q \in Nat, Fit(w), Good(x, w), q < w.b, w.calm => q \notin w.app
  PROVE  Good(ConsumeRequest(x, q), w)
  BY IncrGood DEF ConsumeRequest

\* A GapFill of numbers below the next one.
LEMMA SendGapFillGood ==
  ASSUME NEW x, NEW w, Good(x, w), NEW begin \in Nat \ {0}, NEW new_seq \in Nat, new_seq <= x.next_sender,
         w.calm => \A n \in Numbers(x) : n < begin \/ new_seq <= n
  PROVE  Good(SendGapFill(x, begin, new_seq), w)
  <1> DEFINE f == GapFill(begin, new_seq)
  <1>1. f \in Msg
    <2>1. WithType("SequenceReset") \in Msg BY WithTypeType, TypeNames
    <2> QED BY <2>1 DEF GapFill, Msg
  <1>2. /\ f.type = "SequenceReset" /\ f.seq = begin /\ f.num = new_seq /\ f.poss_dup = TRUE /\ f.flag = TRUE
        /\ f.defect = "none" /\ f.type \notin AppTypes
    BY DEF GapFill, WithType, AppTypes
  <1> HIDE DEF f
  <1>3. Sendable(x, f, w) BY <1>1, <1>2 DEF Sendable, Meek, Truthful, After, Fresh
  <1> QED BY <1>3, TransmitGood DEF SendGapFill, f

\* Session::answer_resend.
LEMMA AnswerResendGood ==
  ASSUME NEW x, NEW w, NEW begin \in Nat \ {0}, NEW end \in Nat, NEW q \in Nat, Fit(w), Good(x, w),
         end < x.next_sender, q < w.b, w.calm => q \notin w.app
  PROVE  Good(AnswerResend(x, begin, end, q), w)
  <1> DEFINE p == [begin |-> begin, seq |-> begin, end |-> end, gap_begin |-> 0,
                   request |-> q, mark |-> Len(x.out)]
             y == [x EXCEPT !.phase = "resend", !.replay = p]
             g == SendGapFill(x, begin, end + 1)
  <1>1. x \in State /\ x.next_sender \in Nat BY NumberFacts DEF Good
  <1>2. Good(ConsumeRequest(x, q), w) BY ConsumeRequestGood
  <1>3. ASSUME ~x.cfg.persist_messages PROVE Good(ConsumeRequest(g, q), w)
    <2>1. ~w.calm BY <1>3 DEF Good, Tame, Plain, Fit
    <2>2. end + 1 <= x.next_sender /\ end + 1 \in Nat BY <1>1
    <2>3. Good(g, w) BY <2>1, <2>2, SendGapFillGood
    <2> HIDE DEF g
    <2> QED BY <2>3, ConsumeRequestGood
  <1>4. ASSUME begin <= end PROVE Good(y, w)
    <2>1. Len(x.out) \in Nat BY <1>1, LenProperties DEF State
    <2>2. p \in Replay BY <2>1 DEF Replay
    <2>3. p.seq = begin /\ p.end = end /\ p.gap_begin = 0 /\ p.request = q OBVIOUS
    <2> HIDE DEF p
    <2>4. y \in State BY <1>1, <2>2, FieldFacts DEF State
    <2>5. /\ y.cfg = x.cfg /\ y.sent_reset = x.sent_reset /\ y.received_reset = x.received_reset
          /\ y.next_sender = x.next_sender /\ y.next_target = x.next_target
          /\ y.saved = x.saved /\ y.out = x.out /\ y.delivered = x.delivered
          /\ y.stash = x.stash /\ y.phase = "resend" /\ y.replay = p
      BY <1>1 DEF State
    <2> HIDE DEF y
    <2>6. Tame(y) BY <2>5 DEF Good, Tame
    <2>7. Numbers(y) = Numbers(x) BY <2>5 DEF Numbers
    <2>8. Heeds(y, w.b) BY <2>3, <2>5 DEF Good, Heeds
    <2>9. Hears(y, w) BY <2>3, <2>5 DEF Good, Hears
    <2>10. Speaks(y, w) BY <2>5, <2>7 DEF Good, Speaks
    <2>11. Replays(y, w.calm) BY <1>4, <2>3, <2>5 DEF Replays
    <2> QED BY <2>4, <2>6, <2>8, <2>9, <2>10, <2>11 DEF Good
  <1>5. \/ AnswerResend(x, begin, end, q) = ConsumeRequest(x, q)
        \/ AnswerResend(x, begin, end, q) = y /\ begin <= end
        \/ AnswerResend(x, begin, end, q) = ConsumeRequest(g, q) /\ ~x.cfg.persist_messages
    <2>1. x.cfg.persist_messages \in BOOLEAN BY <1>1 DEF State, Config
    <2> QED BY <2>1 DEF AnswerResend
  <1> HIDE DEF y, g
  <1> QED BY <1>2, <1>3, <1>4, <1>5

\* Session::handle_resend_request.
LEMMA HandleResendRequestGood ==
  ASSUME NEW x, NEW m, NEW w, Fit(w), Good(x, w), Arrives(x, m, w), m.type = "ResendRequest"
  PROVE  Good(HandleResendRequest(x, m, Fine), w)
  <1> DEFINE v == Verify(x, m, Fine, FALSE, FALSE)
             end == IF m.end = 0 \/ m.end >= v.next_sender THEN v.next_sender - 1 ELSE m.end
  <1>1. Good(v, w) BY VerifyGood
  <1> HIDE DEF v
  <1>2. m \in Msg /\ m.seq \in Nat /\ m.num \in Nat \ {0} /\ m.end \in Nat BY AfterType DEF Arrives, Meek, Msg
  <1>3. v.next_sender \in Nat /\ v.next_sender # 0 BY <1>1, NumberFacts DEF Good
  <1>4. end \in Nat /\ end < v.next_sender BY <1>2, <1>3
  <1>5. m.seq < w.b /\ (w.calm => m.seq \notin w.app)
    <2>1. w.b \in Nat /\ m.type \notin AppTypes BY DEF Fit, World, AppTypes
    <2> QED BY <1>2, <2>1 DEF Arrives, After, Truthful
  <1> HIDE DEF end
  <1>6. Good(AnswerResend(v, m.num, end, m.seq), w) BY <1>1, <1>2, <1>4, <1>5, AnswerResendGood
  <1>7. HandleResendRequest(x, m, Fine) \in {v, AnswerResend(v, m.num, end, m.seq)}
    BY DEF HandleResendRequest, v, end
  <1> QED BY <1>1, <1>6, <1>7

\* The locals of the loop change, within its bounds.
LEMMA ReplayGood ==
  ASSUME NEW x, NEW w, NEW p \in Replay, Good(x, w), x.phase = "resend",
         p.request = x.replay.request, p.end = x.replay.end, p.seq <= p.end + 1,
         w.calm /\ p.gap_begin # 0 => \A n \in Numbers(x) : n < p.gap_begin \/ p.seq <= n
  PROVE  Good([x EXCEPT !.replay = p], w)
  <1> DEFINE y == [x EXCEPT !.replay = p]
  <1>1. x \in State BY DEF Good
  <1>2. y \in State BY <1>1 DEF State
  <1>3. /\ y.cfg = x.cfg /\ y.sent_reset = x.sent_reset /\ y.received_reset = x.received_reset
        /\ y.next_sender = x.next_sender /\ y.next_target = x.next_target
        /\ y.saved = x.saved /\ y.out = x.out /\ y.delivered = x.delivered
        /\ y.stash = x.stash /\ y.phase = x.phase /\ y.replay = p
    BY <1>1 DEF State
  <1> HIDE DEF y
  <1>4. Tame(y) BY <1>3 DEF Good, Tame
  <1>5. Numbers(y) = Numbers(x) BY <1>3 DEF Numbers
  <1>6. Heeds(y, w.b) BY <1>3 DEF Good, Heeds
  <1>7. Hears(y, w) BY <1>3 DEF Good, Hears
  <1>8. Speaks(y, w) BY <1>3, <1>5 DEF Good, Speaks
  <1>9. Replays(y, w.calm) BY <1>3, <1>5 DEF Good, Replays
  <1> QED BY <1>2, <1>4, <1>6, <1>7, <1>8, <1>9 DEF Good, y

\* A transmission changes neither the loop's locals nor the numbers.
LEMMA TransmitKeeps ==
  ASSUME NEW x, NEW f, NEW w, Good(x, w)
  PROVE  /\ Transmit(x, f).replay = x.replay /\ Transmit(x, f).phase = x.phase
         /\ Transmit(x, f).next_sender = x.next_sender /\ Transmit(x, f).saved = x.saved
  <1>1. x \in State /\ ~x.cfg.reset_on_disconnect BY DEF Good, Tame, Plain
  <1> QED BY <1>1 DEF Transmit, Disconnect, State

\* The loop's locals do not matter to Session::disconnect.
LEMMA DisconnectApart ==
  ASSUME NEW x \in State, NEW p, x.connected, ~x.cfg.reset_on_disconnect
  PROVE  Disconnect([x EXCEPT !.replay = p]) = [Disconnect(x) EXCEPT !.replay = p]
  <1> DEFINE y == [x EXCEPT !.replay = p]
             a == x.app_online /\ ~(x.received_logon \/ x.sent_logon)
             left(z) == [z EXCEPT !.connected = FALSE, !.writer = "fresh",
                                  !.received_logon = FALSE, !.sent_logon = FALSE, !.sent_logout = FALSE,
                                  !.sent_reset = FALSE, !.received_reset = FALSE,
                                  !.test_request_counter = 0, !.resend_range = NoRange,
                                  !.stash = {}, !.app_online = a]
  <1>1. /\ y.connected = x.connected /\ y.cfg = x.cfg /\ y.app_online = x.app_online
        /\ y.received_logon = x.received_logon /\ y.sent_logon = x.sent_logon
    BY DEF State
  <1>2. Disconnect(x) = left(x) BY DEF Disconnect
  <1>3. Disconnect(y) = left(y)
    <2> HIDE DEF y
    <2> QED BY <1>1 DEF Disconnect
  <1>4. left(y) = [left(x) EXCEPT !.replay = p]
    <2> HIDE DEF a
    <2> QED BY DEF State
  <1> QED BY <1>2, <1>3, <1>4

\* One iteration of Session::retransmit.
LEMMA RetransmitStepGood ==
  ASSUME NEW x, NEW w, Fit(w), Good(x, w), x.phase = "resend", x.replay.seq <= x.replay.end
  PROVE  Good(RetransmitStep(x, FALSE), w)
  <1> DEFINE p == x.replay
             found == {z \in x.saved : z.seq = p.seq}
             p1 == [p EXCEPT !.seq = p.seq + 1]
             next == [x EXCEPT !.replay.seq = p.seq + 1]
             z == CHOOSE z \in found : TRUE
             frame == [WithType(z.type) EXCEPT !.seq = z.seq, !.poss_dup = TRUE, !.payload = z.payload]
             filled == IF p.gap_begin = 0 THEN next ELSE SendGapFill(next, p.gap_begin, p.seq)
             grown == [next EXCEPT !.replay.gap_begin = IF p.gap_begin = 0 THEN p.seq ELSE @]
             flushed == [filled EXCEPT !.replay.gap_begin = 0]
  <1>1. /\ x \in State /\ p \in Replay /\ p.seq \in Nat /\ p.end \in Nat /\ p.gap_begin \in Nat
        /\ x.next_sender \in Nat /\ Numbers(x) \subseteq Nat
    BY NumberFacts DEF Good, State
  <1>2. p.end < x.next_sender BY DEF Good, Replays
  <1>3. RetransmitStep(x, FALSE) = IF found = {} THEN grown ELSE Transmit(flushed, frame)
    BY DEF RetransmitStep
  <1>4. ASSUME found = {} PROVE Good(grown, w)
    <2> DEFINE g == IF p.gap_begin = 0 THEN p.seq ELSE p.gap_begin
               p2 == [p1 EXCEPT !.gap_begin = g]
    <2>1. g \in Nat BY <1>1
    <2> HIDE DEF g
    <2>2. p2 \in Replay /\ p2.seq = p.seq + 1 /\ p2.gap_begin = g /\ p2.end = p.end /\ p2.request = p.request
      <3>1. p1 \in Replay /\ p1.seq = p.seq + 1 /\ p1.end = p.end /\ p1.request = p.request
        BY <1>1 DEF Replay
      <3> HIDE DEF p1
      <3> QED BY <2>1, <3>1 DEF Replay
    <2>3. w.calm /\ p2.gap_begin # 0 => \A n \in Numbers(x) : n < p2.gap_begin \/ p2.seq <= n
      <3> SUFFICES ASSUME w.calm, g # 0, NEW n \in Numbers(x) PROVE n < g \/ p.seq + 1 <= n
        BY <2>2
      <3>1. n \in Nat BY <1>1
      <3>2. n # p.seq
        <4>1. Keeping BY DEF Fit
        <4> QED BY <1>4, <4>1 DEF Numbers
      <3>3. p.gap_begin # 0 => n < p.gap_begin \/ p.seq <= n BY DEF Good, Replays
      <3> QED BY <1>1, <3>1, <3>2, <3>3 DEF g
    <2>4. grown = [x EXCEPT !.replay = p2]
      <3>1. next = [x EXCEPT !.replay = p1] BY <1>1 DEF State
      <3>2. next.replay = p1 /\ p1.gap_begin = p.gap_begin BY <1>1, <3>1 DEF State, Replay
      <3>3. grown = [next EXCEPT !.replay = p2] BY <3>2 DEF g
      <3> HIDE DEF next, p1, p2
      <3> QED BY <1>1, <3>1, <3>3 DEF State
    <2> HIDE DEF p2, grown
    <2> QED BY <1>1, <2>2, <2>3, <2>4, ReplayGood
  <1>5. ASSUME found # {} PROVE Good(Transmit(flushed, frame), w)
    <2>1. p1 \in Replay /\ p1.seq = p.seq + 1 /\ p1.gap_begin = p.gap_begin /\ p1.end = p.end /\ p1.request = p.request
      BY <1>1 DEF Replay
    <2>2. p.seq \in Numbers(x) BY <1>1, <1>5 DEF Numbers
    <2>3. next = [x EXCEPT !.replay = p1] BY <1>1 DEF State
    <2> DEFINE p0 == [p1 EXCEPT !.gap_begin = 0]
               calmly == [x EXCEPT !.replay = p0]
               quick == IF p.gap_begin = 0 THEN x ELSE SendGapFill(x, p.gap_begin, p.seq)
    <2>4. p0 \in Replay /\ p0.gap_begin = 0 /\ p0.seq = p.seq + 1 /\ p0.end = p.end /\ p0.request = p.request
      BY <2>1 DEF Replay
    <2>5. Good(quick, w) /\ quick.replay = p /\ quick.phase = "resend"
          /\ quick.next_sender = x.next_sender /\ quick.saved = x.saved
      <3>1. p.seq <= x.next_sender BY <1>1, <1>2
      <3>2. ASSUME p.gap_begin # 0 PROVE Good(SendGapFill(x, p.gap_begin, p.seq), w)
        <4>1. w.calm => \A n \in Numbers(x) : n < p.gap_begin \/ p.seq <= n
          BY <3>2 DEF Good, Replays
        <4> QED BY <1>1, <3>1, <3>2, <4>1, SendGapFillGood
      <3> QED BY <3>2, TransmitKeeps DEF SendGapFill
    <2>6. flushed = [quick EXCEPT !.replay = p0]
      <3>1. CASE p.gap_begin = 0
        <4>1. next \in State /\ next.replay = p1
          <5> HIDE DEF p1
          <5> QED BY <1>1, <2>1, <2>3 DEF State
        <4>2. filled = next /\ quick = x BY <3>1
        <4>3. flushed = [next EXCEPT !.replay = p0] BY <4>1, <4>2
        <4> HIDE DEF next, p0, p1
        <4> QED BY <1>1, <2>3, <4>2, <4>3 DEF State
      <3>2. CASE p.gap_begin # 0
        <4> DEFINE f == GapFill(p.gap_begin, p.seq)
        <4>1. ~x.cfg.reset_on_disconnect BY DEF Good, Tame, Plain
        <4>2. filled = Transmit(next, f) /\ quick = Transmit(x, f) BY <3>2 DEF SendGapFill
        <4> HIDE DEF f, p1
        <4>3. next \in State /\ next.replay = p1 BY <1>1, <2>1, <2>3 DEF State
        <4>4. Transmit(next, f) = [Transmit(x, f) EXCEPT !.replay = p1]
          <5>1. next.connected = x.connected /\ next.writer = x.writer BY <1>1, <2>3 DEF State
          <5>2. CASE ~x.connected BY <2>3, <5>1, <5>2 DEF Transmit
          <5>3. CASE x.connected /\ x.writer = "dead"
            <6>1. Transmit(next, f) = Disconnect(next) /\ Transmit(x, f) = Disconnect(x)
              BY <5>1, <5>3 DEF Transmit
            <6> HIDE DEF next
            <6> QED BY <1>1, <2>3, <4>1, <5>3, <6>1, DisconnectApart
          <5>4. CASE x.connected /\ x.writer # "dead"
            <6>1. /\ Transmit(next, f) = [next EXCEPT !.out = Append(@, f), !.writer = "used"]
                  /\ Transmit(x, f) = [x EXCEPT !.out = Append(@, f), !.writer = "used"]
              BY <5>1, <5>4 DEF Transmit
            <6> HIDE DEF next
            <6> QED BY <1>1, <2>3, <6>1 DEF State
          <5> QED BY <5>2, <5>3, <5>4
        <4>5. quick \in State BY <2>5 DEF Good
        <4>6. filled.replay = p1 BY <4>2, <4>4, <4>5 DEF State
        <4>7. flushed = [filled EXCEPT !.replay = p0] BY <4>6
        <4> HIDE DEF p0, filled, quick, flushed
        <4> QED BY <4>2, <4>4, <4>5, <4>7 DEF State
      <3> QED BY <3>1, <3>2
    <2>7. Numbers(quick) = Numbers(x) BY <2>5 DEF Numbers
    <2> HIDE DEF p0, p1, quick, flushed, next
    <2>8. p0.seq <= p0.end + 1 BY <1>1, <2>4
    <2>9. Good(flushed, w) BY <2>4, <2>5, <2>6, <2>8, ReplayGood
    <2>10. quick \in State BY <2>5 DEF Good
    <2>11. flushed.saved = x.saved /\ flushed.next_sender = x.next_sender BY <2>5, <2>6, <2>10 DEF State
    <2>12. Numbers(flushed) = Numbers(x) BY <2>11 DEF Numbers
    <2>13. z \in x.saved /\ z.seq = p.seq BY <1>5
    <2>14. z \in Saved /\ z.type = AppType BY <2>13 DEF Good, Tame, State
    <2> HIDE DEF z
    <2>15. frame \in Msg
      <3>1. WithType(z.type) \in Msg BY <2>14, WithTypeType, TypeNames DEF Saved
      <3>2. z.seq \in Nat /\ z.payload \in Payload BY <2>14, SeqNumFacts DEF Saved
      <3> QED BY <3>1, <3>2 DEF Msg
    <2>16. frame.type = AppType /\ frame.seq = p.seq /\ frame.poss_dup = TRUE /\ frame.defect = "none"
      BY <2>13, <2>14 DEF WithType
    <2>17. p.seq # 0 BY <2>13, <2>14 DEF Saved, SeqNum
    <2>18. AppType \in AppTypes /\ AppTypes \cap {"Logon", "ResendRequest", "SequenceReset", "Logout"} = {}
      BY PairAssumption DEF AppTypes
    <2> HIDE DEF frame
    <2>19. Meek(frame) BY <2>16, <2>17, <2>18 DEF Meek
    <2>20. Truthful(frame, Numbers(flushed), w.calm) BY <2>2, <2>12, <2>16, <2>18 DEF Truthful
    <2>21. After(frame) <= flushed.next_sender BY <1>1, <1>2, <2>11, <2>16, <2>18 DEF After
    <2>22. Sendable(flushed, frame, w)
      BY <2>15, <2>16, <2>18, <2>19, <2>20, <2>21 DEF Sendable, Fresh
    <2> QED BY <2>9, <2>22, TransmitGood
  <1> HIDE DEF grown, flushed, frame, found
  <1> QED BY <1>3, <1>4, <1>5

\* A loop ends, and the stash is next.
LEMMA EnterDrainGood == ASSUME NEW x, NEW w, Good(x, w) PROVE Good(EnterDrain(x), w)
  <1>1. x \in State BY DEF Good
  <1>2. EnterDrain(x) \in State BY <1>1, EnterDrainType
  <1>3. Alike(x, EnterDrain(x)) BY <1>1, <1>2 DEF Alike, EnterDrain, State
  <1> QED BY <1>3, AlikeGood

\* The end of Session::retransmit and of handle_resend_request.
LEMMA RetransmitEndGood ==
  ASSUME NEW x, NEW w, Fit(w), Good(x, w), x.phase = "resend", x.replay.seq > x.replay.end
  PROVE  Good(RetransmitEnd(x), w)
  <1> DEFINE p == x.replay
             r == IF p.gap_begin = 0 THEN x ELSE SendGapFill(x, p.gap_begin, p.end + 1)
  <1>1. /\ x \in State /\ p.seq \in Nat /\ p.end \in Nat /\ p.gap_begin \in Nat /\ p.request \in Nat
        /\ x.next_sender \in Nat /\ Numbers(x) \subseteq Nat
    BY NumberFacts DEF Good
  <1>2. p.end < x.next_sender /\ p.seq <= p.end + 1 BY DEF Good, Replays
  <1>3. p.seq = p.end + 1 /\ p.end + 1 \in Nat /\ p.end + 1 <= x.next_sender BY <1>1, <1>2
  <1>4. ASSUME p.gap_begin # 0 PROVE Good(SendGapFill(x, p.gap_begin, p.end + 1), w)
    <2>1. w.calm => \A n \in Numbers(x) : n < p.gap_begin \/ p.end + 1 <= n
      BY <1>3, <1>4 DEF Good, Replays
    <2> QED BY <1>1, <1>3, <1>4, <2>1, SendGapFillGood
  <1>5. Good(r, w) BY <1>4
  <1>6. p.request < w.b /\ (w.calm => p.request \notin w.app) BY DEF Good, Heeds, Hears
  <1>7. RetransmitEnd(x) = EnterDrain(ConsumeRequest(r, p.request)) BY DEF RetransmitEnd
  <1> HIDE DEF r
  <1>8. Good(ConsumeRequest(r, p.request), w) BY <1>1, <1>5, <1>6, ConsumeRequestGood
  <1> QED BY <1>7, <1>8, EnterDrainGood

\* A handler's Err(Disconnect).
LEMMA AbortGood == ASSUME NEW x, NEW w, Good(x, w) PROVE Good(Abort(x), w)
  <1> DEFINE d == Disconnect(x)
  <1>1. x \in State /\ Good(d, w) BY DisconnectGood DEF Good
  <1>2. d \in State /\ Abort(x) \in State BY <1>1, AbortType DEF Good
  <1> HIDE DEF d
  <1>3. Alike(d, Abort(x)) BY <1>2 DEF Alike, Abort, State, d
  <1> QED BY <1>1, <1>3, AlikeGood

\* A send takes the next number.
LEMMA SendCounts ==
  ASSUME NEW x, NEW m, NEW w, Good(x, w) PROVE SendMessage(x, m).next_sender = x.next_sender + 1
  <1> DEFINE f == [m EXCEPT !.seq = x.next_sender, !.poss_dup = FALSE]
             u == [x EXCEPT !.next_sender = @ + 1]
             y == IF x.cfg.persist_messages THEN SaveAndIncr(x, f) ELSE u
  <1>1. x \in State /\ ~x.cfg.reset_on_disconnect BY DEF Good, Tame, Plain
  <1>2. y.next_sender = x.next_sender + 1 BY <1>1 DEF SaveAndIncr, State
  <1>3. Transmit(y, f).next_sender = y.next_sender
    BY <1>1 DEF Transmit, Disconnect, SaveAndIncr, State
  <1>4. SendMessage(x, m) \in {y, Transmit(y, f)} BY DEF SendMessage
  <1> HIDE DEF y, f
  <1> QED BY <1>2, <1>3, <1>4

\* The reply takes the next number.
LEMMA ReplyCounts ==
  ASSUME NEW x, NEW w, Good(x, w) PROVE SendLogonReply(x).next_sender = x.next_sender + 1
  <1> DEFINE y == [x EXCEPT !.sent_reset = @ \/ x.received_reset, !.sent_logon = TRUE]
  <1>1. x \in State /\ ~x.sent_reset /\ ~x.received_reset BY DEF Good, Tame
  <1>2. (x.sent_reset \/ x.received_reset) = FALSE /\ (x.sent_reset \/ x.received_reset) \in BOOLEAN
    BY <1>1
  <1>3. y \in State BY <1>1, <1>2 DEF State
  <1>4. ~y.sent_reset /\ y.next_sender = x.next_sender BY <1>1, <1>2 DEF State
  <1>5. Alike(x, y) BY <1>1, <1>3, <1>4 DEF Alike, State
  <1>6. Good(y, w) BY <1>5, AlikeGood
  <1>7. \E m : SendLogonReply(x) = SendMessage(y, m) BY DEF SendLogonReply
  <1> HIDE DEF y
  <1> QED BY <1>4, <1>6, <1>7, SendCounts

\* The part of handle_logon that accepts: the reply, the number of the Logon,
\* and the replay that NextExpectedMsgSeqNum asks for.
LEMMA AcceptLogonGood ==
  ASSUME NEW x, NEW m, NEW w, Fit(w), Good(x, w), Arrives(x, m, w), m.type = "Logon"
  PROVE  Good(AcceptLogon(x, m), w)
  <1> DEFINE gap == IF x.cfg.send_next_expected /\ m.num # 0 /\ m.num < x.next_sender THEN m.num ELSE 0
             r1 == IF x.cfg.initiator THEN x ELSE SendLogonReply(x)
             r2 == [r1 EXCEPT !.sent_reset = FALSE, !.received_reset = FALSE]
             range == [begin |-> r2.next_target, full_end |-> m.seq - 1, chunk_end |-> m.seq - 1]
             held == [StashInsert(r2, m) EXCEPT !.resend_range = range]
             r3 == CASE m.seq <= r2.next_target -> IncrTarget(r2)
                     [] m.seq > r2.next_target /\ x.cfg.send_next_expected /\ ~m.flag -> held
                     [] OTHER -> OnTargetTooHigh(r2, m)
             r4 == [r3 EXCEPT !.app_online = @ \/ IsLoggedOn(r3)]
  <1>1. AcceptLogon(x, m) = IF gap # 0 THEN AnswerResend(r4, gap, r4.next_sender - 1, 0) ELSE r4
    BY DEF AcceptLogon
  <1>2. /\ x \in State /\ m \in Msg /\ m.seq \in Nat /\ m.num \in Nat /\ x.next_target \in Nat
        /\ x.next_sender \in Nat /\ w.b \in Nat
    BY NumberFacts, AfterType DEF Good, Arrives, Fit, World
  <1>3. /\ ~m.poss_dup /\ x.next_target <= m.seq /\ m.seq + 1 <= w.b
        /\ x.next_target < w.b /\ m.type \notin AppTypes
    <2>1. ~m.poss_dup /\ m.type \notin AppTypes BY DEF Arrives, Meek, AppTypes
    <2>2. x.next_target <= m.seq /\ m.seq + 1 <= w.b BY <2>1 DEF Arrives, Fresh, After
    <2> QED BY <1>2, <2>1, <2>2
  <1>4. gap \in Nat BY <1>2
  <1>5. Good(r1, w) /\ r1.next_target = x.next_target /\ x.next_sender <= r1.next_sender
    <2>1. Good(SendLogonReply(x), w) /\ SendLogonReply(x).next_target = x.next_target
      BY <1>3, SendLogonReplyGood
    <2>2. SendLogonReply(x).next_sender = x.next_sender + 1 BY ReplyCounts
    <2> QED BY <1>2, <2>1, <2>2
  <1> HIDE DEF r1, gap
  <1>6. r1 \in State /\ r2 \in State BY <1>5 DEF Good, State
  <1>7. /\ Alike(r1, r2) /\ r2.next_target = x.next_target /\ r2.next_sender = r1.next_sender
    <2>1. ~r2.sent_reset /\ ~r2.received_reset BY <1>6 DEF State
    <2>2. r2.next_target = r1.next_target /\ r2.next_sender = r1.next_sender BY <1>6 DEF State
    <2>3. Alike(r1, r2) BY <1>6, <2>1 DEF Alike, State
    <2> QED BY <1>5, <2>2, <2>3
  <1>8. Good(r2, w) BY <1>5, <1>7, AlikeGood
  <1> HIDE DEF r2
  <1>9. Arrives(r2, m, w)
    <2>1. r2.next_sender \in Nat BY <1>6, NumberFacts
    <2> QED BY <1>2, <1>5, <1>7, <2>1 DEF Arrives
  <1>10. ASSUME m.seq <= r2.next_target PROVE Good(IncrTarget(r2), w)
    <2>1. m.seq = r2.next_target BY <1>2, <1>3, <1>7, <1>10
    <2> QED BY <1>3, <1>8, <2>1, ConsumeGood DEF Arrives
  <1>11. ASSUME m.seq > r2.next_target PROVE Good(held, w)
    <2>1. Good(StashInsert(r2, m), w) BY <1>8, <1>9, StashInsertGood
    <2> DEFINE h == StashInsert(r2, m)
    <2>2. range \in ResendRange
      <3>1. m.seq - 1 \in Nat /\ r2.next_target \in Nat BY <1>2, <1>7, <1>11
      <3> QED BY <3>1 DEF ResendRange
    <2>3. h \in State BY <2>1 DEF Good
    <2> HIDE DEF h, range
    <2>4. [h EXCEPT !.resend_range = range] \in State BY <2>2, <2>3 DEF State
    <2>5. Alike(h, [h EXCEPT !.resend_range = range]) BY <2>3, <2>4 DEF Alike, State
    <2> QED BY <2>1, <2>5, AlikeGood DEF h
  <1>12. ASSUME m.seq > r2.next_target PROVE Good(OnTargetTooHigh(r2, m), w)
    BY <1>8, <1>9, <1>12, OnTargetTooHighGood
  <1> HIDE DEF held
  <1>13. Good(r3, w)
    <2>1. \/ m.seq <= r2.next_target /\ r3 = IncrTarget(r2)
          \/ m.seq > r2.next_target /\ (r3 = held \/ r3 = OnTargetTooHigh(r2, m))
      BY <1>2, <1>7
    <2> HIDE DEF r3
    <2> QED BY <1>10, <1>11, <1>12, <2>1
  <1> HIDE DEF r3
  <1>14. r3 \in State /\ (r3.app_online \/ IsLoggedOn(r3)) \in BOOLEAN
    BY <1>13 DEF Good, State, IsLoggedOn
  <1>15. r4 \in State BY <1>14 DEF State
  <1>16. Alike(r3, r4) BY <1>14, <1>15 DEF Alike, State
  <1>17. Good(r4, w) BY <1>13, <1>16, AlikeGood
  <1> HIDE DEF r4
  <1>18. ASSUME gap # 0 PROVE Good(AnswerResend(r4, gap, r4.next_sender - 1, 0), w)
    <2>1. r4.next_sender \in Nat /\ r4.next_sender # 0 BY <1>15, NumberFacts
    <2>2. r4.next_sender - 1 \in Nat /\ r4.next_sender - 1 < r4.next_sender BY <2>1
    <2>3. 0 < w.b /\ (w.calm => 0 \notin w.app) BY <1>2, <1>3 DEF Fit
    <2> QED BY <1>4, <1>17, <1>18, <2>2, <2>3, AnswerResendGood
  <1> QED BY <1>1, <1>17, <1>18

\* Without ResetSeqNumFlag and ResetOnLogon a Logon resets nothing.
LEMMA LogonResetsGood ==
  ASSUME NEW x, NEW m, NEW w, Good(x, w), Arrives(x, m, w), m.type = "Logon"
  PROVE  /\ Good(LogonResets(x, m), w)
         /\ LogonResets(x, m).next_target = x.next_target
         /\ LogonResets(x, m).next_sender = x.next_sender
  <1> DEFINE y == [x EXCEPT !.received_reset = @ \/ m.flag]
  <1>1. x \in State /\ ~m.flag /\ ~x.cfg.reset_on_logon /\ ~x.received_reset
    BY DEF Good, Tame, Plain, Arrives, Meek
  <1>2. LogonResets(x, m) = y BY <1>1 DEF LogonResets
  <1>3. (x.received_reset \/ m.flag) = FALSE BY <1>1
  <1>4. y = [x EXCEPT !.received_reset = FALSE] BY <1>3
  <1> HIDE DEF y
  <1>5. y \in State /\ ~y.received_reset BY <1>1, <1>4 DEF State
  <1>6. Alike(x, y) /\ y.next_target = x.next_target /\ y.next_sender = x.next_sender
    BY <1>1, <1>4, <1>5 DEF Alike, State
  <1> QED BY <1>2, <1>6, AlikeGood

\* Session::handle_logon: the next expected number of the peer is one this
\* side has reached, unless a Logout was taken out of order.
LEMMA HandleLogonGood ==
  ASSUME NEW x, NEW m, NEW w, Fit(w), Good(x, w), Arrives(x, m, w), m.type = "Logon"
  PROVE  Good(HandleLogon(x, m, Fine), w)
  <1> DEFINE r == LogonResets(x, m)
             v == Verify(r, m, Fine, FALSE, TRUE)
             a == [v EXCEPT !.received_logon = TRUE]
  <1>1. Good(r, w) /\ r.next_target = x.next_target /\ r.next_sender = x.next_sender
    BY LogonResetsGood
  <1> HIDE DEF r
  <1>2. Arrives(r, m, w) BY <1>1 DEF Arrives
  <1>3. Good(v, w) BY <1>1, <1>2, VerifyGood
  <1>4. \/ HandleLogon(x, m, Fine) \in {Return(x, "Disconnect"), Return(r, "Disconnect"), v}
        \/ /\ v.flow = "Continue" /\ m.num > a.next_sender
           /\ HandleLogon(x, m, Fine) = Return(InitiateLogout(a), "Disconnect")
        \/ v.flow = "Continue" /\ HandleLogon(x, m, Fine) = AcceptLogon(a, m)
    BY DEF HandleLogon, Fine, r
  <1>5. ASSUME v.flow = "Continue"
        PROVE  Good(a, w) /\ a.next_sender = x.next_sender /\ a.next_target = x.next_target
    <2>1. v = Return(Heard(r, m), "Continue") BY <1>1, <1>2, <1>5, VerifyThrough
    <2> HIDE DEF v
    <2>2. v.next_target = r.next_target /\ v.next_sender = r.next_sender
      BY <1>1, <1>2, <2>1, ThroughFacts
    <2>3. v \in State BY <1>3 DEF Good
    <2>4. a \in State BY <2>3 DEF State
    <2>5. Alike(v, a) /\ a.next_sender = v.next_sender /\ a.next_target = v.next_target
      BY <2>3, <2>4 DEF Alike, State
    <2> QED BY <1>1, <1>3, <2>2, <2>5, AlikeGood
  <1> HIDE DEF a, v
  <1>6. ASSUME v.flow = "Continue" PROVE Good(AcceptLogon(a, m), w)
    <2>1. Good(a, w) /\ Arrives(a, m, w) BY <1>5, <1>6 DEF Arrives
    <2> QED BY <2>1, AcceptLogonGood
  <1>7. ASSUME v.flow = "Continue", m.num > a.next_sender
        PROVE  Good(Return(InitiateLogout(a), "Disconnect"), w)
    <2>1. m.num \in Nat /\ x.next_sender \in Nat BY NumberFacts, AfterType DEF Good, Arrives
    <2>2. ~w.calm BY <1>5, <1>7, <2>1 DEF Arrives
    <2>3. Good(InitiateLogout(a), w) BY <1>5, <1>7, <2>2, InitiateLogoutGood
    <2> QED BY <2>3, ReturnGood, FieldFacts
  <1>8. Good(Return(x, "Disconnect"), w) /\ Good(Return(r, "Disconnect"), w)
    BY <1>1, ReturnGood, FieldFacts
  <1> QED BY <1>3, <1>4, <1>6, <1>7, <1>8

\* Session::process.
LEMMA ProcessGood ==
  ASSUME NEW x, NEW m, NEW w, Fit(w), Good(x, w), Arrives(x, m, w)
  PROVE  Good(Process(x, m, Fine), w)
  <1>1. m.defect = "none" BY DEF Arrives, Meek
  <1>2. \/ m.type = "Logon" /\ Process(x, m, Fine) = HandleLogon(x, m, Fine)
        \/ m.type = "TestRequest" /\ Process(x, m, Fine) = HandleTestRequest(x, m, Fine)
        \/ m.type = "ResendRequest" /\ Process(x, m, Fine) = HandleResendRequest(x, m, Fine)
        \/ m.type = "SequenceReset" /\ Process(x, m, Fine) = HandleSequenceReset(x, m, Fine)
        \/ m.type = "Logout" /\ Process(x, m, Fine) = HandleLogout(x, m, Fine)
        \/ m.type # "SequenceReset" /\ Process(x, m, Fine) = HandlePlain(x, m, Fine)
    BY <1>1 DEF Process
  <1> QED BY <1>2, HandleLogonGood, HandleTestRequestGood, HandleResendRequestGood,
             HandleSequenceResetGood, HandleLogoutGood, HandlePlainGood

\* Session::on_inbound.
LEMMA OnInboundGood ==
  ASSUME NEW x, NEW m, NEW w, Fit(w), Good(x, w), Arrives(x, m, w)
  PROVE  Good(OnInbound(x, m, Fine), w)
  <1> DEFINE r == Process(x, m, Fine)
  <1>1. Good(r, w) BY ProcessGood
  <1>2. m.defect # "garbled" BY DEF Arrives, Meek
  <1>3. OnInbound(x, m, Fine) \in {Abort(r), Return(r, "Continue"), EnterDrain(r)}
    BY <1>2 DEF OnInbound, Return
  <1> HIDE DEF r
  <1> QED BY <1>1, <1>3, AbortGood, ReturnGood, EnterDrainGood, FieldFacts

\* One iteration of Session::drain_stash.  A message taken for a Logon or a
\* ResendRequest is not given to the application; an application message is
\* only when its MsgType begins with A.
LEMMA DrainStepGood ==
  ASSUME NEW x, NEW m \in InStash(x), NEW w, Fit(w), Good(x, w)
  PROVE  Good(DrainStep(x, m, Fine), w)
  <1> DEFINE q == [x EXCEPT !.stash = @ \ {m}, !.last_processed_was_queued = TRUE]
             r == Process(q, m, Fine)
  <1>1. x \in State /\ m \in x.stash /\ m.seq = x.next_target /\ m \in Msg
    BY DEF Good, InStash, State
  <1>2. /\ Meek(m) /\ Truthful(m, w.app, w.calm) /\ After(m) <= w.b
        /\ m.seq \in Nat /\ w.b \in Nat
    BY <1>1, AfterType DEF Good, Hears, Heeds, Fit, World
  <1>3. q \in State /\ q.next_target = x.next_target BY <1>1 DEF State
  <1>4. Alike(x, q) BY <1>1, <1>3 DEF Alike, State
  <1>5. Good(q, w) BY <1>4, AlikeGood
  <1>6. DrainStep(x, m, Fine) = IF OnlyAdvances(m) THEN IncrTarget(q)
                                ELSE IF r.flow = "Disconnect" THEN Abort(r)
                                ELSE Return(r, "Continue")
    BY DEF DrainStep
  <1> HIDE DEF q
  <1>7. ASSUME OnlyAdvances(m) PROVE Good(IncrTarget(q), w)
    <2>1. m.type \in AppTypes => ~w.calm
      BY <1>2, <1>7 DEF OnlyAdvances, Meek, Fit, AppTypes
    <2>2. m.type # "SequenceReset" BY <1>7 DEF OnlyAdvances
    <2>3. q.next_target < w.b BY <1>1, <1>2, <1>3, <2>2 DEF After
    <2>4. w.calm => q.next_target \notin w.app BY <1>1, <1>2, <1>3, <2>1, <2>2 DEF Truthful
    <2> QED BY <1>5, <2>3, <2>4, IncrGood
  <1>8. ASSUME ~OnlyAdvances(m) PROVE Good(r, w)
    <2>1. Arrives(q, m, w) BY <1>1, <1>2, <1>3, <1>8 DEF Arrives, OnlyAdvances
    <2> QED BY <1>5, <2>1, ProcessGood
  <1> HIDE DEF r
  <1>9. ~OnlyAdvances(m) => Good(Abort(r), w) /\ Good(Return(r, "Continue"), w)
    BY <1>8, AbortGood, ReturnGood, FieldFacts
  <1> QED BY <1>6, <1>7, <1>9

\* Session::on_attach.
LEMMA OnAttachGood ==
  ASSUME NEW x, NEW w, Fit(w), Good(x, w) PROVE Good(OnAttach(x, TRUE), w)
  <1> DEFINE a == [x EXCEPT !.connected = TRUE, !.test_request_counter = 0]
  <1>1. x \in State /\ ~x.cfg.reset_on_logon BY DEF Good, Tame, Plain
  <1>2. a \in State BY <1>1 DEF State
  <1>3. Alike(x, a) BY <1>1, <1>2 DEF Alike, State
  <1>4. Good(a, w) BY <1>3, AlikeGood
  <1>5. OnAttach(x, TRUE) \in {a, SendLogon(a)} BY <1>1 DEF OnAttach
  <1> HIDE DEF a
  <1> QED BY <1>4, <1>5, SendLogonGood

\* A Heartbeat, and an application message.
LEMMA SendsGood ==
  ASSUME NEW x, NEW w, Fit(w), Good(x, w)
  PROVE  /\ ~(x.sent_logout \/ ~x.received_logon) => Good(OnProtocolDeadline(x, "short", TRUE), w)
         /\ Good(SendMessage(x, WithType(AppType)), w)
  <1>1. Good(SendMessage(x, WithType("Heartbeat")), w) BY AdminSayable, SendMessageGood
  <1>2. ~(x.sent_logout \/ ~x.received_logon) =>
            OnProtocolDeadline(x, "short", TRUE) \in {x, SendMessage(x, WithType("Heartbeat"))}
    BY DEF OnProtocolDeadline
  <1>3. Sayable(WithType(AppType), w)
    <2>1. AppType \in AppTypes BY PairAssumption
    <2>2. AppType \in MsgTypes \ {"SequenceReset"} /\ AppType \notin {"Logon", "ResendRequest", "Logout"}
      BY <2>1 DEF AppTypes, MsgTypes
    <2> QED BY <2>2, WithTypeSayable
  <1> QED BY <1>1, <1>2, <1>3, SendMessageGood

--------------------------------------------------------------------------------
\* A queue q of frames to x from y: all true, in order.
Carries(q, x, y, calm) ==
    /\ q \in Seq(Msg)
    /\ \A i \in DOMAIN q :
          /\ Meek(q[i]) /\ Truthful(q[i], Numbers(y), calm) /\ After(q[i]) <= y.next_sender
          /\ calm /\ q[i].type = "Logon" => q[i].num <= x.next_sender
    /\ \A i, j \in DOMAIN q : i < j /\ Fresh(q[j]) => After(q[i]) <= q[j].seq

\* The frames of p were sent before those of q.
Behind(p, q) == \A i \in DOMAIN p, j \in DOMAIN q : Fresh(q[j]) => After(p[i]) <= q[j].seq

\* No fresh frame of q is below what x expects.
Expects(x, q) == \A i \in DOMAIN q : Fresh(q[i]) => Heeds(x, q[i].seq)

\* The session x of a pair, the peer y and the frames q on their way to x.
View(x, y, q, calm) ==
    /\ x \in State /\ Tame(x) /\ Replays(x, calm)
    /\ Hears(x, [app |-> Numbers(y), calm |-> calm])
    /\ Carries(q, x, y, calm) /\ Carries(y.out, x, y, calm) /\ Behind(q, y.out)
    /\ Heeds(x, y.next_sender) /\ Expects(x, q) /\ Expects(x, y.out)

\* The numbers that what is on its way to a session, or comes after it, has.
Due(b, y, q) == \/ b = y.next_sender
                \/ \E i \in DOMAIN q : Fresh(q[i]) /\ b = q[i].seq
                \/ \E i \in DOMAIN y.out : Fresh(y.out[i]) /\ b = y.out[i].seq

\* The numbers a session reaches with what it holds and what is on its way to it.
Reached(k, y, q) == \/ k = y.next_target
                    \/ \E m \in y.stash : k = After(m)
                    \/ y.phase = "resend" /\ k = y.replay.request + 1
                    \/ \E i \in DOMAIN q : k = After(q[i])

Told(x, y, b, k, calm) ==
    [b |-> b, k |-> k, n |-> y.next_sender, low |-> x.next_sender, app |-> Numbers(y),
     nums |-> Numbers(x), calm |-> calm]

\* What Told says.
LEMMA ToldFacts ==
  ASSUME NEW x, NEW y, NEW b, NEW k, NEW calm
  PROVE  LET w == Told(x, y, b, k, calm)
         IN  /\ w.b = b /\ w.k = k /\ w.n = y.next_sender /\ w.low = x.next_sender
             /\ w.app = Numbers(y) /\ w.nums = Numbers(x) /\ w.calm = calm
  BY DEF Told

\* Hears depends on the peer's numbers only.
LEMMA HearsFacts ==
  ASSUME NEW x, NEW w, NEW v, w.app = v.app, w.calm = v.calm, Hears(x, w) PROVE Hears(x, v)
  BY DEF Hears

\* The heads of a view.
LEMMA ViewFacts ==
  ASSUME NEW x, NEW y \in State, NEW q, NEW calm, View(x, y, q, calm)
  PROVE  /\ q \in Seq(Msg) /\ \A i \in DOMAIN q : q[i] \in Msg /\ After(q[i]) \in Nat /\ q[i].seq \in Nat
         /\ y.out \in Seq(Msg)
         /\ \A i \in DOMAIN y.out : y.out[i] \in Msg /\ After(y.out[i]) \in Nat /\ y.out[i].seq \in Nat
         /\ \A b : Due(b, y, q) => b \in Nat /\ b <= y.next_sender /\ Heeds(x, b)
  <1>1. q \in Seq(Msg) /\ y.out \in Seq(Msg) BY DEF View, Carries
  <1>2. \A i \in DOMAIN q : q[i] \in Msg /\ After(q[i]) \in Nat /\ q[i].seq \in Nat
    BY <1>1, AfterType, ElementOfSeq
  <1>3. \A i \in DOMAIN y.out : y.out[i] \in Msg /\ After(y.out[i]) \in Nat /\ y.out[i].seq \in Nat
    BY <1>1, AfterType, ElementOfSeq
  <1>4. y.next_sender \in Nat BY NumberFacts
  <1>5. \A i \in DOMAIN q : Fresh(q[i]) => q[i].seq <= y.next_sender
    <2>1. \A i \in DOMAIN q : Fresh(q[i]) => After(q[i]) = q[i].seq + 1
      BY DEF View, Carries, Meek, Fresh, After
    <2> QED BY <1>2, <1>4, <2>1 DEF View, Carries
  <1>6. \A i \in DOMAIN y.out : Fresh(y.out[i]) => y.out[i].seq <= y.next_sender
    <2>1. \A i \in DOMAIN y.out : Fresh(y.out[i]) => After(y.out[i]) = y.out[i].seq + 1
      BY DEF View, Carries, Meek, Fresh, After
    <2> QED BY <1>3, <1>4, <2>1 DEF View, Carries
  <1>7. \A b : Due(b, y, q) => b \in Nat /\ b <= y.next_sender /\ Heeds(x, b)
    BY <1>2, <1>3, <1>4, <1>5, <1>6 DEF Due, View, Expects
  <1> QED BY <1>1, <1>2, <1>3, <1>7

\* What the peer has reached, a fresh frame that is still to be sent is not below.
LEMMA ReachedFacts ==
  ASSUME NEW x \in State, NEW y, NEW q, NEW calm, View(y, x, q, calm), NEW k, Reached(k, y, q)
  PROVE  /\ k \in Nat /\ k <= x.next_sender
         /\ \A i \in DOMAIN x.out : Fresh(x.out[i]) => k <= x.out[i].seq
  <1>1. y \in State BY DEF View
  <1>2. /\ y.next_target \in Nat /\ y.replay.request \in Nat /\ x.next_sender \in Nat
        /\ \A m \in y.stash : After(m) \in Nat
    <2>1. \A m \in y.stash : m \in Msg BY <1>1 DEF State
    <2> QED BY <1>1, <2>1, NumberFacts, AfterType
  <1>3. /\ \A i \in DOMAIN q : After(q[i]) \in Nat
        /\ \A i \in DOMAIN x.out : x.out[i].seq \in Nat
    BY ViewFacts
  <1>4. k \in Nat BY <1>2, <1>3 DEF Reached
  <1>5. \A b \in Nat : Heeds(y, b) /\ ~(\E i \in DOMAIN q : k = After(q[i])) => k <= b
    BY <1>2 DEF Reached, Heeds
  <1>6. CASE \E i \in DOMAIN q : k = After(q[i]) BY <1>4, <1>6 DEF View, Carries, Behind
  <1>7. CASE ~(\E i \in DOMAIN q : k = After(q[i])) BY <1>2, <1>3, <1>4, <1>5, <1>7 DEF View, Expects
  <1> QED BY <1>6, <1>7

\* In a view a session is good, whatever is due and whatever was reached.
LEMMA ToldGood ==
  ASSUME NEW x, NEW y, NEW p, NEW q, NEW calm \in BOOLEAN, calm => Keeping /\ AppType = "App",
         View(x, y, p, calm), View(y, x, q, calm),
         NEW b, NEW k, Due(b, y, p), Reached(k, y, q)
  PROVE  Fit(Told(x, y, b, k, calm)) /\ Good(x, Told(x, y, b, k, calm))
  <1> DEFINE w == Told(x, y, b, k, calm)
  <1>1. /\ w.b = b /\ w.k = k /\ w.n = y.next_sender /\ w.low = x.next_sender
        /\ w.app = Numbers(y) /\ w.nums = Numbers(x) /\ w.calm = calm
    BY ToldFacts
  <1>2. x \in State /\ y \in State BY DEF View
  <1>3. b \in Nat /\ b <= y.next_sender /\ Heeds(x, b) BY <1>2, ViewFacts
  <1>4. /\ k \in Nat /\ k <= x.next_sender
        /\ \A i \in DOMAIN x.out : Fresh(x.out[i]) => k <= x.out[i].seq
    BY <1>2, ReachedFacts
  <1>5. /\ x.next_sender \in Nat /\ y.next_sender \in Nat
        /\ Numbers(x) \subseteq Nat /\ Numbers(y) \subseteq Nat
    BY <1>2, NumberFacts
  <1>6. w \in World BY <1>3, <1>4, <1>5 DEF Told, World
  <1>7. Keeping => 0 \notin Numbers(y) BY <1>2 DEF Numbers, State, Saved, SeqNum
  <1>8. Hears(x, [app |-> Numbers(y), calm |-> calm]) BY DEF View
  <1> DEFINE v == [app |-> Numbers(y), calm |-> calm]
  <1>9. v.app = w.app /\ v.calm = w.calm BY <1>1
  <1> HIDE DEF w, v
  <1>10. Fit(w) BY <1>1, <1>3, <1>6, <1>7 DEF Fit
  <1>11. Hears(x, w) BY <1>8, <1>9, HearsFacts DEF v
  <1>12. Speaks(x, w) BY <1>1, <1>4, <1>5 DEF Speaks, View, Carries
  <1>13. Replays(x, w.calm) BY <1>1 DEF View
  <1> QED BY <1>1, <1>2, <1>3, <1>10, <1>11, <1>12, <1>13 DEF Good, View, w

\* New numbers do not make an earlier frame untrue.
LEMMA TruthfulStays ==
  ASSUME NEW m \in Msg, NEW calm \in BOOLEAN, NEW A, NEW B, NEW n \in Nat, B \subseteq Nat,
         A \subseteq B, \A i \in B : i \in A \/ n <= i, After(m) <= n, Truthful(m, A, calm)
  PROVE  Truthful(m, B, calm)
  <1>1. m.seq \in Nat /\ m.num \in Nat BY AfterType
  <1>2. m.type # "SequenceReset" => m.seq < n BY <1>1 DEF After
  <1>3. m.type = "SequenceReset" => m.num <= n BY DEF After
  <1>4. m.type # "SequenceReset" /\ m.seq \notin A => m.seq \notin B BY <1>1, <1>2
  <1>5. m.type = "SequenceReset" /\ (\A i \in A : i < m.seq \/ m.num <= i)
            => \A i \in B : i < m.seq \/ m.num <= i
    BY <1>1, <1>3
  <1> QED BY <1>4, <1>5 DEF Truthful

\* A session that stays good, whatever is due and was reached, stays in view of
\* its peer, and the peer of it.
LEMMA SteppedView ==
  ASSUME NEW x, NEW y, NEW p, NEW q, NEW calm \in BOOLEAN,
         View(x, y, p, calm), View(y, x, q, calm), NEW r,
         \A b, k : Due(b, y, p) /\ Reached(k, y, q) => Good(r, Told(x, y, b, k, calm))
  PROVE  View(r, y, p, calm) /\ View(y, r, q, calm)
  <1>1. x \in State /\ y \in State BY DEF View
  <1> DEFINE b0 == y.next_sender
             k0 == y.next_target
             w == Told(x, y, b0, k0, calm)
             v == [app |-> Numbers(y), calm |-> calm]
             u == [app |-> Numbers(r), calm |-> calm]
             o == [app |-> Numbers(x), calm |-> calm]
  <1>2. Due(b0, y, p) /\ Reached(k0, y, q) BY DEF Due, Reached
  <1>3. Good(r, w) BY <1>2
  <1>4. /\ w.b = b0 /\ w.k = k0 /\ w.n = y.next_sender /\ w.low = x.next_sender
        /\ w.app = Numbers(y) /\ w.nums = Numbers(x) /\ w.calm = calm
    BY ToldFacts
  <1>5. /\ v.app = Numbers(y) /\ v.calm = calm /\ u.app = Numbers(r) /\ u.calm = calm
        /\ o.app = Numbers(x) /\ o.calm = calm
    OBVIOUS
  <1>6. Hears(y, o) BY DEF View
  <1> HIDE DEF w, v, u, o
  <1>7. r \in State /\ Tame(r) /\ Replays(r, calm) BY <1>3, <1>4 DEF Good
  <1>8. Hears(r, v)
    <2>1. Hears(r, w) BY <1>3 DEF Good
    <2> QED BY <1>4, <1>5, <2>1, HearsFacts
  <1>9. \A b : Due(b, y, p) => Heeds(r, b)
    <2> SUFFICES ASSUME NEW b, Due(b, y, p) PROVE Heeds(r, b) OBVIOUS
    <2>1. Good(r, Told(x, y, b, k0, calm)) BY <1>2
    <2> QED BY <2>1, ToldFacts DEF Good
  <1>10. /\ x.next_sender <= r.next_sender /\ Numbers(x) \subseteq Numbers(r)
         /\ \A n \in Numbers(r) : n \in Numbers(x) \/ x.next_sender <= n
    BY <1>3, <1>4 DEF Good, Speaks
  <1>11. Carries(r.out, y, r, calm)
    <2>1. r.out \in Seq(Msg) BY <1>7 DEF State
    <2> QED BY <1>3, <1>4, <2>1 DEF Good, Speaks, Carries
  <1>12. \A k : Reached(k, y, q) => \A i \in DOMAIN r.out : Fresh(r.out[i]) => k <= r.out[i].seq
    <2> SUFFICES ASSUME NEW k, Reached(k, y, q), NEW i \in DOMAIN r.out, Fresh(r.out[i])
                 PROVE  k <= r.out[i].seq
      OBVIOUS
    <2>1. Good(r, Told(x, y, b0, k, calm)) BY <1>2
    <2>2. Told(x, y, b0, k, calm).k = k BY ToldFacts
    <2> QED BY <2>1, <2>2 DEF Good, Speaks
  <1>13. /\ x.next_sender \in Nat /\ r.next_sender \in Nat /\ y.next_target \in Nat
         /\ y.replay.request \in Nat /\ Numbers(r) \subseteq Nat
         /\ \A m \in y.stash : m \in Msg /\ After(m) \in Nat
    <2>1. \A m \in y.stash : m \in Msg BY <1>1 DEF State
    <2> QED BY <1>1, <1>7, <2>1, NumberFacts, AfterType
  <1>14. /\ \A i \in DOMAIN p : p[i] \in Msg
         /\ \A i \in DOMAIN y.out : y.out[i] \in Msg
         /\ \A i \in DOMAIN q : q[i] \in Msg /\ After(q[i]) \in Nat
    BY <1>1, ViewFacts
  <1>15. View(r, y, p, calm)
    <2>1. \A m \in Msg : m.num <= x.next_sender => m.num <= r.next_sender
      BY <1>10, <1>13, AfterType
    <2>2. Carries(p, r, y, calm) BY <1>14, <2>1 DEF View, Carries
    <2>3. Carries(y.out, r, y, calm) BY <1>14, <2>1 DEF View, Carries
    <2>4. Heeds(r, y.next_sender) /\ Expects(r, p) /\ Expects(r, y.out) BY <1>9 DEF Due, Expects
    <2> QED BY <1>7, <1>8, <2>2, <2>3, <2>4 DEF View, v
  <1>16. View(y, r, q, calm)
    <2>1. \A m \in Msg : After(m) <= x.next_sender /\ Truthful(m, Numbers(x), calm)
              => Truthful(m, Numbers(r), calm)
      BY <1>10, <1>13, TruthfulStays
    <2>2. \A n \in Nat : n <= x.next_sender => n <= r.next_sender BY <1>10, <1>13
    <2>3. Carries(q, y, r, calm) BY <1>14, <2>1, <2>2 DEF View, Carries
    <2>4. Behind(q, r.out)
      <3>1. \A i \in DOMAIN q : Reached(After(q[i]), y, q) BY DEF Reached
      <3> QED BY <1>12, <3>1 DEF Behind
    <2>5. Heeds(y, x.next_sender) BY DEF View
    <2>6. Heeds(y, r.next_sender) BY <1>10, <1>13, <2>5 DEF Heeds
    <2>7. Expects(y, r.out)
      <3> SUFFICES ASSUME NEW i \in DOMAIN r.out, Fresh(r.out[i]) PROVE Heeds(y, r.out[i].seq)
        BY DEF Expects
      <3>1. r.out[i].seq \in Nat
        <4>1. r.out \in Seq(Msg) BY <1>7 DEF State
        <4>2. r.out[i] \in Msg BY <4>1, ElementOfSeq
        <4> QED BY <4>2, AfterType
      <3>2. y.next_target <= r.out[i].seq BY <1>12 DEF Reached
      <3>3. \A m \in y.stash : After(m) <= r.out[i].seq BY <1>12 DEF Reached
      <3>4. y.phase = "resend" => y.replay.request + 1 <= r.out[i].seq BY <1>12 DEF Reached
      <3>5. y.phase = "resend" => y.replay.request < r.out[i].seq BY <1>13, <3>1, <3>4
      <3> QED BY <3>2, <3>3, <3>5 DEF Heeds
    <2>8. Hears(y, u)
      <3>1. \A m \in y.stash : Meek(m) /\ Truthful(m, u.app, u.calm)
        BY <1>5, <1>6, <1>13, <2>1, <2>5 DEF Hears, Heeds
      <3>2. y.phase = "resend" /\ u.calm => y.replay.request \notin u.app
        <4>1. y.phase = "resend" => y.replay.request < x.next_sender BY <2>5 DEF Heeds
        <4> QED BY <1>5, <1>6, <1>10, <1>13, <4>1 DEF Hears
      <3>3. \A i \in DOMAIN y.delivered : y.delivered[i] \in u.app BY <1>5, <1>6, <1>10 DEF Hears
      <3>4. u.calm => \A n \in u.app :
               n < y.next_target => \E i \in DOMAIN y.delivered : y.delivered[i] = n
        <4>1. y.next_target <= x.next_sender BY <2>5 DEF Heeds
        <4>2. \A n \in u.app : n < y.next_target => n \in o.app BY <1>5, <1>10, <1>13, <4>1
        <4> QED BY <1>5, <1>6, <4>2 DEF Hears
      <3> QED BY <3>1, <3>2, <3>3, <3>4 DEF Hears
    <2> QED BY <1>11, <2>3, <2>4, <2>6, <2>7, <2>8 DEF View, u
  <1> QED BY <1>15, <1>16

\* A queue that was read from, or is gone.
LEMMA PartView ==
  ASSUME NEW x, NEW y, NEW q, NEW calm, View(x, y, q, calm), NEW p,
         p = <<>> \/ (q # <<>> /\ p = Tail(q))
  PROVE  View(x, y, p, calm)
  <1>1. q \in Seq(Msg) BY DEF View, Carries
  <1>2. /\ p \in Seq(Msg)
        /\ \A i \in DOMAIN p : i \in Nat /\ i + 1 \in DOMAIN q /\ p[i] = q[i + 1]
    <2>1. CASE p = <<>>
      <3>1. DOMAIN <<>> = {} OBVIOUS
      <3> QED BY <2>1, <3>1
    <2>2. CASE q # <<>> /\ p = Tail(q)
      <3>1. /\ p \in Seq(Msg) /\ Len(p) = Len(q) - 1 /\ \A i \in 1..Len(p) : p[i] = q[i + 1]
        BY <1>1, <2>2, HeadTailProperties
      <3>2. DOMAIN p = 1..Len(p) /\ DOMAIN q = 1..Len(q) /\ Len(q) \in Nat BY <1>1, <3>1, LenProperties
      <3>3. \A i \in DOMAIN p : i \in Nat /\ i + 1 \in DOMAIN q BY <3>1, <3>2
      <3> QED BY <3>1, <3>2, <3>3
    <2> QED BY <2>1, <2>2
  <1>3. Carries(p, x, y, calm)
    <2>1. \A i, j \in DOMAIN p : i < j => i + 1 < j + 1 BY <1>2
    <2> QED BY <1>2, <2>1 DEF View, Carries
  <1>4. Behind(p, y.out) BY <1>2 DEF View, Behind
  <1>5. Expects(x, p) BY <1>2 DEF View, Expects
  <1> QED BY <1>3, <1>4, <1>5 DEF View

\* Less is known when a user has logged a side out.
LEMMA CalmView ==
  ASSUME NEW x, NEW y, NEW q, NEW calm \in BOOLEAN, View(x, y, q, calm) PROVE View(x, y, q, FALSE)
  <1>1. \A m, A : Truthful(m, A, calm) => Truthful(m, A, FALSE) BY DEF Truthful
  <1>2. \A s : Carries(s, x, y, calm) => Carries(s, x, y, FALSE) BY <1>1 DEF Carries
  <1>3. Replays(x, calm) => Replays(x, FALSE) BY DEF Replays
  <1> DEFINE v == [app |-> Numbers(y), calm |-> calm]
             u == [app |-> Numbers(y), calm |-> FALSE]
  <1>4. v.app = u.app /\ v.calm = calm /\ u.calm = FALSE OBVIOUS
  <1>5. Hears(x, v) BY DEF View
  <1> HIDE DEF u, v
  <1>6. Hears(x, u) BY <1>1, <1>4, <1>5 DEF Hears
  <1> QED BY <1>2, <1>3, <1>6 DEF View, u

\* Two queues, one behind the other, as one.
LEMMA CarriesBoth ==
  ASSUME NEW p, NEW q, NEW x, NEW y \in State, NEW calm, Carries(p, x, y, calm), Carries(q, x, y, calm),
         Behind(p, q), Expects(x, p), Expects(x, q)
  PROVE  Carries(p \o q, x, y, calm) /\ Expects(x, p \o q)
  <1> DEFINE s == p \o q
             n == Len(p)
  <1>1. p \in Seq(Msg) /\ q \in Seq(Msg) BY DEF Carries
  <1>2. /\ s \in Seq(Msg) /\ Len(s) = n + Len(q)
        /\ \A i \in 1..Len(s) : s[i] = IF i <= n THEN p[i] ELSE q[i - n]
    BY <1>1, ConcatProperties
  <1>3. /\ DOMAIN p = 1..n /\ DOMAIN q = 1..Len(q) /\ DOMAIN s = 1..Len(s)
        /\ n \in Nat /\ Len(q) \in Nat
    BY <1>1, <1>2, LenProperties
  <1> HIDE DEF s, n
  <1>4. \A i \in DOMAIN s : \/ i <= n /\ i \in DOMAIN p /\ s[i] = p[i]
                            \/ i > n /\ i - n \in DOMAIN q /\ s[i] = q[i - n]
    BY <1>2, <1>3
  <1>5. \A i \in DOMAIN s :
          /\ Meek(s[i]) /\ Truthful(s[i], Numbers(y), calm) /\ After(s[i]) <= y.next_sender
          /\ calm /\ s[i].type = "Logon" => s[i].num <= x.next_sender
    BY <1>4 DEF Carries
  <1>6. Expects(x, s) BY <1>4 DEF Expects
  <1>7. \A i, j \in DOMAIN s : i < j /\ Fresh(s[j]) => After(s[i]) <= s[j].seq
    <2> SUFFICES ASSUME NEW i \in DOMAIN s, NEW j \in DOMAIN s, i < j, Fresh(s[j])
                 PROVE  After(s[i]) <= s[j].seq
      OBVIOUS
    <2>1. CASE i > n
      <3>1. j > n /\ i - n < j - n BY <1>3, <2>1
      <3>2. i - n \in DOMAIN q /\ s[i] = q[i - n] /\ j - n \in DOMAIN q /\ s[j] = q[j - n]
        BY <1>3, <1>4, <2>1, <3>1
      <3> QED BY <3>1, <3>2 DEF Carries
    <2>2. CASE i <= n /\ j <= n
      <3>1. i \in DOMAIN p /\ s[i] = p[i] /\ j \in DOMAIN p /\ s[j] = p[j] BY <1>3, <1>4, <2>2
      <3> QED BY <3>1 DEF Carries
    <2>3. CASE i <= n /\ j > n
      <3>1. i \in DOMAIN p /\ s[i] = p[i] /\ j - n \in DOMAIN q /\ s[j] = q[j - n]
        BY <1>3, <1>4, <2>3
      <3> QED BY <3>1 DEF Behind
    <2> QED BY <1>2, <1>3, <2>1, <2>2, <2>3
  <1> QED BY <1>2, <1>5, <1>6, <1>7 DEF Carries, s

\* What a handler sent is on its way, or is lost.
LEMMA SentView ==
  ASSUME NEW r, NEW y, NEW p, NEW q, NEW calm, View(r, y, p, calm), View(y, r, q, calm)
  PROVE  LET z == [r EXCEPT !.out = <<>>]
         IN  /\ View(z, y, p, calm)
             /\ View(y, z, q, calm) /\ View(y, z, q \o r.out, calm)
  <1> DEFINE z == [r EXCEPT !.out = <<>>]
  <1>1. r \in State /\ y \in State BY DEF View
  <1>2. z \in State
    <2>1. <<>> \in Seq(Msg) OBVIOUS
    <2> QED BY <1>1, <2>1 DEF State
  <1>3. /\ z.cfg = r.cfg /\ z.sent_reset = r.sent_reset /\ z.received_reset = r.received_reset
        /\ z.next_sender = r.next_sender /\ z.next_target = r.next_target
        /\ z.saved = r.saved /\ z.out = <<>> /\ z.delivered = r.delivered
        /\ z.stash = r.stash /\ z.phase = r.phase /\ z.replay = r.replay
    BY <1>1 DEF State
  <1> HIDE DEF z
  <1>4. Numbers(z) = Numbers(r) BY <1>3 DEF Numbers
  <1>5. View(z, y, p, calm)
    <2>1. Tame(z) /\ Replays(z, calm) BY <1>3, <1>4 DEF View, Tame, Replays
    <2> DEFINE v == [app |-> Numbers(y), calm |-> calm]
    <2>2. Hears(r, v) BY DEF View
    <2> HIDE DEF v
    <2>3. Hears(z, v) BY <1>3, <2>2 DEF Hears
    <2>4. \A b : Heeds(r, b) => Heeds(z, b) BY <1>3 DEF Heeds
    <2>5. \A s : Carries(s, r, y, calm) => Carries(s, z, y, calm) BY <1>3 DEF Carries
    <2>6. \A s : Expects(r, s) => Expects(z, s) BY <2>4 DEF Expects
    <2> QED BY <1>2, <2>1, <2>3, <2>4, <2>5, <2>6 DEF View, v
  <1>6. \A s : Carries(s, y, r, calm) => Carries(s, y, z, calm) BY <1>3, <1>4 DEF Carries
  <1>7. /\ Carries(<<>>, y, z, calm) /\ Expects(y, <<>>)
        /\ \A s : Behind(s, <<>>)
    <2>1. <<>> \in Seq(Msg) /\ DOMAIN <<>> = {} OBVIOUS
    <2> QED BY <2>1 DEF Carries, Expects, Behind
  <1>8. View(y, z, q, calm) BY <1>3, <1>4, <1>6, <1>7 DEF View
  <1>9. View(y, z, q \o r.out, calm)
    <2>1. Carries(q \o r.out, y, r, calm) /\ Expects(y, q \o r.out) BY <1>1, CarriesBoth DEF View
    <2> QED BY <1>3, <1>4, <1>6, <1>7, <2>1 DEF View
  <1> QED BY <1>5, <1>8, <1>9 DEF z

\* The frame that is read is what the session may expect next.
LEMMA HeadArrives ==
  ASSUME NEW x, NEW y \in State, NEW q, NEW calm, View(x, y, q, calm), q # <<>>,
         NEW b, Due(b, y, Tail(q)), NEW k
  PROVE  Arrives(x, Head(q), Told(x, y, b, k, calm))
  <1> DEFINE w == Told(x, y, b, k, calm)
             m == Head(q)
  <1>1. w.b = b /\ w.app = Numbers(y) /\ w.calm = calm BY ToldFacts
  <1>2. q \in Seq(Msg) BY DEF View, Carries
  <1>3. /\ m = q[1] /\ 1 \in DOMAIN q /\ m \in Msg
        /\ \A i \in DOMAIN Tail(q) : i + 1 \in DOMAIN q /\ 1 < i + 1 /\ Tail(q)[i] = q[i + 1]
    <2>1. /\ Tail(q) \in Seq(Msg) /\ Len(Tail(q)) = Len(q) - 1
          /\ \A i \in 1..Len(Tail(q)) : Tail(q)[i] = q[i + 1]
          /\ m \in Msg
      BY <1>2, HeadTailProperties
    <2>2. /\ DOMAIN Tail(q) = 1..Len(Tail(q)) /\ DOMAIN q = 1..Len(q) /\ Len(q) \in Nat
      BY <1>2, <2>1, LenProperties
    <2>3. m = q[1] /\ 1 \in DOMAIN q BY <1>2, <2>2, EmptySeq
    <2> QED BY <2>1, <2>2, <2>3
  <1> HIDE DEF w, m
  <1>4. Meek(m) /\ Truthful(m, w.app, w.calm) /\ (w.calm /\ m.type = "Logon" => m.num <= x.next_sender)
    BY <1>1, <1>3 DEF View, Carries
  <1>5. Fresh(m) => x.next_target <= m.seq BY <1>3 DEF View, Expects, Heeds
  <1>6. After(m) <= b
    <2>1. CASE b = y.next_sender BY <1>3, <2>1 DEF View, Carries
    <2>2. CASE \E i \in DOMAIN Tail(q) : Fresh(Tail(q)[i]) /\ b = Tail(q)[i].seq
      BY <1>3, <2>2 DEF View, Carries
    <2>3. CASE \E i \in DOMAIN y.out : Fresh(y.out[i]) /\ b = y.out[i].seq
      BY <1>3, <2>3 DEF View, Behind
    <2> QED BY <2>1, <2>2, <2>3 DEF Due
  <1> QED BY <1>1, <1>3, <1>4, <1>5, <1>6 DEF Arrives, w, m

\* Session::spawn with an empty store.
LEMMA SpawnedView ==
  ASSUME NEW c \in Config, NEW d \in Config, Plain(c), NEW calm \in BOOLEAN, calm => Keeping
  PROVE  View(Spawned(c), Spawned(d), <<>>, calm)
  <1> DEFINE x == Spawned(c)
             y == Spawned(d)
  <1>1. x \in State BY SpawnedType
  <1>2. /\ x.cfg = c /\ ~x.sent_reset /\ ~x.received_reset /\ x.saved = {} /\ x.stash = {}
        /\ x.phase = "idle" /\ x.delivered = <<>> /\ x.next_target = 1
        /\ y.out = <<>> /\ y.saved = {} /\ y.next_sender = 1
    BY DEF Spawned
  <1> HIDE DEF x, y
  <1>3. calm => Numbers(y) = {} BY <1>2 DEF Numbers
  <1>4. Tame(x) /\ Replays(x, calm) /\ Heeds(x, y.next_sender) BY <1>2 DEF Tame, Replays, Heeds
  <1>5. <<>> \in Seq(Msg) /\ DOMAIN <<>> = {} OBVIOUS
  <1> DEFINE v == [app |-> Numbers(y), calm |-> calm]
  <1>6. v.app = Numbers(y) /\ v.calm = calm OBVIOUS
  <1> HIDE DEF v
  <1>7. Hears(x, v) BY <1>2, <1>3, <1>5, <1>6 DEF Hears
  <1>8. Carries(<<>>, x, y, calm) /\ Behind(<<>>, y.out) /\ Expects(x, <<>>)
    BY <1>5 DEF Carries, Behind, Expects
  <1> QED BY <1>1, <1>2, <1>4, <1>7, <1>8 DEF View, v, x, y

--------------------------------------------------------------------------------
\* No Logout of a user, and nothing that drain_stash mistakes.
Calm == Keeping /\ AppType = "App" /\ logouts = 0

\* The inductive invariant: each side is in view of the other.
PairInv ==
    /\ session \in [Sides -> State] /\ wire \in [Sides -> Seq(Msg)] /\ logouts \in Nat
    /\ \A side \in Sides : View(session[side], session[Other(side)], wire[side], Calm)

\* The two sides.
LEMMA SideFacts ==
  ASSUME NEW side \in Sides
  PROVE  /\ Other(side) \in Sides /\ Other(side) # side /\ Other(Other(side)) = side
         /\ \A s \in Sides : s = side \/ s = Other(side)
  BY DEF Sides, Other

\* A step of one side, seen from both.
LEMMA StepInv ==
  ASSUME NEW side \in Sides, NEW r, NEW inbound, NEW calm \in BOOLEAN, Step(side, r, inbound),
         session \in [Sides -> State], wire \in [Sides -> Seq(Msg)],
         View(r, session[Other(side)], inbound, calm),
         View(session[Other(side)], r, wire[Other(side)], calm)
  PROVE  /\ session' \in [Sides -> State] /\ wire' \in [Sides -> Seq(Msg)]
         /\ \A s \in Sides : View(session'[s], session'[Other(s)], wire'[s], calm)
  <1> DEFINE other == Other(side)
             y == session[other]
             q == wire[other]
             z == [r EXCEPT !.out = <<>>]
             r1 == IF r.phase = "idle" THEN z ELSE r
             p1 == IF r.connected THEN inbound ELSE <<>>
             q1 == IF broken \/ ~y.connected \/ r.phase # "idle" THEN q ELSE q \o r.out
  <1>1. /\ other \in Sides /\ other # side /\ Other(other) = side
        /\ \A s \in Sides : s = side \/ s = other
    BY SideFacts
  <1>2. View(r1, y, inbound, calm) /\ View(y, r1, q1, calm)
    <2>1. View(z, y, inbound, calm) /\ View(y, z, q, calm) /\ View(y, z, q \o r.out, calm)
      BY SentView
    <2> HIDE DEF y, q, z
    <2> QED BY <2>1 DEF y, q
  <1>3. View(r1, y, p1, calm)
    <2> HIDE DEF r1, y
    <2> QED BY <1>2, PartView
  <1>4. r1 \in State /\ p1 \in Seq(Msg) /\ q1 \in Seq(Msg)
    <2> HIDE DEF r1, y, p1, q1
    <2> QED BY <1>2, <1>3 DEF View, Carries
  <1>5. session' = [session EXCEPT ![side] = r1] BY DEF Step
  <1>6. wire' = [wire EXCEPT ![side] = p1, ![other] = q1] BY <1>1 DEF Step
  <1> HIDE DEF other, y, q, r1, p1, q1
  <1>7. session'[side] = r1 /\ session'[other] = y /\ wire'[side] = p1 /\ wire'[other] = q1
    BY <1>1, <1>5, <1>6 DEF y
  <1>8. session' \in [Sides -> State] /\ wire' \in [Sides -> Seq(Msg)] BY <1>1, <1>4, <1>5, <1>6
  <1>9. View(session'[side], session'[other], wire'[side], calm) BY <1>3, <1>7
  <1>10. View(session'[other], session'[side], wire'[other], calm) BY <1>2, <1>7
  <1> QED BY <1>1, <1>8, <1>9, <1>10 DEF other

\* A session steps to r, good in every world it may be in.
LEMMA GoodStep ==
  ASSUME NEW side \in Sides, NEW r, NEW inbound, NEW calm \in BOOLEAN, Step(side, r, inbound),
         session \in [Sides -> State], wire \in [Sides -> Seq(Msg)],
         calm => Keeping /\ AppType = "App",
         View(session[side], session[Other(side)], inbound, calm),
         View(session[Other(side)], session[side], wire[Other(side)], calm),
         \A w : Fit(w) /\ Good(session[side], w) /\ w.calm = calm => Good(r, w)
  PROVE  /\ session' \in [Sides -> State] /\ wire' \in [Sides -> Seq(Msg)]
         /\ \A s \in Sides : View(session'[s], session'[Other(s)], wire'[s], calm)
  <1> DEFINE x == session[side]
             y == session[Other(side)]
             q == wire[Other(side)]
  <1> HIDE DEF x, y, q
  <1>1. View(x, y, inbound, calm) /\ View(y, x, q, calm) BY DEF x, y, q
  <1>2. ASSUME NEW b, NEW k, Due(b, y, inbound), Reached(k, y, q)
        PROVE  Good(r, Told(x, y, b, k, calm))
    <2>1. Fit(Told(x, y, b, k, calm)) /\ Good(x, Told(x, y, b, k, calm)) BY <1>1, <1>2, ToldGood
    <2>2. Told(x, y, b, k, calm).calm = calm BY ToldFacts
    <2> QED BY <2>1, <2>2 DEF x
  <1>3. View(r, y, inbound, calm) /\ View(y, r, q, calm) BY <1>1, <1>2, SteppedView
  <1> QED BY <1>3, StepInv DEF y, q

\* The same, of two sessions that are not on the two sides yet.
LEMMA GoodView ==
  ASSUME NEW x, NEW y, NEW p, NEW q, NEW calm \in BOOLEAN, calm => Keeping /\ AppType = "App",
         View(x, y, p, calm), View(y, x, q, calm), NEW r,
         \A w : Fit(w) /\ Good(x, w) => Good(r, w)
  PROVE  View(r, y, p, calm) /\ View(y, r, q, calm)
  <1>1. ASSUME NEW b, NEW k, Due(b, y, p), Reached(k, y, q) PROVE Good(r, Told(x, y, b, k, calm))
    <2>1. Fit(Told(x, y, b, k, calm)) /\ Good(x, Told(x, y, b, k, calm)) BY <1>1, ToldGood
    <2> QED BY <2>1
  <1> QED BY <1>1, SteppedView

\* The steps in which a side reads nothing.
LEMMA QuietInv ==
  ASSUME PairInv, NEW side \in Sides, UNCHANGED logouts,
         Loop(side) \/ PeerCloses(side) \/ Heartbeat(side) \/ SendApp(side)
  PROVE  PairInv'
  <1> DEFINE x == session[side]
             other == Other(side)
             calm == Calm
  <1>1. calm \in BOOLEAN /\ (calm => Keeping /\ AppType = "App") BY DEF Calm
  <1>2. Calm' = Calm BY DEF Calm, Keeping
  <1>3. other \in Sides /\ Other(other) = side BY SideFacts
  <1>4. /\ session \in [Sides -> State] /\ wire \in [Sides -> Seq(Msg)] /\ logouts \in Nat
        /\ View(x, session[other], wire[side], calm) /\ View(session[other], x, wire[other], calm)
    BY <1>3 DEF PairInv
  <1>5. SUFFICES ASSUME NEW r, Step(side, r, wire[side]),
                        \A w : Fit(w) /\ Good(x, w) /\ w.calm = calm => Good(r, w)
                 PROVE  PairInv'
    <2>1. CASE Loop(side)
      <3>1. PICK r \in CASE x.phase = "resend" /\ x.replay.seq <= x.replay.end -> {RetransmitStep(x, FALSE)}
                         [] x.phase = "resend" /\ x.replay.seq > x.replay.end -> {RetransmitEnd(x)}
                         [] x.phase = "drain" /\ InStash(x) = {} -> {DrainEnd(x)}
                         [] x.phase = "drain" /\ InStash(x) # {} -> {DrainStep(x, m, Fine) : m \in InStash(x)}
                         [] OTHER -> {} :
                     Step(side, r, wire[side])
        BY <2>1 DEF Loop
      <3>2. \/ x.phase = "resend" /\ x.replay.seq <= x.replay.end /\ r = RetransmitStep(x, FALSE)
            \/ x.phase = "resend" /\ x.replay.seq > x.replay.end /\ r = RetransmitEnd(x)
            \/ r = DrainEnd(x)
            \/ \E m \in InStash(x) : r = DrainStep(x, m, Fine)
        <4> HIDE DEF x
        <4> QED BY <3>1
      <3> HIDE DEF x, calm
      <3>3. \A w : Fit(w) /\ Good(x, w) => Good(r, w)
        BY <3>2, RetransmitStepGood, RetransmitEndGood, DrainEndGood, DrainStepGood
      <3> QED BY <1>5, <3>1, <3>3
    <2>2. CASE PeerCloses(side)
      <3>1. Step(side, Disconnect(x), wire[side]) BY <2>2 DEF PeerCloses
      <3> HIDE DEF x, calm
      <3> QED BY <1>5, <3>1, DisconnectGood
    <2>3. CASE Heartbeat(side)
      <3>1. /\ Step(side, OnProtocolDeadline(x, "short", TRUE), wire[side])
            /\ ~(x.sent_logout \/ ~x.received_logon)
        BY <2>3 DEF Heartbeat, Quiet, Awaiting
      <3> HIDE DEF x, calm
      <3> QED BY <1>5, <3>1, SendsGood
    <2>4. CASE SendApp(side)
      <3>1. Step(side, SendMessage(x, WithType(AppType)), wire[side]) BY <2>4 DEF SendApp
      <3> HIDE DEF x, calm
      <3> QED BY <1>5, <3>1, SendsGood
    <2> QED BY <2>1, <2>2, <2>3, <2>4
  <1> HIDE DEF calm
  <1>6. /\ session' \in [Sides -> State] /\ wire' \in [Sides -> Seq(Msg)]
        /\ \A s \in Sides : View(session'[s], session'[Other(s)], wire'[s], calm)
    BY <1>1, <1>4, <1>5, GoodStep
  <1> QED BY <1>2, <1>4, <1>6 DEF PairInv, calm

\* Session::on_inbound.
LEMMA DeliverInv ==
  ASSUME PairInv, NEW side \in Sides, Deliver(side) PROVE PairInv'
  <1> DEFINE x == session[side]
             other == Other(side)
             y == session[other]
             q == wire[side]
             p == wire[other]
             calm == Calm
             r == OnInbound(x, Head(q), Fine)
  <1>1. calm \in BOOLEAN /\ (calm => Keeping /\ AppType = "App") BY DEF Calm
  <1>2. Calm' = Calm /\ logouts' = logouts BY DEF Calm, Keeping, Deliver, budget
  <1>3. other \in Sides /\ Other(other) = side BY SideFacts
  <1>4. /\ session \in [Sides -> State] /\ wire \in [Sides -> Seq(Msg)] /\ logouts \in Nat
        /\ View(x, y, q, calm) /\ View(y, x, p, calm)
    BY <1>3 DEF PairInv
  <1>5. q # <<>> /\ Step(side, r, Tail(q)) BY DEF Deliver
  <1> HIDE DEF calm, x, q, p, y, r
  <1>6. View(x, y, Tail(q), calm) BY <1>4, <1>5, PartView
  <1>7. ASSUME NEW b, NEW k, Due(b, y, Tail(q)), Reached(k, y, p) PROVE Good(r, Told(x, y, b, k, calm))
    <2>1. Fit(Told(x, y, b, k, calm)) /\ Good(x, Told(x, y, b, k, calm))
      BY <1>1, <1>4, <1>6, <1>7, ToldGood
    <2>2. y \in State BY <1>4 DEF View
    <2>3. Arrives(x, Head(q), Told(x, y, b, k, calm)) BY <1>4, <1>5, <1>7, <2>2, HeadArrives
    <2> QED BY <2>1, <2>3, OnInboundGood DEF r
  <1>8. View(r, y, Tail(q), calm) /\ View(y, r, p, calm)
    BY <1>1, <1>4, <1>6, <1>7, SteppedView
  <1>9. /\ session' \in [Sides -> State] /\ wire' \in [Sides -> Seq(Msg)]
        /\ \A s \in Sides : View(session'[s], session'[Other(s)], wire'[s], calm)
    BY <1>1, <1>4, <1>5, <1>8, StepInv DEF y, p
  <1> QED BY <1>2, <1>4, <1>9 DEF PairInv, calm

\* A user logs a side out: the invariant goes on without calm.
LEMMA LogoutInv ==
  ASSUME PairInv, NEW side \in Sides, LogoutCommand(side) PROVE PairInv'
  <1> DEFINE x == session[side]
             other == Other(side)
             r == InitiateLogout(x)
  <1>1. Calm \in BOOLEAN BY DEF Calm
  <1>2. logouts \in Nat /\ logouts' = logouts + 1 BY DEF PairInv, LogoutCommand
  <1>3. Calm' = FALSE /\ logouts' \in Nat BY <1>2 DEF Calm
  <1>4. other \in Sides /\ Other(other) = side BY SideFacts
  <1>5. /\ session \in [Sides -> State] /\ wire \in [Sides -> Seq(Msg)]
        /\ View(x, session[other], wire[side], Calm) /\ View(session[other], x, wire[other], Calm)
    BY <1>4 DEF PairInv
  <1>6. View(x, session[other], wire[side], FALSE) /\ View(session[other], x, wire[other], FALSE)
    BY <1>1, <1>5, CalmView
  <1>7. Step(side, r, wire[side]) BY DEF LogoutCommand
  <1>8. \A w : Fit(w) /\ Good(x, w) /\ w.calm = FALSE => Good(r, w)
    <2> HIDE DEF x
    <2>1. \A w : w.calm = FALSE => ~w.calm OBVIOUS
    <2> QED BY <2>1, InitiateLogoutGood
  <1> HIDE DEF r
  <1>9. /\ session' \in [Sides -> State] /\ wire' \in [Sides -> Seq(Msg)]
        /\ \A s \in Sides : View(session'[s], session'[Other(s)], wire'[s], FALSE)
    BY <1>5, <1>6, <1>7, <1>8, GoodStep
  <1> QED BY <1>3, <1>9 DEF PairInv

\* A new connection: what was on its way is lost, the initiator sends its
\* Logon and the acceptor attaches.
LEMMA ConnectInv ==
  ASSUME PairInv, Connect PROVE PairInv'
  <1> DEFINE x == session["initiator"]
             y == session["acceptor"]
             calm == Calm
             d == OnAttach(x, TRUE)
             z == [d EXCEPT !.out = <<>>]
             e == OnAttach(y, TRUE)
  <1>1. calm \in BOOLEAN /\ (calm => Keeping /\ AppType = "App") BY DEF Calm
  <1>2. Calm' = Calm /\ logouts' = logouts BY DEF Calm, Keeping, Connect
  <1>3. /\ Sides = {"initiator", "acceptor"} /\ Other("initiator") = "acceptor"
        /\ Other("acceptor") = "initiator"
    BY DEF Sides, Other
  <1>4. /\ logouts \in Nat
        /\ View(x, y, wire["initiator"], calm) /\ View(y, x, wire["acceptor"], calm)
    BY <1>3 DEF PairInv
  <1>5. /\ session' = [initiator |-> z, acceptor |-> e]
        /\ wire' = [initiator |-> <<>>, acceptor |-> d.out]
    BY DEF Connect
  <1> HIDE DEF calm, x, y
  <1>6. View(x, y, <<>>, calm) /\ View(y, x, <<>>, calm) BY <1>4, PartView
  <1>7. View(d, y, <<>>, calm) /\ View(y, d, <<>>, calm)
    <2>1. \A w : Fit(w) /\ Good(x, w) => Good(d, w) BY OnAttachGood
    <2> HIDE DEF d
    <2> QED BY <1>1, <1>6, <2>1, GoodView
  <1> HIDE DEF d
  <1>8. View(z, y, <<>>, calm) /\ View(y, z, d.out, calm)
    <2>1. View(z, y, <<>>, calm) /\ View(y, z, <<>> \o d.out, calm) BY <1>7, SentView
    <2>2. d.out \in Seq(Msg) BY <1>7 DEF View, State
    <2>3. <<>> \o d.out = d.out BY <2>2, ConcatEmptySeq
    <2> QED BY <2>1, <2>3
  <1> HIDE DEF z
  <1>9. View(e, z, d.out, calm) /\ View(z, e, <<>>, calm)
    <2>1. \A w : Fit(w) /\ Good(y, w) => Good(e, w) BY OnAttachGood
    <2> HIDE DEF e
    <2> QED BY <1>1, <1>8, <2>1, GoodView
  <1> HIDE DEF e
  <1>10. /\ session'["initiator"] = z /\ session'["acceptor"] = e
         /\ wire'["initiator"] = <<>> /\ wire'["acceptor"] = d.out
    BY <1>5
  <1>11. session' \in [Sides -> State] /\ wire' \in [Sides -> Seq(Msg)]
    <2>1. z \in State /\ e \in State /\ d.out \in Seq(Msg) /\ <<>> \in Seq(Msg)
      BY <1>9 DEF View, Carries
    <2>2. /\ \A f, g \in State : [initiator |-> f, acceptor |-> g] \in [Sides -> State]
          /\ \A f, g \in Seq(Msg) : [initiator |-> f, acceptor |-> g] \in [Sides -> Seq(Msg)]
      BY <1>3
    <2> QED BY <1>5, <2>1, <2>2
  <1>12. \A s \in Sides : View(session'[s], session'[Other(s)], wire'[s], calm)
    BY <1>3, <1>9, <1>10
  <1> QED BY <1>2, <1>4, <1>11, <1>12 DEF PairInv, calm

\* The connection breaks.
LEMMA BreakInv == ASSUME PairInv, Break PROVE PairInv'
  <1>1. Calm' = Calm /\ logouts' = logouts /\ session' = session BY DEF Calm, Keeping, Break
  <1>2. wire' = [side \in Sides |-> <<>>] BY DEF Break
  <1>3. wire' \in [Sides -> Seq(Msg)]
    <2>1. <<>> \in Seq(Msg) OBVIOUS
    <2> QED BY <1>2, <2>1
  <1>4. ASSUME NEW side \in Sides PROVE View(session'[side], session'[Other(side)], wire'[side], Calm)
    <2>1. View(session[side], session[Other(side)], wire[side], Calm) BY DEF PairInv
    <2>2. View(session[side], session[Other(side)], <<>>, Calm) BY <2>1, PartView
    <2>3. wire'[side] = <<>> BY <1>2
    <2> QED BY <1>1, <2>2, <2>3
  <1> QED BY <1>1, <1>3, <1>4 DEF PairInv

\* No setting resets the numbers of either side (ResetOnLogon, ResetOnLogout,
\* ResetOnDisconnect, ResetSeqNumFlag).
NoResets ==
    \A pair \in Pairs, side \in Sides :
        /\ ~pair[side].config.reset_on_logon /\ ~pair[side].config.reset_on_logout
        /\ ~pair[side].config.reset_on_disconnect /\ ~pair[side].config.send_reset_seq_num_flag

\* The invariant holds when both sides are spawned.
LEMMA PairInitInv == ASSUME NoResets, Init PROVE PairInv
  <1>1. PICK pair \in Pairs : session = [side \in Sides |-> Spawned(pair[side].config)] BY DEF Init
  <1>2. wire = [side \in Sides |-> <<>>] /\ logouts = 0 BY DEF Init
  <1>3. \A side \in Sides : pair[side].config \in Config BY PairAssumption
  <1>4. \A side \in Sides : Plain(pair[side].config) BY DEF NoResets, Plain, Keeping
  <1>5. Calm \in BOOLEAN /\ (Calm => Keeping) BY DEF Calm
  <1>6. session \in [Sides -> State] BY <1>1, <1>3, SpawnedType
  <1>7. wire \in [Sides -> Seq(Msg)]
    <2>1. <<>> \in Seq(Msg) OBVIOUS
    <2> QED BY <1>2, <2>1
  <1>8. ASSUME NEW side \in Sides PROVE View(session[side], session[Other(side)], wire[side], Calm)
    <2>1. Other(side) \in Sides BY SideFacts
    <2>2. /\ session[side] = Spawned(pair[side].config) /\ wire[side] = <<>>
          /\ session[Other(side)] = Spawned(pair[Other(side)].config)
      BY <1>1, <1>2, <2>1
    <2> QED BY <1>3, <1>4, <1>5, <2>1, <2>2, SpawnedView
  <1> QED BY <1>2, <1>6, <1>7, <1>8 DEF PairInv

\* Every step of the pair keeps the invariant.
LEMMA PairNextInv == ASSUME PairInv, [Next]_vars PROVE PairInv'
  <1>1. CASE Connect BY <1>1, ConnectInv
  <1>2. CASE Break BY <1>2, BreakInv
  <1>3. CASE \E side \in Sides : Deliver(side) BY <1>3, DeliverInv
  <1>4. CASE \E side \in Sides : Loop(side) \/ PeerCloses(side) \/ Heartbeat(side) \/ SendApp(side)
    <2>1. UNCHANGED logouts BY <1>4 DEF Loop, PeerCloses, Heartbeat, SendApp, budget
    <2> QED BY <1>4, <2>1, QuietInv
  <1>5. CASE \E side \in Sides : LogoutCommand(side) BY <1>5, LogoutInv
  <1>6. CASE UNCHANGED vars
    <2>1. session' = session /\ wire' = wire /\ logouts' = logouts BY <1>6 DEF vars
    <2>2. Calm' = Calm BY <2>1 DEF Calm, Keeping
    <2> QED BY <2>1, <2>2 DEF PairInv
  <1> QED BY <1>1, <1>2, <1>3, <1>4, <1>5, <1>6 DEF Next, Work

\* PairInv is an invariant of every pair without resets: nothing a side expects
\* or holds is ahead of what the other has sent and will send, what is on its
\* way is in order and tells the truth about the stored messages, and what was
\* given to the application was sent.
THEOREM PairHolds == ASSUME NoResets PROVE Spec => []PairInv
  <1>1. Init => PairInv BY PairInitInv
  <1>2. PairInv /\ [Next]_vars => PairInv' BY PairNextInv
  <1> QED BY <1>1, <1>2, PTL DEF Spec

\* What the invariant says of each side.
LEMMA PairFacts ==
  ASSUME PairInv, NEW side \in Sides
  PROVE  /\ session[side] \in State /\ session[Other(side)] \in State
         /\ View(session[side], session[Other(side)], wire[side], Calm)
  BY SideFacts DEF PairInv

\* Two engines without resets never refuse each other, whatever is lost in
\* breaks, stashed, resent or logged out, for any number of messages:
\* on_target_too_low never sees a number that is too low without PossDupFlag.
THEOREM PairNeverRefuses == ASSUME NoResets PROVE Spec => []NeverRefused
  <1>1. PairInv => NeverRefused
    <2> SUFFICES ASSUME PairInv, NEW side \in Sides, wire[side] # <<>>,
                        Refused(session[side], Head(wire[side]))
                 PROVE  FALSE
      BY DEF NeverRefused
    <2> DEFINE x == session[side]
               y == session[Other(side)]
               q == wire[side]
               m == Head(q)
               w == Told(x, y, y.next_sender, y.next_target, Calm)
    <2>1. y \in State /\ View(x, y, q, Calm) /\ View(y, x, wire[Other(side)], Calm)
      BY SideFacts DEF PairInv
    <2>2. Calm \in BOOLEAN /\ (Calm => Keeping /\ AppType = "App") BY DEF Calm
    <2>3. Refused(x, m) /\ q # <<>> OBVIOUS
    <2> HIDE DEF x, y, q, m
    <2>4. Due(y.next_sender, y, Tail(q)) /\ Due(y.next_sender, y, q)
      BY DEF Due
    <2>5. Reached(y.next_target, y, wire[Other(side)]) BY DEF Reached
    <2>6. Arrives(x, m, w) BY <2>1, <2>3, <2>4, HeadArrives DEF m
    <2>7. Good(x, w) BY <2>1, <2>2, <2>4, <2>5, ToldGood
    <2> HIDE DEF w
    <2>8. m.type = "Logon" => LogonResets(x, m).next_target = x.next_target
      BY <2>6, <2>7, LogonResetsGood
    <2>9. ~m.poss_dup /\ m.seq < x.next_target BY <2>3, <2>8 DEF Refused
    <2>10. m.seq \in Nat /\ x.next_target \in Nat BY <2>6, <2>7, NumberFacts, AfterType DEF Arrives, Good
    <2> QED BY <2>6, <2>9, <2>10 DEF Arrives, Fresh
  <1> QED BY <1>1, PairHolds, PTL

\* Two engines without resets that keep their messages never invent one: every
\* number given to from_app is that of an application message in the peer's
\* store, and no side expects a number the peer has not reached.
THEOREM PairInventsNothing == ASSUME NoResets, Keeping PROVE Spec => []NothingInvented
  <1>1. PairInv => NothingInvented
    <2> SUFFICES ASSUME PairInv, NEW side \in Sides
                 PROVE  /\ Given(side) \subseteq AppNumbers(Other(side))
                        /\ session[side].next_target <= session[Other(side)].next_sender
      BY DEF NothingInvented
    <2> DEFINE x == session[side]
               y == session[Other(side)]
               v == [app |-> Numbers(y), calm |-> Calm]
    <2>1. Hears(x, v) /\ Heeds(x, y.next_sender) BY PairFacts DEF View
    <2>2. v.app = AppNumbers(Other(side)) BY DEF Numbers, AppNumbers
    <2> HIDE DEF v
    <2>3. \A i \in DOMAIN x.delivered : x.delivered[i] \in v.app BY <2>1 DEF Hears
    <2>4. Given(side) = {x.delivered[i] : i \in DOMAIN x.delivered} BY DEF Given
    <2> QED BY <2>1, <2>2, <2>3, <2>4 DEF Heeds
  <1> QED BY <1>1, PairHolds, PTL

\* Two engines without resets that keep their messages, whose MsgTypes do not
\* begin with A, never pass over an application message of the other, as long
\* as no user logs out: below the expected number everything was given to
\* from_app, whatever was lost, stashed, resent and gap-filled in between.
THEOREM PairSkipsNothing ==
  ASSUME NoResets, Keeping, AppType = "App" PROVE Spec => []NothingSkipped
  <1>1. PairInv => NothingSkipped
    <2> SUFFICES ASSUME PairInv, logouts = 0, NEW side \in Sides, NEW n \in AppNumbers(Other(side)),
                        n < session[side].next_target
                 PROVE  n \in Given(side)
      BY DEF NothingSkipped
    <2> DEFINE x == session[side]
               y == session[Other(side)]
               v == [app |-> Numbers(y), calm |-> Calm]
    <2>1. Hears(x, v) BY PairFacts DEF View
    <2>2. v.app = AppNumbers(Other(side)) BY DEF Numbers, AppNumbers
    <2>3. v.calm BY DEF Calm
    <2> HIDE DEF v
    <2>4. \E i \in DOMAIN x.delivered : x.delivered[i] = n BY <2>1, <2>2, <2>3 DEF Hears
    <2> QED BY <2>4 DEF Given
  <1> QED BY <1>1, PairHolds, PTL
================================================================================
