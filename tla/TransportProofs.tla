---------------------------- MODULE TransportProofs ----------------------------
(***************************************************************************)
(* The dial loop of an initiator and its session, for any number of        *)
(* connections and any capacity of the command channel.                    *)
(***************************************************************************)
EXTENDS Transport, TLAPS

Command == [op: {"status", "attach", "stop"}, conn: Nat]
Holding == {"wait", "aborted"}

\* Nothing is accepted, so the command channel holds the one connection that
\* was dialled last, if any, and Stop; and the session holds that connection
\* or none, with the sender the loop waits for.
DInv == /\ dial # "listen"
        /\ handler = [c \in Conn |-> "none"]
        /\ dialled \in Nat
        /\ cmds \in Seq(Command)
        /\ \A i \in DOMAIN cmds : cmds[i] = Stop \/ cmds[i] = Attach(dialled)
        /\ \A i, j \in DOMAIN cmds : cmds[i].op = "attach" /\ cmds[j].op = "attach" => i = j
        /\ (\E i \in DOMAIN cmds : cmds[i].op = "attach") => attached = None /\ dial \in Holding
        /\ disc = attached
        /\ attached # None => attached = dialled /\ dial \in Holding

\* The channel alone.
InOrder(q, d) ==
    /\ q \in Seq(Command)
    /\ \A i \in DOMAIN q : q[i] = Stop \/ q[i] = Attach(d)
    /\ \A i, j \in DOMAIN q : q[i].op = "attach" /\ q[j].op = "attach" => i = j
Carries(q) == \E i \in DOMAIN q : q[i].op = "attach"

LEMMA Commands ==
  ASSUME NEW d \in Nat
  PROVE  /\ Attach(d) \in Command /\ Stop \in Command
         /\ Attach(d).op = "attach" /\ Attach(d).conn = d /\ Stop.op = "stop"
  BY DEF Attach, Stop, Command, None

LEMMA AppendStop ==
  ASSUME NEW d \in Nat, NEW q, InOrder(q, d)
  PROVE  InOrder(Append(q, Stop), d) /\ (Carries(Append(q, Stop)) => Carries(q))
  BY Commands DEF InOrder, Carries

LEMMA AppendAttach ==
  ASSUME NEW d \in Nat, NEW q, InOrder(q, d), ~Carries(q)
  PROVE  InOrder(Append(q, Attach(d)), d)
  BY Commands DEF InOrder, Carries

LEMMA TakeHead ==
  ASSUME NEW d \in Nat, NEW q, InOrder(q, d), q # <<>>
  PROVE  /\ InOrder(Tail(q), d)
         /\ Carries(Tail(q)) => Carries(q) /\ Head(q).op # "attach"
         /\ Head(q) \in {Stop, Attach(d)}
         /\ Head(q).op = "attach" => Carries(q)
  <1>1. Len(q) \in Nat /\ Len(q) >= 1 /\ Tail(q) \in Seq(Command) /\ Len(Tail(q)) = Len(q) - 1
        /\ Head(q) = q[1] /\ DOMAIN q = 1..Len(q) /\ DOMAIN Tail(q) = 1..Len(Tail(q))
    BY DEF InOrder
  <1>2. \A i \in DOMAIN Tail(q) : Tail(q)[i] = q[i + 1] /\ i + 1 \in DOMAIN q /\ i + 1 # 1
    BY <1>1 DEF InOrder
  <1>3. 1 \in DOMAIN q BY <1>1
  <1>4. InOrder(Tail(q), d)
    <2>1. \A i \in DOMAIN Tail(q) : i \in Nat BY <1>1
    <2> QED BY <1>1, <1>2, <2>1 DEF InOrder
  <1>5. Head(q) \in {Stop, Attach(d)} BY <1>1, <1>3 DEF InOrder
  <1>6. Carries(Tail(q)) => Carries(q) /\ Head(q).op # "attach"
    BY <1>1, <1>2, <1>3 DEF InOrder, Carries
  <1> QED BY <1>1, <1>3, <1>4, <1>5, <1>6 DEF Carries

LEMMA Restate ==
    DInv <=> /\ dial # "listen" /\ handler = [c \in Conn |-> "none"] /\ dialled \in Nat
             /\ InOrder(cmds, dialled)
             /\ Carries(cmds) => attached = None /\ dial \in Holding
             /\ disc = attached
             /\ attached # None => attached = dialled /\ dial \in Holding
  BY DEF DInv, InOrder, Carries

LEMMA InitDInv == Init /\ IsInitiator => DInv
  BY DEF Init, DInv, None

--------------------------------------------------------------------------------
\* The handlers never start.
LEMMA NoHandlers ==
  ASSUME DInv, NEW c \in Conn, Accept(c) \/ Handshake(c) \/ Handle(c) \/ Expire(c)
  PROVE  FALSE
  BY DEF DInv, Accept, Handshake, Handle, FirstFrame, NoFirstFrame, Ask, Answered, Wake,
     HandOver, Expire

LEMMA DialInv == ASSUME DInv, Dial \/ ConnectTls PROVE DInv'
  <1> USE DEF handlers, session
  <1>0. /\ dial # "listen" /\ handler = [c \in Conn |-> "none"] /\ dialled \in Nat
        /\ InOrder(cmds, dialled)
        /\ Carries(cmds) => attached = None /\ dial \in Holding
        /\ disc = attached
        /\ attached # None => attached = dialled /\ dial \in Holding
    BY Restate
  <1>1. CASE Connect \/ ConnectTls \/ ConnectFails \/ Redial
    <2>1. ~Carries(cmds) /\ attached = None /\ dial' # "listen" /\ dialled' \in Nat
          /\ cmds' = cmds /\ attached' = attached /\ disc' = disc /\ handler' = handler
      BY <1>0, <1>1 DEF Connect, ConnectTls, ConnectFails, Redial, Holding
    <2>2. InOrder(cmds, dialled') BY <1>0, <2>1 DEF InOrder, Carries, Attach
    <2> QED BY <1>0, <2>1, <2>2 DEF DInv, InOrder, Carries
  <1>2. CASE AttachInitiator
    <2>1. ~Carries(cmds) /\ attached = None BY <1>0, <1>2 DEF AttachInitiator, Holding
    <2>2. InOrder(Append(cmds, Attach(dialled)), dialled) BY <1>0, <2>1, AppendAttach
    <2>3. InOrder(cmds', dialled) /\ dialled' = dialled /\ attached' = attached /\ disc' = disc
          /\ handler' = handler /\ dial' # "listen"
          /\ (dial' = "wait" \/ cmds' = cmds)
      BY <1>0, <1>2, <2>2 DEF AttachInitiator
    <2> QED BY <1>0, <2>1, <2>3 DEF DInv, InOrder, Carries, Holding
  <1>3. CASE Detached
    <2>1. attached = None /\ ~Carries(cmds)
      <3>1. attached # dialled /\ ~Queued(dialled) BY <1>0, <1>3 DEF Detached
      <3>2. \A i \in DOMAIN cmds : cmds[i] # Attach(dialled) BY <3>1 DEF Queued
      <3> QED BY <1>0, <3>1, <3>2, Commands DEF InOrder, Carries
    <2> QED BY <1>0, <1>3, <2>1 DEF Detached, DInv, InOrder, Carries
  <1> QED BY <1>1, <1>2, <1>3 DEF Dial

LEMMA ServeInv ==
  ASSUME IsInitiator, DInv, Serve \/ Disconnect \/ Block \/ Unblock PROVE DInv'
  <1> USE DEF handlers, dialler
  <1>0. /\ dial # "listen" /\ handler = [c \in Conn |-> "none"] /\ dialled \in Nat
        /\ InOrder(cmds, dialled)
        /\ Carries(cmds) => attached = None /\ dial \in Holding
        /\ disc = attached
        /\ attached # None => attached = dialled /\ dial \in Holding
    BY Restate
  <1>1. CASE TakeStatus \/ TakeAttach \/ TakeStop
    <2>1. cmds # <<>> /\ cmds' = Tail(cmds) /\ dial' = dial /\ dialled' = dialled /\ handler' = handler
      BY <1>1 DEF TakeStatus, TakeAttach, TakeStop, Take
    <2>2. /\ InOrder(Tail(cmds), dialled)
          /\ Carries(Tail(cmds)) => Carries(cmds) /\ Head(cmds).op # "attach"
          /\ Head(cmds) \in {Stop, Attach(dialled)}
          /\ Head(cmds).op = "attach" => Carries(cmds)
      BY <1>0, <2>1, TakeHead
    <2>3. CASE TakeAttach
      <3>1. Head(cmds).op = "attach" /\ Head(cmds).conn = dialled
        BY <1>0, <2>2, <2>3, Commands DEF TakeAttach, Take
      <3>2. attached = None /\ dial \in Holding BY <1>0, <2>2, <3>1
      <3>3. ~Carries(cmds') BY <2>1, <2>2, <3>1
      <3>4. attached' = dialled /\ disc' = dialled
        BY <2>3, <3>1, <3>2 DEF TakeAttach
      <3> QED BY <1>0, <2>1, <2>2, <3>2, <3>3, <3>4 DEF DInv, InOrder, Carries
    <2>4. CASE TakeStatus \/ TakeStop
      <3>1. attached' = attached /\ disc' = disc BY <2>4 DEF TakeStatus, TakeStop, session
      <3> QED BY <1>0, <2>1, <2>2, <3>1 DEF DInv, InOrder, Carries
    <2> QED BY <1>1, <2>3, <2>4
  <1>2. CASE StopInbound \/ Disconnect \/ Block \/ Unblock
    <2>1. cmds' = cmds /\ dial' = dial /\ dialled' = dialled /\ handler' = handler
          /\ ((attached' = None /\ disc' = None) \/ (attached' = attached /\ disc' = disc))
      BY <1>2 DEF StopInbound, Disconnect, Block, Unblock, LetGo
    <2> QED BY <1>0, <2>1 DEF DInv, InOrder, Carries
  <1>3. CASE StopEnds
    <2>1. cmds' = <<>> /\ dial' = dial /\ dialled' = dialled /\ handler' = handler
          /\ attached' = None /\ disc' = None
      BY <1>3 DEF StopEnds, LetGo
    <2> QED BY <1>0, <2>1 DEF DInv
  <1> QED BY <1>1, <1>2, <1>3 DEF Serve

LEMMA StopInv == ASSUME DInv, StopEngine PROVE DInv'
  <1> USE DEF handlers, dialler, session
  <1>0. dialled \in Nat /\ InOrder(cmds, dialled) BY Restate
  <1>1. CASE AbortIo \/ Aborted
    <2>1. cmds' = cmds /\ dialled' = dialled /\ handler' = handler /\ attached' = attached
          /\ disc' = disc /\ dial' \in {dial, "aborted"}
      BY <1>1 DEF AbortIo, Aborted
    <2> QED BY <2>1 DEF DInv, Holding
  <1>2. CASE SendStop
    <2>1. InOrder(Append(cmds, Stop), dialled) /\ (Carries(Append(cmds, Stop)) => Carries(cmds))
      BY <1>0, AppendStop
    <2>2. cmds' = Append(cmds, Stop) /\ dialled' = dialled /\ handler' = handler
          /\ attached' = attached /\ disc' = disc /\ dial' = dial
      BY <1>2 DEF SendStop
    <2> QED BY <2>1, <2>2, Restate DEF DInv, InOrder, Carries
  <1> QED BY <1>1, <1>2 DEF StopEngine

LEMMA StepDInv == ASSUME IsInitiator, DInv, [Next]_vars PROVE DInv'
  <1>1. CASE UNCHANGED vars BY <1>1 DEF vars, handlers, dialler, session, DInv
  <1>2. CASE Next BY <1>2, NoHandlers, DialInv, ServeInv, StopInv DEF Next
  <1> QED BY <1>1, <1>2

--------------------------------------------------------------------------------
\* run_initiator hands the session a new connection only when it holds none:
\* on_attach never refuses what was dialled, however Stop, the abort of the
\* loop, lost connections and the commands in the channel fall together, and
\* even if the peer never reads.
THEOREM DialledNeverRefused == SpecSilent => []NeverRefused
  <1> DEFINE I == IsInitiator => DInv
  <1>1. Init => I BY InitDInv
  <1>2. I /\ [Next]_vars => I' BY StepDInv
  <1>3. I => NeverRefused
    BY Restate, Commands DEF NeverRefused, Queued, Carries, InOrder, Attach
  <1> QED BY <1>1, <1>2, <1>3, PTL DEF SpecSilent
================================================================================
