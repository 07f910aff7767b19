---------------------------- MODULE MemoryStoreProofs ----------------------------
(***************************************************************************)
(* What MemoryStore retains, for every capacity, every bound and any order *)
(* of operations.                                                          *)
(***************************************************************************)
EXTENDS MemoryStore, FiniteSetTheorems, WellFoundedInduction, TLAPS

Bounds == capacity \in Nat /\ MaxSeq \in Nat

Held == DOMAIN messages
Count == Cardinality(Held)

MemoryTyped ==
    /\ next_sender \in Nat \ {0}
    /\ saves \in Seq(Nat)
    /\ Held \subseteq Nat /\ IsFiniteSet(Held)
    /\ set_back \in BOOLEAN

\* As long as the sender number only grows the numbers saved do too, and what
\* is held are the last ones: so the least number is the oldest message.
Growing ==
    ~set_back =>
        /\ \A i, j \in DOMAIN saves : i < j => saves[i] < saves[j]
        /\ \A i \in DOMAIN saves : saves[i] < next_sender
        /\ Count = capacity \/ Count = Len(saves)
        /\ Count <= Len(saves)
        /\ \A i \in DOMAIN saves :
              i > Len(saves) - Count => saves[i] \in Held /\ messages[saves[i]] = i

MInv == MemoryTyped /\ Bounded /\ Growing

--------------------------------------------------------------------------------
\* The BTreeMap has a first entry.
LEMMA LeastFound ==
  ASSUME NEW S \in SUBSET Nat, S # {}
  PROVE  Least(S) \in S /\ \A k \in S : Least(S) <= k
  <1> DEFINE R == {p \in Nat \X Nat : p[1] < p[2]}
  <1>1. IsWellFoundedOn(R, Nat) BY NatLessThanWellFounded, Zenon DEF OpToRel
  <1> HIDE DEF R
  <1>2. \E x \in S : \A y \in S : ~(<<y, x>> \in R) BY <1>1, WFMin
  <1>3. PICK x \in S : \A y \in S : ~(<<y, x>> \in R) BY <1>2
  <1>4. \A y \in S : y \in Nat /\ x \in Nat /\ (y < x => <<y, x>> \in R) BY DEF R
  <1>5. \A y \in S : ~(y < x) BY <1>3, <1>4, Zenon
  <1>6. \A y \in S : x <= y BY <1>4, <1>5
  <1> QED BY <1>6 DEF Least

\* save_message: one message more, and one less when there were too many.
LEMMA TrimFacts ==
  ASSUME Bounds, NEW map, IsFiniteSet(DOMAIN map), DOMAIN map \subseteq Nat,
         Cardinality(DOMAIN map) <= capacity + 1
  PROVE  /\ IsFiniteSet(DOMAIN Trim(map)) /\ DOMAIN Trim(map) \subseteq DOMAIN map
         /\ \A n \in DOMAIN Trim(map) : Trim(map)[n] = map[n]
         /\ Cardinality(DOMAIN map) <= capacity => Trim(map) = map
         /\ Cardinality(DOMAIN map) > capacity =>
               /\ Cardinality(DOMAIN Trim(map)) = capacity
               /\ \A k \in DOMAIN map :
                     (\E n \in DOMAIN map : n < k) => k \in DOMAIN Trim(map)
  <1>0. Cardinality(DOMAIN map) \in Nat /\ capacity \in Nat BY FS_CardinalityType DEF Bounds
  <1>1. CASE Cardinality(DOMAIN map) <= capacity
    BY <1>0, <1>1 DEF Trim
  <1>2. CASE Cardinality(DOMAIN map) > capacity
    <2> DEFINE D == DOMAIN map
               l == Least(D)
    <2>1. D # {} BY <1>0, <1>2, FS_EmptySet
    <2>2. l \in D /\ \A k \in D : l <= k BY <2>1, LeastFound
    <2>3. DOMAIN Trim(map) = D \ {l} /\ \A n \in D \ {l} : Trim(map)[n] = map[n]
      BY <1>0, <1>2 DEF Trim
    <2> HIDE DEF l
    <2>4. IsFiniteSet(D \ {l}) /\ Cardinality(D \ {l}) = Cardinality(D) - 1
      BY <2>2, FS_RemoveElement
    <2>5. \A k \in D : (\E n \in D : n < k) => k # l BY <2>2
    <2> QED BY <1>0, <1>2, <2>3, <2>4, <2>5
  <1> QED BY <1>0, <1>1, <1>2

LEMMA InitMemory == ASSUME Bounds PROVE Init => MInv
  <1> SUFFICES ASSUME Init PROVE MInv OBVIOUS
  <1>1. Held = {} /\ Count = 0 /\ IsFiniteSet(Held) BY FS_EmptySet DEF Init, Held, Count
  <1>2. set_back \in BOOLEAN BY Zenon DEF Init
  <1> QED BY <1>1, <1>2 DEF Init, MInv, MemoryTyped, Bounded, Growing, Bounds, Count, Held

LEMMA SaveMemory == ASSUME Bounds, MInv, SaveMessageAndIncr PROVE MInv'
  <1> DEFINE L == Len(saves)
             s == next_sender
             map == [n \in Held \cup {s} |-> IF n = s THEN L + 1 ELSE messages[n]]
  <1>1. /\ saves' = Append(saves, s) /\ messages' = Trim(map) /\ next_sender' = s + 1
        /\ set_back' = set_back
    BY DEF SaveMessageAndIncr, Held
  <1>2. /\ s \in Nat \ {0} /\ saves \in Seq(Nat) /\ L \in Nat /\ capacity \in Nat /\ Count \in Nat
        /\ Count <= capacity /\ Held \subseteq Nat /\ IsFiniteSet(Held) /\ DOMAIN saves = 1..L
        /\ Len(saves') = L + 1 /\ saves'[L + 1] = s /\ \A i \in 1..L : saves'[i] = saves[i]
        /\ DOMAIN saves' = 1..(L + 1) /\ saves' \in Seq(Nat)
    BY <1>1, FS_CardinalityType DEF MInv, MemoryTyped, Bounds, Bounded, Count, Held
  <1>3. DOMAIN map = Held \cup {s} /\ map[s] = L + 1 /\ \A n \in Held : n # s => map[n] = messages[n]
    OBVIOUS
  <1>4. \A n \in Held : messages[n] \in 1..L /\ saves[messages[n]] = n
    BY <1>2 DEF MInv, Bounded, Held
  <1> HIDE DEF map, L, s
  <1>5. /\ IsFiniteSet(DOMAIN map)
        /\ Cardinality(DOMAIN map) = IF s \in Held THEN Count ELSE Count + 1
    BY <1>2, <1>3, FS_AddElement DEF Count
  <1>6. Cardinality(DOMAIN map) <= capacity + 1 /\ DOMAIN map \subseteq Nat
        /\ Cardinality(DOMAIN map) \in Nat
    BY <1>2, <1>3, <1>5
  <1>7. /\ IsFiniteSet(Held') /\ Held' \subseteq DOMAIN map
        /\ \A n \in Held' : messages'[n] = map[n]
        /\ Cardinality(DOMAIN map) <= capacity => messages' = map
        /\ Cardinality(DOMAIN map) > capacity =>
              /\ Count' = capacity
              /\ \A k \in DOMAIN map : (\E n \in DOMAIN map : n < k) => k \in Held'
    BY <1>1, <1>5, <1>6, TrimFacts DEF Held, Count
  <1>8. MemoryTyped'
    <2>1. set_back' \in BOOLEAN BY <1>1 DEF MInv, MemoryTyped
    <2>2. next_sender' \in Nat \ {0} BY <1>1, <1>2
    <2>3. Held' \subseteq Nat BY <1>2, <1>3, <1>7
    <2> QED BY <1>2, <1>7, <2>1, <2>2, <2>3 DEF MemoryTyped
  <1>9. Bounded'
    <2>1. Count' <= capacity BY <1>6, <1>7, <1>2 DEF Count, Held
    <2>2. \A n \in Held' : n < s + 1 \/ set_back
      BY <1>2, <1>3, <1>7 DEF MInv, Bounded, Held, s
    <2>3. \A n \in Held' : messages'[n] \in DOMAIN saves' /\ saves'[messages'[n]] = n
      <3> SUFFICES ASSUME NEW n \in Held'
                   PROVE  messages'[n] \in DOMAIN saves' /\ saves'[messages'[n]] = n
        OBVIOUS
      <3>1. CASE n = s BY <3>1, <1>2, <1>3, <1>7
      <3>2. CASE n # s
        <4>1. n \in Held /\ messages'[n] = messages[n] BY <3>2, <1>3, <1>7
        <4>2. messages[n] \in 1..L /\ saves[messages[n]] = n BY <4>1, <1>4
        <4> QED BY <1>2, <4>1, <4>2
      <3> QED BY <3>1, <3>2
    <2> QED BY <1>1, <2>1, <2>2, <2>3 DEF Bounded, Count, Held
  <1>10. Growing'
    <2> SUFFICES ASSUME ~set_back
                 PROVE  /\ \A i, j \in DOMAIN saves' : i < j => saves'[i] < saves'[j]
                        /\ \A i \in DOMAIN saves' : saves'[i] < s + 1
                        /\ Count' = capacity \/ Count' = L + 1
                        /\ Count' <= L + 1
                        /\ \A i \in DOMAIN saves' : i > L + 1 - Count' =>
                              saves'[i] \in Held' /\ messages'[saves'[i]] = i
      BY <1>1, <1>2 DEF Growing
    <2>1. /\ \A i, j \in 1..L : i < j => saves[i] < saves[j]
          /\ \A i \in 1..L : saves[i] < s
          /\ Count = capacity \/ Count = L
          /\ Count <= L
          /\ \A i \in 1..L : i > L - Count => saves[i] \in Held /\ messages[saves[i]] = i
      <3>1. DOMAIN saves = 1..L BY <1>2
      <3> QED BY <3>1 DEF MInv, Growing, s, L
    <2>8. \A i \in 1..L : saves[i] \in Nat BY <1>2
    <2>2. s \notin Held BY <1>2 DEF MInv, Bounded, Held, s
    <2>3. Cardinality(DOMAIN map) = Count + 1 BY <1>5, <2>2
    <2>4. /\ \A i, j \in 1..(L + 1) : i < j => saves'[i] < saves'[j]
          /\ \A i \in 1..(L + 1) : saves'[i] < s + 1
      <3>1. \A i \in 1..(L + 1) : i \in 1..L \/ i = L + 1 BY <1>2
      <3>2. \A i, j \in 1..(L + 1) : i < j => i \in 1..L BY <1>2
      <3> QED BY <1>2, <2>1, <2>8, <3>1, <3>2
    <2>5. Count' = capacity \/ Count' = L + 1
      BY <1>2, <1>7, <2>1, <2>3 DEF Count, Held
    <2>6. Count' <= L + 1
      BY <1>2, <1>7, <2>1, <2>3 DEF Count, Held
    <2>7. ASSUME NEW i \in 1..(L + 1), i > L + 1 - Count'
          PROVE  saves'[i] \in Held' /\ messages'[saves'[i]] = i
      <3>1. saves'[i] \in DOMAIN map /\ map[saves'[i]] = i
        <4>1. CASE i = L + 1 BY <4>1, <1>2, <1>3
        <4>2. CASE i \in 1..L
          <5>1. i > L - Count BY <1>2, <1>7, <2>3, <2>7, <4>2 DEF Count, Held
          <5>2. saves[i] \in Held /\ messages[saves[i]] = i /\ saves[i] # s
            BY <2>1, <2>2, <4>2, <5>1
          <5> QED BY <1>2, <1>3, <4>2, <5>2
        <4> QED BY <1>2, <4>1, <4>2
      <3>2. CASE Cardinality(DOMAIN map) <= capacity BY <1>7, <3>1, <3>2 DEF Held
      <3>3. CASE Cardinality(DOMAIN map) > capacity
        <4> DEFINE o == L + 1 - Count
        <4>1. Count = capacity /\ Count' = capacity BY <1>2, <1>7, <2>3, <3>3
        <4>2. o \in 1..L /\ o > L - Count /\ o < i BY <1>2, <2>1, <2>7, <4>1
        <4>3. saves[o] \in Held /\ saves'[o] = saves[o] BY <1>2, <2>1, <4>2
        <4>4. saves'[o] < saves'[i] /\ saves'[o] \in DOMAIN map
          BY <1>2, <1>3, <2>4, <4>2, <4>3
        <4>5. saves'[i] \in Held' BY <1>7, <3>1, <3>3, <4>4
        <4> QED BY <1>7, <3>1, <4>5
      <3> QED BY <1>2, <1>6, <3>2, <3>3
    <2> QED BY <1>2, <2>4, <2>5, <2>6, <2>7
  <1> QED BY <1>8, <1>9, <1>10 DEF MInv

\* The other operations touch the buffer only to empty it.
LEMMA StepMemory == ASSUME Bounds, MInv, [Next]_vars PROVE MInv'
  <1>1. CASE SaveMessageAndIncr BY <1>1, SaveMemory
  <1>2. CASE IncrNextSender
    <2>1. next_sender \in Nat \ {0} /\ Held \subseteq Nat /\ saves \in Seq(Nat)
      BY DEF MInv, MemoryTyped
    <2>2. next_sender' = next_sender + 1 /\ UNCHANGED <<next_target, messages, saves, set_back>>
      BY <1>2 DEF IncrNextSender
    <2>3. \A k \in Nat : k < next_sender => k < next_sender' BY <2>1, <2>2
    <2>4. \A n \in Held : n \in Nat BY <2>1
    <2>5. \A i \in DOMAIN saves : saves[i] \in Nat BY <2>1
    <2>6. MemoryTyped' BY <2>1, <2>2 DEF MInv, MemoryTyped, Held
    <2>7. Bounded' BY <2>2, <2>3, <2>4 DEF MInv, Bounded, Held
    <2>8. Growing' BY <2>2, <2>3, <2>5 DEF MInv, Growing, Held, Count
    <2> QED BY <2>6, <2>7, <2>8 DEF MInv
  <1>3. CASE IncrNextTarget \/ \E n \in 1..MaxSeq : SetNextTarget(n)
    BY <1>3 DEF IncrNextTarget, SetNextTarget, MInv, MemoryTyped, Bounded, Growing, Held, Count
  <1>4. ASSUME NEW n \in 1..MaxSeq, SetNextSender(n) PROVE MInv'
    <2>1. next_sender \in Nat \ {0} /\ Held \subseteq Nat /\ saves \in Seq(Nat) /\ n \in Nat \ {0}
      BY DEF MInv, MemoryTyped, Bounds
    <2>2. /\ next_sender' = n /\ UNCHANGED <<next_target, messages, saves>>
          /\ set_back' \in BOOLEAN
          /\ set_back' <=> (set_back \/ n < next_sender)
      BY <1>4, Zenon DEF SetNextSender
    <2>3. ~set_back' => ~set_back /\ \A k \in Nat : k < next_sender => k < next_sender'
      BY <2>1, <2>2
    <2>4. \A k \in Held : k \in Nat BY <2>1
    <2>5. \A i \in DOMAIN saves : saves[i] \in Nat BY <2>1
    <2>6. MemoryTyped' BY <2>1, <2>2 DEF MInv, MemoryTyped, Held
    <2>7. Bounded' BY <2>2, <2>3, <2>4 DEF MInv, Bounded, Held
    <2>8. Growing' BY <2>2, <2>3, <2>5 DEF MInv, Growing, Held, Count
    <2> QED BY <2>6, <2>7, <2>8 DEF MInv
  <1>5. CASE Reset
    <2>1. Init' BY <1>5 DEF Reset, Init
    <2>2. Held' = {} /\ Count' = 0 /\ IsFiniteSet(Held') BY <2>1, FS_EmptySet DEF Init, Held, Count
    <2>3. set_back' \in BOOLEAN BY <2>1, Zenon DEF Init
    <2> QED BY <2>1, <2>2, <2>3 DEF Init, MInv, MemoryTyped, Bounded, Growing, Bounds, Count, Held
  <1>6. CASE UNCHANGED vars
    BY <1>6 DEF vars, MInv, MemoryTyped, Bounded, Growing, Held, Count
  <1> QED BY <1>1, <1>2, <1>3, <1>4, <1>5, <1>6 DEF Next

\* trim never drops one of the last "capacity" messages, unless the operator has
\* set the number back, and never keeps more than that; and what it keeps is what
\* was saved last under its number.
THEOREM RetentionCorrect == ASSUME Bounds PROVE Spec => []MemoryKept
  <1>1. MInv => MemoryKept
    <2> SUFFICES ASSUME MInv, ~set_back, NEW i \in DOMAIN saves, Len(saves) - i < capacity
                 PROVE  saves[i] \in Held /\ messages[saves[i]] = i
      BY DEF MInv, MemoryKept, RecentRetained, Held
    <2>1. Len(saves) \in Nat /\ i \in 1..Len(saves) /\ Count \in Nat /\ capacity \in Nat
      BY FS_CardinalityType DEF MInv, MemoryTyped, Count, Bounds
    <2> QED BY <2>1 DEF MInv, Growing
  <1>2. Init => MInv BY InitMemory
  <1>3. MInv /\ [Next]_vars => MInv' BY StepMemory
  <1> QED BY <1>1, <1>2, <1>3, PTL DEF Spec
================================================================================
