------------------------------ MODULE MemoryStore ------------------------------
(***************************************************************************)
(* MemoryStore of src/store.rs with a bound on the retained messages.      *)
(***************************************************************************)
EXTENDS Naturals, FiniteSets, Sequences

CONSTANTS
    capacity,       \* MemoryStore::with_capacity
    MaxSeq,         \* bound on the numbers
    MaxSaves        \* bound on the messages saved

VARIABLES
    next_sender, next_target,
    messages,       \* number -> which of the saves it holds
    saves,          \* history: the numbers saved since the last reset, in order
    set_back        \* history: the sender number was set back since then

vars == <<next_sender, next_target, messages, saves, set_back>>

Least(S) == CHOOSE n \in S : \A k \in S : n <= k

Init == /\ next_sender = 1
        /\ next_target = 1
        /\ messages = [n \in {} |-> 0]
        /\ saves = <<>>
        /\ set_back = FALSE

\* Mutant: the greatest number goes first.
TrimNewest(map) ==
    IF Cardinality(DOMAIN map) <= capacity THEN map
    ELSE [n \in DOMAIN map \ {CHOOSE n \in DOMAIN map : \A k \in DOMAIN map : k <= n} |-> map[n]]

\* trim; a save adds one message, so its loop runs at most once.
Trim(map) ==
    IF Cardinality(DOMAIN map) <= capacity THEN map
    ELSE [n \in DOMAIN map \ {Least(DOMAIN map)} |-> map[n]]

SaveMessageAndIncr ==
    /\ next_sender < MaxSeq
    /\ Len(saves) < MaxSaves
    /\ saves' = Append(saves, next_sender)
    /\ messages' = Trim([n \in DOMAIN messages \cup {next_sender} |->
                            IF n = next_sender THEN Len(saves) + 1 ELSE messages[n]])
    /\ next_sender' = next_sender + 1
    /\ UNCHANGED <<next_target, set_back>>

IncrNextSender ==
    /\ next_sender < MaxSeq
    /\ next_sender' = next_sender + 1
    /\ UNCHANGED <<next_target, messages, saves, set_back>>

IncrNextTarget ==
    /\ next_target < MaxSeq
    /\ next_target' = next_target + 1
    /\ UNCHANGED <<next_sender, messages, saves, set_back>>

SetNextSender(n) ==
    /\ set_back' = (set_back \/ n < next_sender)
    /\ next_sender' = n
    /\ UNCHANGED <<next_target, messages, saves>>

SetNextTarget(n) ==
    /\ next_target' = n
    /\ UNCHANGED <<next_sender, messages, saves, set_back>>

Reset == /\ next_sender' = 1
         /\ next_target' = 1
         /\ messages' = [n \in {} |-> 0]
         /\ saves' = <<>>
         /\ set_back' = FALSE

Next == \/ SaveMessageAndIncr \/ IncrNextSender \/ IncrNextTarget \/ Reset
        \/ \E n \in 1..MaxSeq : SetNextSender(n) \/ SetNextTarget(n)

Spec == Init /\ [][Next]_vars

--------------------------------------------------------------------------------
\* The last "capacity" messages that were saved, whatever their numbers, can
\* be resent ("When exceeded, the oldest messages are dropped").  (Once the
\* operator has set the number back, the least number is not the oldest.)
RecentRetained ==
    ~set_back => \A i \in DOMAIN saves :
        (Len(saves) - i < capacity /\ \A j \in i + 1 .. Len(saves) : saves[j] # saves[i])
            => saves[i] \in DOMAIN messages /\ messages[saves[i]] = i

\* The resend buffer never outgrows its bound, and holds nothing but what was
\* saved last under its number.
Bounded == /\ Cardinality(DOMAIN messages) <= capacity
           /\ \A n \in DOMAIN messages : n < next_sender \/ set_back
           /\ \A n \in DOMAIN messages : messages[n] \in DOMAIN saves /\ saves[messages[n]] = n

\* What the bound on the resend buffer may cost, and may not.
MemoryKept == RecentRetained /\ Bounded
================================================================================
