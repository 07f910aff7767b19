------------------------------ MODULE MessageStore ------------------------------
(***************************************************************************)
(* What the trait MessageStore of src/store.rs promises a session: two     *)
(* numbers and the messages sent under them.  An operation is visible at   *)
(* once and has returned when Commit happens; a crash keeps the operation  *)
(* in flight whole or drops its effect on the numbers whole, and touches   *)
(* nothing else.                                                           *)
(***************************************************************************)
EXTENDS Naturals

CONSTANT Raw    \* the messages

VARIABLES next_sender, next_target,
          messages,     \* a function from the numbers saved to their messages
          committed     \* the two numbers as the last returned operation left them

vars == <<next_sender, next_target, messages, committed>>

SeqNum == Nat \ {0}
numbers == <<next_sender, next_target>>

Init == /\ next_sender = 1
        /\ next_target = 1
        /\ messages = [n \in {} |-> <<>>]
        /\ committed = <<1, 1>>

\* save_message: under the next number, replacing what was saved under it.
SaveMessage(raw) ==
    /\ numbers = committed
    /\ messages' = [n \in DOMAIN messages \cup {next_sender} |->
                        IF n = next_sender THEN raw ELSE messages[n]]
    /\ UNCHANGED <<next_sender, next_target, committed>>

SetNextSender == /\ numbers = committed
                 /\ next_sender' \in SeqNum
                 /\ UNCHANGED <<next_target, messages, committed>>

SetNextTarget == /\ numbers = committed
                 /\ next_target' \in SeqNum
                 /\ UNCHANGED <<next_sender, messages, committed>>

Reset == /\ numbers = committed
         /\ messages' = [n \in {} |-> <<>>]
         /\ next_sender' = 1
         /\ next_target' = 1
         /\ UNCHANGED committed

Commit == /\ committed' = numbers
          /\ UNCHANGED <<next_sender, next_target, messages>>

Crash == /\ next_sender' = committed[1]
         /\ next_target' = committed[2]
         /\ UNCHANGED <<messages, committed>>

Next == \/ \E raw \in Raw : SaveMessage(raw)
        \/ SetNextSender
        \/ SetNextTarget
        \/ Reset
        \/ Commit
        \/ Crash

Spec == Init /\ [][Next]_vars

=================================================================================
