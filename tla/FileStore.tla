------------------------------- MODULE FileStore -------------------------------
(***************************************************************************)
(* FileStore of src/store.rs: the numbers cached in memory, the files      *)
(* body, header, seqnums and session, and what is left of them after the   *)
(* process or the machine stops.                                           *)
(*                                                                         *)
(* An operation is a chain of writes; pc names the write the store is      *)
(* about to make, and the process may stop between any two of them.        *)
(* "file" is what the operating system holds (it outlives the process),    *)
(* "disk" what is on stable storage (it outlives the machine).             *)
(*                                                                         *)
(* The header file is kept as what reading it gives: the last line of      *)
(* every number, and whether a line was cut short.  The session file holds *)
(* the creation time, of which only whether it can be parsed matters here. *)
(***************************************************************************)
EXTENDS Naturals, Sequences

CONSTANTS
    Byte,
    Raw,        \* the messages: non-empty sequences of bytes
    Sync,       \* FileStoreSync
    Faults,     \* a subset of AllFaults
    Ops,        \* the operations used, a subset of AllOps
    MaxSeq,     \* bound on the numbers
    MaxBody     \* bound on the body file

\* "in_reset", "in_session": the process or the machine may also stop inside
\* reset, or between the two calls by which fs::write rewrites the session file.
AllFaults == {"crash", "power_loss", "in_reset", "in_session", "io_error"}
AllOps == {"save", "numbers", "reset", "refresh"}

ASSUME StoreAssumption ==
    /\ \A m \in Raw : m \in Seq(Byte) /\ m # <<>>
    /\ Sync \in BOOLEAN
    /\ Faults \subseteq AllFaults
    /\ Ops \subseteq AllOps
    /\ MaxSeq \in Nat
    /\ MaxBody \in Nat

VARIABLES
    running,    \* the process has the store open
    cache,      \* next_sender and next_target of the cached MemoryStore
    offsets,    \* number -> range of the body file
    body_len,
    file,       \* the four files as the operating system holds them
    disk,       \* the four files on stable storage
    pc,         \* the next write of the operation in progress, or "idle"
    raw,        \* the argument of save_message, <<>> outside it
    kept        \* history: the saved messages whose number was passed

memory == <<running, cache, offsets, body_len, pc, raw>>
vars == <<running, cache, offsets, body_len, file, disk, pc, raw, kept>>

SeqNum == Nat \ {0}
Range == [off: Nat, len: Nat]
EmptyMap == [n \in {} |-> <<>>]

Names == {"body", "header", "seqnums", "session"}
NoFiles == [body |-> <<>>, header |-> [lines |-> EmptyMap, cut |-> FALSE],
            seqnums |-> <<>>, session |-> "missing"]

\* BTreeMap::insert, and a line appended to the header.
Insert(map, n, value) == [k \in DOMAIN map \cup {n} |-> IF k = n THEN value ELSE map[k]]

Below(map, n) == [k \in DOMAIN map \cap 1 .. n - 1 |-> map[k]]

\* load, the seqnums file: an empty one leaves the numbers of a new store.
NumbersIn(f) == IF f.seqnums = <<>> THEN [sender |-> 1, target |-> 1]
                ELSE [sender |-> f.seqnums[1], target |-> f.seqnums[2]]

\* load returns corrupt(..) for a header line that does not parse and for a
\* session file without a time.
Loadable(f) == ~f.header.cut /\ f.session # "empty"

\* get_messages for one number: seek and read_exact.
Readable(body, range) == range.off + range.len <= Len(body)
Read(body, range) == [i \in 1..range.len |-> body[range.off + i]]

--------------------------------------------------------------------------------
Init == /\ running = FALSE
        /\ cache = [sender |-> 1, target |-> 1]
        /\ offsets = EmptyMap
        /\ body_len = 0
        /\ file = NoFiles
        /\ disk = NoFiles
        /\ pc = "idle"
        /\ raw = <<>>
        /\ kept = EmptyMap

\* Mutant: the end of the body file is not looked up.
LoadWithoutSeek ==
    /\ Loadable(file)
    /\ cache' = NumbersIn(file)
    /\ offsets' = file.header.lines
    /\ body_len' = 0
    /\ pc' = IF file.session = "missing" THEN "create_session" ELSE "idle"
    /\ UNCHANGED <<raw, file, disk, kept>>

\* Mutant: the index is not read back.
LoadWithoutIndex ==
    /\ Loadable(file)
    /\ cache' = NumbersIn(file)
    /\ offsets' = EmptyMap
    /\ body_len' = Len(file.body)
    /\ pc' = IF file.session = "missing" THEN "create_session" ELSE "idle"
    /\ UNCHANGED <<raw, file, disk, kept>>

\* load; the first one creates the session file.
Load == /\ Loadable(file)
        /\ cache' = NumbersIn(file)
        /\ offsets' = file.header.lines
        /\ body_len' = Len(file.body)
        /\ pc' = IF file.session = "missing" THEN "create_session" ELSE "idle"
        /\ UNCHANGED <<raw, file, disk, kept>>

\* open_with_sync
Open == /\ ~running
        /\ running' = TRUE
        /\ Load

Refresh == /\ running /\ pc = "idle" /\ "refresh" \in Ops
           /\ Load
           /\ UNCHANGED running

--------------------------------------------------------------------------------
(***************************************************************************)
(* The operations.  Each starts its chain of writes.                       *)
(***************************************************************************)
Idle == running /\ pc = "idle"

SaveMessageAndIncr(m) ==
    /\ Idle /\ "save" \in Ops
    /\ cache.sender < MaxSeq
    /\ Len(file.body) + Len(m) <= MaxBody
    /\ raw' = m
    /\ pc' = "body"
    /\ UNCHANGED <<running, cache, offsets, body_len, file, disk, kept>>

\* incr_next_sender_seq_num on its own (PersistMessages=N).
IncrNextSender ==
    /\ Idle /\ "numbers" \in Ops
    /\ cache.sender < MaxSeq
    /\ pc' = "incr_sender"
    /\ UNCHANGED <<running, cache, offsets, body_len, raw, file, disk, kept>>

IncrNextTarget ==
    /\ Idle /\ "numbers" \in Ops
    /\ cache.target < MaxSeq
    /\ cache' = [cache EXCEPT !.target = @ + 1]
    /\ pc' = "seqnums"
    /\ UNCHANGED <<running, offsets, body_len, raw, file, disk, kept>>

\* set_next_sender_seq_num, set_next_target_seq_num
SetNextNum(which, n) ==
    /\ Idle /\ "numbers" \in Ops
    /\ cache' = [cache EXCEPT ![which] = n]
    /\ pc' = "seqnums"
    /\ kept' = IF which = "sender" THEN Below(kept, n) ELSE kept
    /\ UNCHANGED <<running, offsets, body_len, raw, file, disk>>

\* reset, up to its first write.
Reset == /\ Idle /\ "reset" \in Ops
         /\ cache' = [sender |-> 1, target |-> 1]
         /\ offsets' = EmptyMap
         /\ body_len' = 0
         /\ pc' = "cut_body"
         /\ kept' = EmptyMap
         /\ UNCHANGED <<running, raw, file, disk>>

--------------------------------------------------------------------------------
(***************************************************************************)
(* The writes.                                                             *)
(***************************************************************************)
At(step) == running /\ pc = step
Put(name, content) == file' = [file EXCEPT ![name] = content]

\* save_message, the body; the offset of its line is the old body_len.
WriteBody ==
    /\ At("body")
    /\ Put("body", file.body \o raw)
    /\ body_len' = body_len + Len(raw)
    /\ pc' = "header"
    /\ UNCHANGED <<running, cache, offsets, raw, disk, kept>>

Line == [off |-> body_len - Len(raw), len |-> Len(raw)]

WriteHeader ==
    /\ At("header")
    /\ Put("header", [file.header EXCEPT !.lines = Insert(@, cache.sender, Line)])
    /\ offsets' = Insert(offsets, cache.sender, Line)
    /\ pc' = "sync_message"
    /\ UNCHANGED <<running, cache, body_len, raw, disk, kept>>

\* fsync of body and header, a no-op unless Sync.
SyncMessage ==
    /\ At("sync_message")
    /\ disk' = IF Sync THEN [disk EXCEPT !.body = file.body, !.header = file.header] ELSE disk
    /\ pc' = "incr_sender"
    /\ UNCHANGED <<running, cache, offsets, body_len, raw, file, kept>>

IncrSender ==
    /\ At("incr_sender")
    /\ cache' = [cache EXCEPT !.sender = @ + 1]
    /\ pc' = "seqnums"
    /\ UNCHANGED <<running, offsets, body_len, raw, file, disk, kept>>

\* Mutant: only the number that was changed last is written.
WriteSenderOnly ==
    /\ At("seqnums")
    /\ Put("seqnums", <<cache.sender, NumbersIn(file).target>>)
    /\ pc' = "sync_seqnums"
    /\ raw' = <<>>
    /\ kept' = IF raw = <<>> THEN kept ELSE Insert(kept, cache.sender - 1, raw)
    /\ UNCHANGED <<running, cache, offsets, body_len, disk>>

WriteSeqnums ==
    /\ At("seqnums")
    /\ Put("seqnums", <<cache.sender, cache.target>>)
    /\ pc' = "sync_seqnums"
    /\ raw' = <<>>
    /\ kept' = IF raw = <<>> THEN kept ELSE Insert(kept, cache.sender - 1, raw)
    /\ UNCHANGED <<running, cache, offsets, body_len, disk>>

\* Mutant: the number is not flushed.
SkipSyncSeqnums ==
    /\ At("sync_seqnums")
    /\ pc' = "idle"
    /\ UNCHANGED <<running, cache, offsets, body_len, raw, file, disk, kept>>

SyncSeqnums ==
    /\ At("sync_seqnums")
    /\ disk' = IF Sync THEN [disk EXCEPT !.seqnums = file.seqnums] ELSE disk
    /\ pc' = "idle"
    /\ UNCHANGED <<running, cache, offsets, body_len, raw, file, kept>>

\* reset: set_len(0) on three files, fs::write of the session file (which
\* truncates it and then writes), write_seqnums.  Nothing is flushed.
Truncate(step, name, empty, next) ==
    /\ At(step)
    /\ Put(name, empty)
    /\ pc' = next
    /\ UNCHANGED <<running, cache, offsets, body_len, raw, disk, kept>>

CutBody == Truncate("cut_body", "body", <<>>, "cut_header")
CutHeader == Truncate("cut_header", "header", NoFiles.header, "cut_seqnums")
CutSeqnums == Truncate("cut_seqnums", "seqnums", <<>>, "cut_session")
CutSession == Truncate("cut_session", "session", "empty", "session")
StampSession == Truncate("session", "session", "time", "renumber")

Renumber == Truncate("renumber", "seqnums", <<cache.sender, cache.target>>, "idle")

\* load: fs::write of a missing session file.
CreateSession == Truncate("create_session", "session", "empty", "fill_session")
FillSession == Truncate("fill_session", "session", "time", "idle")

--------------------------------------------------------------------------------
(***************************************************************************)
(* Faults.                                                                 *)
(***************************************************************************)
ResetSteps == {"cut_body", "cut_header", "cut_seqnums", "cut_session", "session", "renumber"}

\* Where the process or the machine may stop.
MayStop == /\ pc \in ResetSteps => "in_reset" \in Faults
           /\ file.session = "empty" => "in_session" \in Faults

\* The process dies; the operating system keeps every completed write.
Crash == /\ running
         /\ "crash" \in Faults
         /\ MayStop
         /\ running' = FALSE
         /\ pc' = "idle"
         /\ raw' = <<>>
         /\ UNCHANGED <<cache, offsets, body_len, file, disk, kept>>

\* The operating system writes a file back when it likes.
WriteBack(name) ==
    /\ "power_loss" \in Faults
    /\ disk[name] # file[name]
    /\ name = "session" /\ file.session = "empty" => "in_session" \in Faults
    /\ disk' = [disk EXCEPT ![name] = file[name]]
    /\ UNCHANGED <<running, cache, offsets, body_len, raw, pc, file, kept>>

\* The machine stops.
PowerLoss ==
    /\ "power_loss" \in Faults
    /\ MayStop
    /\ running' = FALSE
    /\ pc' = "idle"
    /\ file' = disk
    /\ raw' = <<>>
    /\ kept' = Below(kept, NumbersIn(disk).sender)
    /\ UNCHANGED <<cache, offsets, body_len, disk>>

\* The disk fills up in the middle of an append: save_message returns the
\* error with a part of the message, or of the line, written.
BodyFails ==
    /\ "io_error" \in Faults /\ At("body")
    /\ \E k \in 0 .. Len(raw) - 1 : Put("body", file.body \o SubSeq(raw, 1, k))
    /\ pc' = "idle"
    /\ raw' = <<>>
    /\ UNCHANGED <<running, cache, offsets, body_len, disk, kept>>

HeaderFails ==
    /\ "io_error" \in Faults /\ At("header")
    /\ \E cut \in {file.header.cut, TRUE} : Put("header", [file.header EXCEPT !.cut = cut])
    /\ pc' = "idle"
    /\ raw' = <<>>
    /\ UNCHANGED <<running, cache, offsets, body_len, disk, kept>>

Operation ==
    \/ \E m \in Raw : SaveMessageAndIncr(m)
    \/ IncrNextSender \/ IncrNextTarget
    \/ \E which \in {"sender", "target"}, n \in 1..MaxSeq : SetNextNum(which, n)
    \/ Reset
    \/ Refresh

Write ==
    \/ WriteBody \/ WriteHeader \/ SyncMessage
    \/ IncrSender \/ WriteSeqnums \/ SyncSeqnums
    \/ CutBody \/ CutHeader \/ CutSeqnums \/ CutSession \/ StampSession \/ Renumber
    \/ CreateSession \/ FillSession

Fault == Crash \/ PowerLoss \/ (\E name \in Names : WriteBack(name)) \/ BodyFails \/ HeaderFails

Next == Open \/ Operation \/ Write \/ Fault

Spec == Init /\ [][Next]_vars

--------------------------------------------------------------------------------
(***************************************************************************)
(* Properties.                                                             *)
(***************************************************************************)
Steps == {"idle", "body", "header", "sync_message", "incr_sender", "seqnums", "sync_seqnums",
          "create_session", "fill_session"} \cup ResetSteps

\* Every number a session can read is at least 1, the maps are keyed by
\* numbers that were used, and no file holds what load was not written for.
TypeOK ==
    /\ running \in BOOLEAN
    /\ cache \in [sender: SeqNum, target: SeqNum]
    /\ DOMAIN offsets \subseteq 1..MaxSeq
    /\ \A n \in DOMAIN offsets : offsets[n] \in Range
    /\ body_len \in Nat
    /\ \A f \in {file, disk} :
        /\ f.body \in Seq(Byte)
        /\ DOMAIN f.header.lines \subseteq 1..MaxSeq
        /\ \A n \in DOMAIN f.header.lines : f.header.lines[n] \in Range
        /\ f.header.cut \in BOOLEAN
        /\ f.seqnums = <<>> \/ f.seqnums \in SeqNum \X SeqNum
        /\ f.session \in {"missing", "empty", "time"}
    /\ pc \in Steps
    /\ raw \in Seq(Byte)
    /\ DOMAIN kept \subseteq 1..MaxSeq

\* What a restart finds after the worst fault this level of durability is
\* meant to survive (FileStoreFactory::new, with_sync).
Medium == IF Sync THEN disk ELSE file

\* A message the session sent and counted can be resent: while the store is
\* open through its index, and after a crash or a power loss at any moment
\* from what load will find (store.rs, the comment in save_message).
ResendIntact ==
    \A n \in DOMAIN kept :
        /\ n \in DOMAIN Medium.header.lines
        /\ Readable(Medium.body, Medium.header.lines[n])
        /\ Read(Medium.body, Medium.header.lines[n]) = kept[n]
        /\ running => /\ n \in DOMAIN offsets
                      /\ Readable(file.body, offsets[n])
                      /\ Read(file.body, offsets[n]) = kept[n]

\* Once an operation has returned, a restart finds the numbers the session
\* has in memory.
NumbersSurvive == Idle => NumbersIn(Medium) = cache

\* Every message load lists can be read by get_messages.
IndexReadable ==
    Idle => \A n \in DOMAIN offsets : Readable(file.body, offsets[n])

(***************************************************************************)
(* The store a session sees: the cache and the index while the store is    *)
(* open, what load would read while it is not.                             *)
(***************************************************************************)
SeenNumbers == IF running THEN cache ELSE NumbersIn(file)
SeenIndex == IF running THEN offsets ELSE file.header.lines

Trait == INSTANCE MessageStore WITH
    next_sender <- SeenNumbers.sender,
    next_target <- SeenNumbers.target,
    messages    <- [n \in DOMAIN SeenIndex |-> Read(file.body, SeenIndex[n])],
    committed   <- <<NumbersIn(file).sender, NumbersIn(file).target>>

\* The files implement the trait: whatever the crashes between the writes of
\* an operation, a session sees each operation happen whole or not at all.
ImplementsTrait == Trait!Spec
================================================================================
