-------------------------------- MODULE Framing --------------------------------
(***************************************************************************)
(* extract_frame of src/parser.rs and read_task of src/transport.rs: how   *)
(* messages are carved out of a stream that arrives in arbitrary pieces.   *)
(*                                                                         *)
(* A byte is a one-character string, with "|" for SOH; "x" stands for any  *)
(* byte that has no meaning to the framing.  A turn of the loop of         *)
(* extract_frame is two steps.                                             *)
(***************************************************************************)
EXTENDS Integers, Sequences, SequencesExt

CONSTANTS
    Pieces,     \* what the peer may send, each with the bytes and whether
                \* they are a message: [bytes: Seq(Byte), message: BOOLEAN]
    MaxPieces,  \* bound on the pieces of a stream
    Word        \* the values of usize are 0 .. Word - 1 (2^64 in the code)

VARIABLES
    pieces,     \* history: the pieces of the stream
    rest,       \* the bytes that have not arrived yet
    buf,        \* read, and not yet consumed
    frames,     \* the frames sent to the session
    pc          \* "resync" and "scan" in extract_frame, or "read"

vars == <<pieces, rest, buf, frames, pc>>

--------------------------------------------------------------------------------
Digits == <<"0", "1", "2", "3", "4", "5", "6", "7", "8", "9">>
DigitValue(d) == (CHOOSE i \in 1..10 : Digits[i] = d) - 1

None == -1

\* find: the first offset at or after "from" at which the needle occurs.
find(s, from, needle) ==
    LET at(i) == SubSeq(s, i + 1, i + Len(needle)) = needle
        offsets == from .. Len(s) - Len(needle)
    IN  IF \E i \in offsets : at(i)
        THEN CHOOSE i \in offsets : at(i) /\ \A j \in from .. i - 1 : ~at(j)
        ELSE None

\* buf.advance
Advance(s, n) == SubSeq(s, n + 1, Len(s))

\* str::parse::<usize> of the bytes between two offsets; None for an error.
ParseLength(s, from, to) ==
    LET text == SubSeq(s, from + 1, to)
        value == FoldLeft(LAMBDA n, d : 10 * n + DigitValue(d), 0, text)
    IN  IF text # <<>> /\ ToSet(text) \subseteq ToSet(Digits) /\ value < Word
        THEN value ELSE None

\* Mutant: the body is not jumped over.
SearchFromBody(body_start, body_len) == body_start - 1

\* Where the search for the checksum begins; the sum wraps in a release build.
SearchFrom(body_start, body_len) ==
    LET sum == (body_start + body_len) % Word IN IF sum = 0 THEN 0 ELSE sum - 1

Incomplete == [kind |-> "incomplete", end |-> 0]
Garbled == [kind |-> "garbled", end |-> 0]

\* The checksum field: the first one at or after an offset, up to its SOH.
FindEnd(s, from) ==
    LET checksum == find(s, from, <<"|", "1", "0", "=">>)
        soh == find(s, checksum + 4, <<"|">>)
    IN  IF checksum = None \/ soh = None THEN Incomplete
        ELSE [kind |-> "message", end |-> soh + 1]

\* The rest of a turn, for a buffer that begins with "8=": BodyLength must be
\* the second field.  Nothing is found at or beyond the end of the buffer.
Scan(s) ==
    LET soh1 == find(s, 0, <<"|">>)
        len_start == soh1 + 3
        soh2 == find(s, len_start, <<"|">>)
        body_len == ParseLength(s, len_start, soh2)
    IN  IF soh1 = None \/ Len(s) < len_start THEN Incomplete
        ELSE IF SubSeq(s, len_start - 1, len_start) # <<"9", "=">> THEN Garbled
        ELSE IF soh2 = None THEN Incomplete
        ELSE IF body_len = None THEN Garbled
        ELSE FindEnd(s, SearchFrom(soh2 + 1, body_len))

--------------------------------------------------------------------------------
Init == /\ pieces \in BoundedSeq(Pieces, MaxPieces)
        /\ rest = FlattenSeq([i \in DOMAIN pieces |-> pieces[i].bytes])
        /\ buf = <<>>
        /\ frames = <<>>
        /\ pc = "resync"

start == find(buf, 0, <<"8", "=">>)

\* No "8=": all but a trailing '8' goes.
NothingStarts ==
    /\ pc = "resync" /\ start = None
    /\ buf' = IF buf # <<>> /\ Last(buf) = "8" THEN <<"8">> ELSE <<>>
    /\ pc' = "read"
    /\ UNCHANGED <<pieces, rest, frames>>

Resync ==
    /\ pc = "resync" /\ start # None
    /\ buf' = Advance(buf, start)
    /\ pc' = "scan"
    /\ UNCHANGED <<pieces, rest, frames>>

NeedMore ==
    /\ pc = "scan"
    /\ Scan(buf) = Incomplete
    /\ pc' = "read"
    /\ UNCHANGED <<pieces, rest, buf, frames>>

\* Mutant: the garbled beginning is found again.
SkipGarbledNever ==
    /\ pc = "scan"
    /\ Scan(buf) = Garbled
    /\ pc' = "resync"
    /\ UNCHANGED <<pieces, rest, buf, frames>>

SkipGarbled ==
    /\ pc = "scan"
    /\ Scan(buf) = Garbled
    /\ buf' = Advance(buf, 2)
    /\ pc' = "resync"
    /\ UNCHANGED <<pieces, rest, frames>>

\* The frame is sent to the session, and the next one looked for.
Deliver ==
    /\ pc = "scan"
    /\ Scan(buf).kind = "message"
    /\ frames' = Append(frames, SubSeq(buf, 1, Scan(buf).end))
    /\ buf' = Advance(buf, Scan(buf).end)
    /\ pc' = "resync"
    /\ UNCHANGED <<pieces, rest>>

\* read_buf: what has arrived is appended, and extract_frame called again.
Read(n) ==
    /\ pc = "read"
    /\ buf' = buf \o SubSeq(rest, 1, n)
    /\ rest' = Advance(rest, n)
    /\ pc' = "resync"
    /\ UNCHANGED <<pieces, frames>>

Extract == NothingStarts \/ Resync \/ NeedMore \/ SkipGarbled \/ Deliver

Next == Extract \/ \E n \in 1 .. Len(rest) : Read(n)

\* The task runs whenever it can; nothing obliges the peer to send.
Fairness == WF_vars(Extract)
Spec == Init /\ [][Next]_vars /\ Fairness

--------------------------------------------------------------------------------
\* The pieces whose last byte was read.
Complete ==
    LET length(n) == Len(FlattenSeq([i \in 1..n |-> pieces[i].bytes]))
    IN  CHOOSE n \in 0 .. Len(pieces) :
            /\ length(n) <= length(Len(pieces)) - Len(rest)
            /\ n < Len(pieces) => length(n + 1) > length(Len(pieces)) - Len(rest)

\* However the stream is cut into reads, the session gets every message whole,
\* in order and as soon as its last byte was read, and nothing else: a data
\* field that looks like a checksum does not end a message early, and garbage
\* and garbled beginnings do not hide the message after them.
DeliveredWhole ==
    pc = "read" =>
        frames = LET sent == SelectSeq(SubSeq(pieces, 1, Complete), LAMBDA p : p.message)
                 IN  [i \in DOMAIN sent |-> sent[i].bytes]

\* The loop comes to an end on every buffer, however garbled: the task gets
\* back to reading.
Resyncs == (pc # "read") ~> (pc = "read")
================================================================================
