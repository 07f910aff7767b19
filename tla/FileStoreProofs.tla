---------------------------- MODULE FileStoreProofs ----------------------------
(***************************************************************************)
(* What the faults can do to a FileStore, for every set of messages, every *)
(* bound and every choice of operations.  First the crash of the process   *)
(* (IInv): the files stay those of some operation of the trait.  Then      *)
(* every other fault (DInv, NumbersTogether): what was promised stays.     *)
(***************************************************************************)
EXTENDS FileStore, TLAPS

\* The process may die between any two writes, except inside reset and while
\* the session file is empty.
CrashOnly == Faults \subseteq {"crash"}

Lines == file.header.lines
Index == UNION {[D -> Range] : D \in SUBSET SeqNum}
Header == [lines: Index, cut: BOOLEAN]
SeqNums == {<<>>} \cup (SeqNum \X SeqNum)
Files == [body: Seq(Byte), header: Header, seqnums: SeqNums, session: {"missing", "empty", "time"}]
Numbers == [sender: SeqNum, target: SeqNum]

\* The types, as the proofs need them.
Shape ==
    /\ running \in BOOLEAN
    /\ cache \in Numbers
    /\ body_len \in Nat
    /\ file \in Files
    /\ pc \in Steps
    /\ raw \in Seq(Byte)

\* The cached index and length are those of the files, except in reset.
IndexCached ==
    /\ running /\ pc \notin {"cut_body", "cut_header"} => offsets = Lines
    /\ running /\ pc # "cut_body" => body_len = Len(file.body)
    /\ pc \in {"cut_body", "cut_header"} => offsets = EmptyMap
    /\ pc = "cut_body" => body_len = 0

\* A line of the header points into the body, except in reset.
LinesReadable == pc # "cut_header" => \A n \in DOMAIN Lines : Readable(file.body, Lines[n])

\* The message being saved is at the end of the body, then under its number.
InFlight ==
    /\ pc = "header" => /\ Len(raw) <= Len(file.body)
                        /\ Read(file.body, [off |-> Len(file.body) - Len(raw), len |-> Len(raw)]) = raw
    /\ pc \in {"sync_message", "incr_sender"} /\ raw # <<>> =>
          cache.sender \in DOMAIN Lines /\ Read(file.body, Lines[cache.sender]) = raw
    /\ pc = "seqnums" /\ raw # <<>> =>
          /\ cache.sender - 1 \in DOMAIN Lines /\ Read(file.body, Lines[cache.sender - 1]) = raw
    /\ pc \notin {"body", "header", "sync_message", "incr_sender", "seqnums"} => raw = <<>>

\* Only a number that was counted, in the file and in memory, is promised.
KeptCounted ==
    \A n \in DOMAIN kept : n < NumbersIn(file).sender /\ (running => n < cache.sender)

KeptReadable ==
    \A n \in DOMAIN kept : n \in DOMAIN Lines /\ Read(file.body, Lines[n]) = kept[n]

\* Memory and the seqnums file agree, except between the two updates.
NumbersAgree ==
    /\ running /\ pc \notin {"seqnums", "cut_body", "cut_header", "cut_seqnums"} => NumbersIn(file) = cache
    /\ pc \in ResetSteps => cache = [sender |-> 1, target |-> 1] /\ kept = EmptyMap

\* The session file is empty only while it is rewritten.
SessionFile == /\ file.session = "empty" => pc \in {"session", "fill_session"}
               /\ ~running => pc = "idle"

IInv == /\ Shape /\ IndexCached /\ LinesReadable /\ InFlight
        /\ KeptCounted /\ KeptReadable /\ NumbersAgree /\ SessionFile

--------------------------------------------------------------------------------
(***************************************************************************)
(* Reading a range of the body.                                            *)
(***************************************************************************)
\* An append leaves what could be read readable, with the same bytes.
LEMMA ReadAppend ==
  ASSUME NEW B \in Seq(Byte), NEW r \in Seq(Byte), NEW g \in Range, Readable(B, g)
  PROVE  Readable(B \o r, g) /\ Read(B \o r, g) = Read(B, g)
  <1>1. g.off \in Nat /\ g.len \in Nat BY DEF Range
  <1>2. Len(B \o r) = Len(B) + Len(r) /\ Len(B) \in Nat /\ Len(r) \in Nat OBVIOUS
  <1>3. \A i \in 1..g.len : (B \o r)[g.off + i] = B[g.off + i]
    BY <1>1, <1>2 DEF Readable
  <1> QED BY <1>1, <1>2, <1>3 DEF Readable, Read

\* What was appended last is read back from its place.
LEMMA ReadLast ==
  ASSUME NEW B \in Seq(Byte), NEW r \in Seq(Byte)
  PROVE  /\ Len(B \o r) - Len(r) = Len(B) /\ Len(r) <= Len(B \o r)
         /\ Read(B \o r, [off |-> Len(B), len |-> Len(r)]) = r
  <1>1. Len(B \o r) = Len(B) + Len(r) /\ Len(B) \in Nat /\ Len(r) \in Nat OBVIOUS
  <1>2. \A i \in 1..Len(r) : (B \o r)[Len(B) + i] = r[i] BY <1>1
  <1>3. r = [i \in 1..Len(r) |-> r[i]] OBVIOUS
  <1> QED BY <1>1, <1>2, <1>3 DEF Read

\* The header entries are ranges.
LEMMA LineFacts ==
  ASSUME NEW f \in Files
  PROVE  /\ f.body \in Seq(Byte) /\ Len(f.body) \in Nat
         /\ DOMAIN f.header.lines \subseteq SeqNum
         /\ \A n \in DOMAIN f.header.lines : f.header.lines[n] \in Range
         /\ NumbersIn(f) \in Numbers
  <1>1. f.header \in Header
        /\ f.seqnums \in SeqNums /\ f.body \in Seq(Byte)
    BY DEF Files
  <1>2. PICK D \in SUBSET SeqNum : f.header.lines \in [D -> Range] BY <1>1 DEF Header, Index
  <1>3. NumbersIn(f) \in Numbers
    BY <1>1 DEF NumbersIn, Numbers, SeqNum, SeqNums
  <1>4. Len(f.body) \in Nat BY <1>1
  <1>5. DOMAIN f.header.lines = D /\ \A n \in D : f.header.lines[n] \in Range BY <1>2
  <1> QED BY <1>1, <1>3, <1>4, <1>5

\* What a write of one file does to the others.
LEMMA PutBody ==
  ASSUME file \in Files, NEW b \in Seq(Byte), Put("body", b)
  PROVE  /\ file' \in Files /\ file'.body = b /\ file'.header = file.header
         /\ file'.seqnums = file.seqnums /\ file'.session = file.session
  BY DEF Files, Put

LEMMA PutHeader ==
  ASSUME file \in Files, NEW h \in Header, Put("header", h)
  PROVE  /\ file' \in Files /\ file'.body = file.body /\ file'.header = h
         /\ file'.seqnums = file.seqnums /\ file'.session = file.session
  BY DEF Files, Put

LEMMA PutSeqnums ==
  ASSUME file \in Files, NEW q \in SeqNums, Put("seqnums", q)
  PROVE  /\ file' \in Files /\ file'.body = file.body /\ file'.header = file.header
         /\ file'.seqnums = q /\ file'.session = file.session
  BY DEF Files, Put

LEMMA PutSession ==
  ASSUME file \in Files, NEW t \in {"missing", "empty", "time"}, Put("session", t)
  PROVE  /\ file' \in Files /\ file'.body = file.body /\ file'.header = file.header
         /\ file'.seqnums = file.seqnums /\ file'.session = t
  BY DEF Files, Put

\* The header of an empty store.
Empty == [lines |-> EmptyMap, cut |-> FALSE]
LEMMA EmptyHeader ==
    /\ Empty \in Header
    /\ DOMAIN EmptyMap = {} /\ Empty.lines = EmptyMap
  <1>1. EmptyMap \in [{} -> Range] /\ {} \in SUBSET SeqNum /\ DOMAIN EmptyMap = {} BY DEF EmptyMap
  <1>2. FALSE \in BOOLEAN OBVIOUS
  <1>3. EmptyMap \in Index BY <1>1 DEF Index
  <1> HIDE DEF EmptyMap
  <1> QED BY <1>1, <1>2, <1>3 DEF Empty, Header

\* The initial state.
LEMMA InitInv == Init => IInv
  <1> SUFFICES ASSUME Init PROVE IInv OBVIOUS
  <1>0. NoFiles = [body |-> <<>>, header |-> Empty, seqnums |-> <<>>, session |-> "missing"]
    BY Zenon DEF NoFiles, Empty
  <1>1. NoFiles.header = Empty /\ NoFiles.body = <<>> /\ NoFiles.seqnums = <<>>
        /\ NoFiles.session = "missing"
    BY <1>0
  <1>2. <<>> \in Seq(Byte) OBVIOUS
  <1>3. NoFiles \in Files BY <1>0, <1>2, EmptyHeader DEF Files, SeqNums
  <1>6. running \in BOOLEAN BY Zenon DEF Init
  <1>4. Shape
    BY <1>2, <1>3, <1>6 DEF Init, Shape, Numbers, SeqNum, Steps
  <1>5. Lines = EmptyMap BY <1>1, EmptyHeader DEF Lines, Init
  <1> QED
    BY <1>1, <1>4, <1>5, EmptyHeader DEF Init, IInv, IndexCached, LinesReadable, InFlight,
       KeptCounted, KeptReadable, NumbersAgree, SessionFile, ResetSteps

--------------------------------------------------------------------------------
(***************************************************************************)
(* The steps that leave the files as they are.                             *)
(***************************************************************************)
\* Opening and refreshing.
LEMMA LoadInv == ASSUME IInv, Open \/ Refresh PROVE IInv'
  <1>1. Shape'
    BY LineFacts DEF IInv, Shape, Open, Refresh, Load, Steps
  <1>2. Lines' = Lines /\ file' = file /\ kept' = kept /\ running' = TRUE /\ raw' = raw
        /\ offsets' = Lines /\ body_len' = Len(file.body) /\ cache' = NumbersIn(file)
        /\ pc = "idle" /\ pc' \in {"create_session", "idle"} /\ file.session # "empty"
    BY DEF IInv, Shape, SessionFile, Open, Refresh, Load, Lines, Loadable
  <1> QED
    BY <1>1, <1>2 DEF IInv, IndexCached, LinesReadable, InFlight,
       KeptCounted, KeptReadable, NumbersAgree, SessionFile, ResetSteps

\* Starting an operation.
LEMMA OperationInv ==
  ASSUME IInv,
         \/ \E m \in Raw : SaveMessageAndIncr(m)
         \/ IncrNextSender \/ IncrNextTarget
         \/ \E which \in {"sender", "target"}, n \in 1..MaxSeq : SetNextNum(which, n)
         \/ Reset
  PROVE  IInv'
  <1> USE DEF Idle
  <1>1. CASE \E m \in Raw : SaveMessageAndIncr(m)
    <2>1. Shape' BY <1>1, StoreAssumption DEF IInv, Shape, SaveMessageAndIncr, Steps
    <2> QED BY <1>1, <2>1 DEF SaveMessageAndIncr, IInv, IndexCached, LinesReadable, InFlight,
       KeptCounted, KeptReadable, NumbersAgree, SessionFile, ResetSteps, Lines
  <1>2. CASE IncrNextSender
    <2>1. Shape' BY <1>2 DEF IInv, Shape, IncrNextSender, Steps
    <2> QED BY <1>2, <2>1 DEF IncrNextSender, IInv, IndexCached, LinesReadable, InFlight,
       KeptCounted, KeptReadable, NumbersAgree, SessionFile, ResetSteps, Lines
  <1>3. CASE IncrNextTarget
    <2>1. Shape' BY <1>3 DEF IInv, Shape, IncrNextTarget, Steps, Numbers, SeqNum
    <2>2. cache'.sender = cache.sender BY <1>3 DEF IInv, Shape, IncrNextTarget, Numbers
    <2> QED BY <1>3, <2>1, <2>2 DEF IncrNextTarget, IInv, IndexCached, LinesReadable, InFlight,
       KeptCounted, KeptReadable, NumbersAgree, SessionFile, ResetSteps, Lines
  <1>4. ASSUME NEW which \in {"sender", "target"}, NEW n \in 1..MaxSeq, SetNextNum(which, n)
        PROVE  IInv'
    <2>1. n \in SeqNum BY StoreAssumption DEF SeqNum
    <2>2. Shape' BY <1>4, <2>1 DEF IInv, Shape, SetNextNum, Steps, Numbers
    <2>3. which = "sender" => cache'.sender = n /\ kept' = Below(kept, n)
      BY <1>4 DEF IInv, Shape, SetNextNum, Numbers
    <2>4. which = "target" => cache'.sender = cache.sender /\ kept' = kept
      BY <1>4 DEF IInv, Shape, SetNextNum, Numbers
    <2>5. \A k \in DOMAIN kept' : k \in DOMAIN kept /\ kept'[k] = kept[k]
                                  /\ (which = "sender" => k < n)
      BY <2>3, <2>4, <1>4, StoreAssumption DEF Below
    <2> QED BY <1>4, <2>1, <2>2, <2>3, <2>4, <2>5 DEF SetNextNum, IInv, IndexCached, LinesReadable,
       InFlight, KeptCounted, KeptReadable, NumbersAgree, SessionFile, ResetSteps, Lines
  <1>5. CASE Reset
    <2>1. Shape' BY <1>5 DEF IInv, Shape, Reset, Steps, ResetSteps, Numbers, SeqNum
    <2> QED BY <1>5, <2>1, EmptyHeader DEF Reset, IInv, IndexCached, LinesReadable, InFlight,
       KeptCounted, KeptReadable, NumbersAgree, SessionFile, ResetSteps, Lines
  <1> QED BY <1>1, <1>2, <1>3, <1>4, <1>5

\* Flushing, counting in memory, and dying.
LEMMA QuietInv ==
  ASSUME IInv, CrashOnly, SyncMessage \/ IncrSender \/ SyncSeqnums \/ Crash
  PROVE  IInv'
  <1> USE DEF At
  <1>1. CASE SyncMessage
    <2>1. Shape' BY <1>1 DEF IInv, Shape, SyncMessage, Steps
    <2> QED BY <1>1, <2>1 DEF SyncMessage, IInv, IndexCached, LinesReadable, InFlight,
       KeptCounted, KeptReadable, NumbersAgree, SessionFile, ResetSteps, Lines
  <1>2. CASE IncrSender
    <2>1. Shape' BY <1>2 DEF IInv, Shape, IncrSender, Steps, Numbers, SeqNum
    <2>2. cache'.sender = cache.sender + 1 /\ cache'.sender - 1 = cache.sender
          /\ cache.sender \in Nat
      BY <1>2 DEF IInv, Shape, IncrSender, Numbers, SeqNum
    <2>4. \A n \in DOMAIN kept : n \in Nat /\ n < cache.sender
      BY <1>2, LineFacts DEF IInv, KeptCounted, KeptReadable, IncrSender, Lines, SeqNum, Shape
    <2>3. \A n \in DOMAIN kept : n < cache'.sender
      BY <2>2, <2>4
    <2> QED BY <1>2, <2>1, <2>2, <2>3 DEF IncrSender, IInv, IndexCached, LinesReadable, InFlight,
       KeptCounted, KeptReadable, NumbersAgree, SessionFile, ResetSteps, Lines
  <1>3. CASE SyncSeqnums
    <2>1. Shape' BY <1>3 DEF IInv, Shape, SyncSeqnums, Steps
    <2> QED BY <1>3, <2>1 DEF SyncSeqnums, IInv, IndexCached, LinesReadable, InFlight,
       KeptCounted, KeptReadable, NumbersAgree, SessionFile, ResetSteps, Lines
  <1>4. CASE Crash
    <2>1. pc \notin ResetSteps /\ file.session # "empty"
      BY <1>4 DEF Crash, MayStop, CrashOnly
    <2>3. running' \in BOOLEAN BY <1>4, Zenon DEF Crash
    <2>4. <<>> \in Seq(Byte) OBVIOUS
    <2>2. Shape' BY <1>4, <2>3, <2>4 DEF IInv, Shape, Crash, Steps
    <2> QED BY <1>4, <2>1, <2>2 DEF Crash, IInv, IndexCached, LinesReadable, InFlight,
       KeptCounted, KeptReadable, NumbersAgree, SessionFile, ResetSteps, Lines
  <1> QED BY <1>1, <1>2, <1>3, <1>4

--------------------------------------------------------------------------------
(***************************************************************************)
(* The steps that write a file.                                            *)
(***************************************************************************)
\* A typed record of the message being saved.
LEMMA LineTyped ==
  ASSUME IInv, At("header")
  PROVE  /\ Line \in Range /\ Line = [off |-> Len(file.body) - Len(raw), len |-> Len(raw)]
         /\ Readable(file.body, Line) /\ Read(file.body, Line) = raw
  <1>1. body_len = Len(file.body) /\ Len(raw) \in Nat /\ Len(file.body) \in Nat
        /\ Len(raw) <= Len(file.body)
    BY LineFacts DEF IInv, IndexCached, InFlight, At, Shape
  <1> QED BY <1>1 DEF Line, Range, Readable, IInv, InFlight, At

LEMMA WriteBodyInv == ASSUME IInv, WriteBody PROVE IInv'
  <1> DEFINE B == file.body
             b == file.body \o raw
  <1>1. B \in Seq(Byte) /\ raw \in Seq(Byte) /\ b \in Seq(Byte) /\ file \in Files
    BY LineFacts DEF IInv, Shape
  <1>2. file' \in Files /\ file'.body = b /\ file'.header = file.header
        /\ file'.seqnums = file.seqnums /\ file'.session = file.session
    BY <1>1, PutBody DEF WriteBody
  <1>3. Lines' = Lines /\ NumbersIn(file') = NumbersIn(file) BY <1>2 DEF Lines, NumbersIn
  <1>4. body_len' = Len(b) /\ body_len' \in Nat
    BY <1>1 DEF IInv, IndexCached, WriteBody, At
  <1>5. Len(raw) <= Len(b) /\ Read(b, [off |-> Len(b) - Len(raw), len |-> Len(raw)]) = raw
    BY <1>1, ReadLast
  <1>6. \A n \in DOMAIN Lines : Readable(b, Lines[n]) /\ Read(b, Lines[n]) = Read(B, Lines[n])
    BY <1>1, ReadAppend, LineFacts DEF Lines, IInv, LinesReadable, WriteBody, At
  <1>7. Shape' BY <1>2, <1>4 DEF IInv, Shape, WriteBody, Steps
  <1> HIDE DEF b, B
  <1>8. IndexCached' /\ LinesReadable' /\ InFlight'
    BY <1>2, <1>3, <1>4, <1>5, <1>6 DEF IInv, IndexCached, LinesReadable, InFlight, WriteBody, At
  <1>9. KeptCounted' /\ KeptReadable'
    BY <1>2, <1>3, <1>6 DEF IInv, KeptCounted, KeptReadable, WriteBody, At, B
  <1> QED
    BY <1>2, <1>3, <1>7, <1>8, <1>9 DEF IInv, NumbersAgree, SessionFile, WriteBody, At, ResetSteps

\* One more line keeps the index an index.
LEMMA InsertFacts ==
  ASSUME NEW map \in Index, NEW n \in SeqNum, NEW g \in Range
  PROVE  /\ Insert(map, n, g) \in Index
         /\ DOMAIN Insert(map, n, g) = DOMAIN map \cup {n}
         /\ Insert(map, n, g)[n] = g
         /\ \A k \in DOMAIN map : k # n => Insert(map, n, g)[k] = map[k]
  <1>1. PICK D \in SUBSET SeqNum : map \in [D -> Range] BY DEF Index
  <1>2. Insert(map, n, g) \in [D \cup {n} -> Range] BY <1>1 DEF Insert
  <1>3. D \cup {n} \in SUBSET SeqNum OBVIOUS
  <1> QED BY <1>1, <1>2, <1>3 DEF Insert, Index

LEMMA WriteHeaderInv == ASSUME IInv, WriteHeader PROVE IInv'
  <1> DEFINE L == Insert(Lines, cache.sender, Line)
             h == [file.header EXCEPT !.lines = L]
  <1>1. file \in Files /\ cache.sender \in SeqNum /\ At("header")
    BY DEF IInv, Shape, WriteHeader, Numbers
  <1>2. Lines \in Index /\ file.header.cut \in BOOLEAN
        /\ file.header \in Header
    BY <1>1 DEF Files, Lines, Header
  <1>15. Line \in Range BY <1>1, LineTyped
  <1>3. /\ L \in Index
        /\ DOMAIN L = DOMAIN Lines \cup {cache.sender} /\ L[cache.sender] = Line
        /\ \A k \in DOMAIN Lines : k # cache.sender => L[k] = Lines[k]
    <2> DEFINE s == cache.sender
               M == Lines
               G == Line
    <2>1. M \in Index /\ s \in SeqNum /\ G \in Range BY <1>1, <1>2, <1>15
    <2> HIDE DEF s, M, G
    <2>2. /\ Insert(M, s, G) \in Index
          /\ DOMAIN Insert(M, s, G) = DOMAIN M \cup {s} /\ Insert(M, s, G)[s] = G
          /\ \A k \in DOMAIN M : k # s => Insert(M, s, G)[k] = M[k]
      BY <2>1, InsertFacts
    <2> QED BY <2>2 DEF s, M, G
  <1>0. offsets = Lines BY <1>1 DEF IInv, IndexCached, At
  <1>4. Put("header", h) /\ offsets' = Insert(offsets, cache.sender, Line)
    BY Zenon DEF WriteHeader, Lines
  <1> HIDE DEF L
  <1>5. h \in Header /\ h.lines = L
    BY <1>2, <1>3 DEF Header
  <1> HIDE DEF h
  <1>7. file' \in Files /\ file'.body = file.body /\ file'.header = h
        /\ file'.seqnums = file.seqnums /\ file'.session = file.session
    BY <1>1, <1>4, <1>5, PutHeader
  <1>8. Lines' = L /\ NumbersIn(file') = NumbersIn(file) BY <1>5, <1>7 DEF Lines, NumbersIn
  <1>9. Shape' BY <1>7 DEF IInv, Shape, WriteHeader, Steps
  <1>10. Readable(file.body, Line) /\ Read(file.body, Line) = raw BY <1>1, LineTyped
  <1>11. offsets' = L BY <1>0, <1>4 DEF L
  <1>12. IndexCached' /\ LinesReadable' /\ InFlight'
    BY <1>3, <1>7, <1>8, <1>10, <1>11
    DEF IInv, IndexCached, LinesReadable, InFlight, WriteHeader, At
  <1>13. cache.sender \notin DOMAIN kept
    BY <1>1 DEF IInv, KeptCounted, At, SeqNum
  <1>14. KeptCounted' /\ KeptReadable'
    BY <1>3, <1>7, <1>8, <1>13 DEF IInv, KeptCounted, KeptReadable, WriteHeader, At
  <1> QED
    BY <1>7, <1>8, <1>9, <1>12, <1>14 DEF IInv, NumbersAgree, SessionFile, WriteHeader, At, ResetSteps

LEMMA WriteSeqnumsInv == ASSUME IInv, WriteSeqnums PROVE IInv'
  <1> DEFINE q == <<cache.sender, cache.target>>
  <1>1. file \in Files /\ cache \in Numbers /\ cache.sender \in SeqNum /\ q \in SeqNums
        /\ <<>> \in Seq(Byte) /\ running /\ pc = "seqnums"
    BY DEF IInv, Shape, Numbers, WriteSeqnums, At, SeqNums
  <1>2. file' \in Files /\ file'.body = file.body /\ file'.header = file.header
        /\ file'.seqnums = q /\ file'.session = file.session
    BY <1>1, PutSeqnums DEF WriteSeqnums
  <1>3. Lines' = Lines BY <1>2 DEF Lines
  <1>4. NumbersIn(file') = cache BY <1>1, <1>2 DEF NumbersIn, Numbers
  <1>5. Shape' BY <1>1, <1>2 DEF IInv, Shape, WriteSeqnums, Steps
  <1>6. \A n \in DOMAIN kept : n < cache.sender BY <1>1 DEF IInv, KeptCounted
  <1>7. \A n \in DOMAIN kept' : /\ n < cache.sender
                                /\ n \in DOMAIN Lines /\ Read(file.body, Lines[n]) = kept'[n]
    <2>1. CASE raw = <<>>
      BY <2>1, <1>6 DEF WriteSeqnums, IInv, KeptReadable
    <2>2. CASE raw # <<>>
      <3>1. cache.sender - 1 \in DOMAIN Lines /\ Read(file.body, Lines[cache.sender - 1]) = raw
        BY <1>1, <2>2 DEF IInv, InFlight
      <3>2. kept' = Insert(kept, cache.sender - 1, raw) BY <2>2 DEF WriteSeqnums
      <3>3. DOMAIN kept' = DOMAIN kept \cup {cache.sender - 1} /\ kept'[cache.sender - 1] = raw
            /\ \A n \in DOMAIN kept : n # cache.sender - 1 => kept'[n] = kept[n]
        BY <3>2 DEF Insert
      <3>4. cache.sender - 1 < cache.sender BY <1>1 DEF SeqNum
      <3> QED BY <3>1, <3>3, <3>4, <1>6 DEF IInv, KeptReadable
    <2> QED BY <2>1, <2>2
  <1>8. KeptCounted' /\ KeptReadable'
    BY <1>2, <1>3, <1>4, <1>7 DEF KeptCounted, KeptReadable, WriteSeqnums
  <1>9. running' /\ pc' = "sync_seqnums" /\ raw' = <<>> /\ offsets' = offsets /\ body_len' = body_len
        /\ cache' = cache
    BY <1>1 DEF WriteSeqnums
  <1>10. IndexCached' /\ LinesReadable' /\ InFlight'
    BY <1>1, <1>2, <1>3, <1>9 DEF IInv, IndexCached, LinesReadable, InFlight
  <1> QED
    BY <1>1, <1>2, <1>4, <1>5, <1>8, <1>9, <1>10 DEF IInv, NumbersAgree, SessionFile, ResetSteps

\* reset, and the creation of the session file.
LEMMA TruncateInv ==
  ASSUME IInv,
         CutBody \/ CutHeader \/ CutSeqnums \/ CutSession \/ StampSession \/ Renumber
            \/ CreateSession \/ FillSession
  PROVE  IInv'
  <1> DEFINE q == <<cache.sender, cache.target>>
  <1>0. file \in Files /\ <<>> \in Seq(Byte) /\ q \in SeqNums /\ <<>> \in SeqNums
        /\ cache \in Numbers
    BY DEF IInv, Shape, Numbers, SeqNums
  <1> USE DEF Truncate, At
  <1>1. CASE CutBody
    <2>1. file' \in Files /\ file'.body = <<>> /\ file'.header = file.header
          /\ file'.seqnums = file.seqnums /\ file'.session = file.session
      BY <1>0, <1>1, PutBody DEF CutBody
    <2>2. Lines' = Lines /\ Len(file'.body) = 0 /\ NumbersIn(file') = NumbersIn(file)
      BY <2>1 DEF Lines, NumbersIn
    <2>3. Shape' BY <1>1, <2>1 DEF IInv, Shape, CutBody, Steps, ResetSteps
    <2> QED BY <1>1, <2>1, <2>2, <2>3, EmptyHeader DEF CutBody, IInv, IndexCached, LinesReadable,
          InFlight, KeptCounted, KeptReadable, NumbersAgree, SessionFile, ResetSteps
  <1>2. CASE CutHeader
    <2>1. file' \in Files /\ file'.body = file.body /\ file'.header = NoFiles.header
          /\ file'.seqnums = file.seqnums /\ file'.session = file.session
      BY <1>0, <1>2, PutHeader, EmptyHeader DEF CutHeader, NoFiles, Empty
    <2>2. Lines' = EmptyMap /\ NumbersIn(file') = NumbersIn(file)
      BY <2>1 DEF Lines, NumbersIn, NoFiles
    <2>3. Shape' BY <1>2, <2>1 DEF IInv, Shape, CutHeader, Steps, ResetSteps
    <2> QED BY <1>2, <2>1, <2>2, <2>3, EmptyHeader DEF CutHeader, IInv, IndexCached, LinesReadable,
          InFlight, KeptCounted, KeptReadable, NumbersAgree, SessionFile, ResetSteps
  <1>3. CASE CutSeqnums
    <2>1. file' \in Files /\ file'.body = file.body /\ file'.header = file.header
          /\ file'.seqnums = <<>> /\ file'.session = file.session
      BY <1>0, <1>3, PutSeqnums DEF CutSeqnums
    <2>2. Lines' = Lines /\ NumbersIn(file') = [sender |-> 1, target |-> 1]
      BY <2>1 DEF Lines, NumbersIn
    <2>3. Shape' BY <1>3, <2>1 DEF IInv, Shape, CutSeqnums, Steps, ResetSteps
    <2> QED BY <1>3, <2>1, <2>2, <2>3, EmptyHeader DEF CutSeqnums, IInv, IndexCached, LinesReadable,
          InFlight, KeptCounted, KeptReadable, NumbersAgree, SessionFile, ResetSteps
  <1>4. CASE Renumber
    <2>1. file' \in Files /\ file'.body = file.body /\ file'.header = file.header
          /\ file'.seqnums = q /\ file'.session = file.session
      BY <1>0, <1>4, PutSeqnums DEF Renumber
    <2>2. Lines' = Lines /\ NumbersIn(file') = cache
      BY <1>0, <2>1 DEF Lines, NumbersIn, Numbers
    <2>3. Shape' BY <1>4, <2>1 DEF IInv, Shape, Renumber, Steps, ResetSteps
    <2> QED BY <1>4, <2>1, <2>2, <2>3, EmptyHeader DEF Renumber, IInv, IndexCached, LinesReadable,
          InFlight, KeptCounted, KeptReadable, NumbersAgree, SessionFile, ResetSteps
  <1>5. CASE CutSession \/ StampSession \/ CreateSession \/ FillSession
    <2>1. PICK t \in {"empty", "time"} : Put("session", t) /\ (t = "empty" => pc' \in {"session", "fill_session"})
      BY <1>5 DEF CutSession, StampSession, CreateSession, FillSession
    <2>2. file' \in Files /\ file'.body = file.body /\ file'.header = file.header
          /\ file'.seqnums = file.seqnums /\ file'.session = t
      BY <1>0, <2>1, PutSession
    <2>3. Lines' = Lines /\ NumbersIn(file') = NumbersIn(file)
      BY <2>2 DEF Lines, NumbersIn
    <2>4. Shape'
      BY <1>5, <2>2 DEF IInv, Shape, CutSession, StampSession, CreateSession, FillSession, Steps,
         ResetSteps
    <2>5. /\ running /\ UNCHANGED <<running, cache, offsets, body_len, raw, kept>>
          /\ pc \in {"cut_session", "session", "create_session", "fill_session"}
          /\ pc' \in {"session", "renumber", "fill_session", "idle"}
          /\ pc' \in ResetSteps => pc \in ResetSteps
      BY <1>5 DEF CutSession, StampSession, CreateSession, FillSession, ResetSteps
    <2> QED BY <2>1, <2>2, <2>3, <2>4, <2>5 DEF IInv, IndexCached, LinesReadable,
          InFlight, KeptCounted, KeptReadable, NumbersAgree, SessionFile, ResetSteps
  <1> QED BY <1>1, <1>2, <1>3, <1>4, <1>5

--------------------------------------------------------------------------------
\* The invariant holds after every step.
LEMMA StepInv == ASSUME CrashOnly, IInv, [Next]_vars PROVE IInv'
  <1>1. CASE Open \/ Refresh BY <1>1, LoadInv
  <1>2. CASE \/ \E m \in Raw : SaveMessageAndIncr(m)
             \/ IncrNextSender \/ IncrNextTarget
             \/ \E which \in {"sender", "target"}, n \in 1..MaxSeq : SetNextNum(which, n)
             \/ Reset
    BY <1>2, OperationInv
  <1>3. CASE Write
    BY <1>3, QuietInv, WriteBodyInv, WriteHeaderInv, WriteSeqnumsInv, TruncateInv DEF Write
  <1>4. CASE Fault
    <2>1. Crash
      BY <1>4 DEF Fault, CrashOnly, PowerLoss, WriteBack, BodyFails, HeaderFails
    <2> QED BY <2>1, QuietInv
  <1>5. CASE UNCHANGED vars
    BY <1>5 DEF vars, IInv, Shape, IndexCached, LinesReadable, InFlight,
       KeptCounted, KeptReadable, NumbersAgree, SessionFile, Lines, Read, Readable, NumbersIn
  <1> QED BY <1>1, <1>2, <1>3, <1>4, <1>5 DEF Next, Operation

\* The invariant holds in every reachable state of a store whose process may
\* crash.
LEMMA Invariant == ASSUME CrashOnly PROVE Spec => []IInv
  BY InitInv, StepInv, PTL DEF Spec

\* A message load lists can be read.
THEOREM CrashKeepsIndex ==
  ASSUME CrashOnly
  PROVE  Spec => []IndexReadable
  <1>1. IInv => IndexReadable
    BY DEF IInv, IndexReadable, LinesReadable, IndexCached, Idle
  <1> QED BY <1>1, Invariant, PTL

--------------------------------------------------------------------------------
(***************************************************************************)
(* Durability, under every fault but a failing append: the process or the  *)
(* machine may stop anywhere, in reset and in the middle of the session    *)
(* file too, and any file may have reached the disk before the others.     *)
(* The lines of the index are not all readable then, only those of the     *)
(* counted messages.                                                       *)
(***************************************************************************)
\* Each store survives the faults it is meant for (FileStoreFactory::with_sync).
Survivable == "io_error" \notin Faults /\ ("power_loss" \in Faults => Sync)

Holds(f, n, m) ==
    /\ n \in DOMAIN f.header.lines
    /\ Readable(f.body, f.header.lines[n])
    /\ Read(f.body, f.header.lines[n]) = m

\* A message that neither fault can take: with FileStoreSync it is on the disk
\* too, and under the same line, so that body and header may be written back
\* in either order.
Stored(f, d, n, m) ==
    /\ Holds(f, n, m)
    /\ Sync => Holds(d, n, m) /\ d.header.lines[n] = f.header.lines[n]

\* How far the message being saved has come.
Saving ==
    /\ pc = "header" => /\ Len(raw) <= Len(file.body)
                        /\ Read(file.body, [off |-> Len(file.body) - Len(raw), len |-> Len(raw)]) = raw
    /\ pc = "sync_message" => Holds(file, cache.sender, raw)
    /\ pc = "incr_sender" /\ raw # <<>> => Stored(file, disk, cache.sender, raw)
    /\ pc = "seqnums" /\ raw # <<>> => Stored(file, disk, cache.sender - 1, raw)
    /\ pc \notin {"body", "header", "sync_message", "incr_sender", "seqnums"} => raw = <<>>

KeptStored == \A n \in DOMAIN kept : Stored(file, disk, n, kept[n])

\* Nothing is promised during reset, and no operation outlives its process.
Between == /\ pc \in ResetSteps => kept = EmptyMap
           /\ ~running => pc = "idle"

DInv == /\ Shape /\ disk \in Files /\ IndexCached /\ Saving
        /\ KeptCounted /\ KeptStored /\ Between

\* Stored depends on body and header only.
LEMMA StoredSame ==
  ASSUME NEW f, NEW d, NEW g, NEW e, NEW n, NEW m, Stored(f, d, n, m),
         g.body = f.body, g.header = f.header, e.body = d.body, e.header = d.header
  PROVE  Stored(g, e, n, m)
  BY DEF Stored, Holds

\* An append to the body.
LEMMA StoredAppend ==
  ASSUME NEW f \in Files, NEW d, NEW g, NEW n, NEW m, NEW r \in Seq(Byte),
         Stored(f, d, n, m), g.body = f.body \o r, g.header = f.header
  PROVE  Stored(g, d, n, m)
  <1>1. f.body \in Seq(Byte) /\ f.header.lines[n] \in Range /\ Readable(f.body, f.header.lines[n])
    BY LineFacts DEF Stored, Holds
  <1>2. Readable(g.body, f.header.lines[n])
        /\ Read(g.body, f.header.lines[n]) = Read(f.body, f.header.lines[n])
    <2> DEFINE B == f.body
               l == f.header.lines[n]
    <2> HIDE DEF B, l
    <2>1. Readable(B \o r, l) /\ Read(B \o r, l) = Read(B, l) BY <1>1, ReadAppend DEF B, l
    <2> QED BY <2>1 DEF B, l
  <1> QED BY <1>2 DEF Stored, Holds

\* A line for another number.
LEMMA StoredInsert ==
  ASSUME NEW f, NEW d, NEW g, NEW n, NEW m, Stored(f, d, n, m),
         g.body = f.body, DOMAIN f.header.lines \subseteq DOMAIN g.header.lines,
         g.header.lines[n] = f.header.lines[n]
  PROVE  Stored(g, d, n, m)
  BY DEF Stored, Holds

\* A file that reaches the disk, alone or with others, leaves a stored message
\* stored.
LEMMA StoredFlush ==
  ASSUME NEW f, NEW d, NEW e, NEW n, NEW m, Stored(f, d, n, m),
         e.body \in {f.body, d.body}, e.header \in {f.header, d.header}
  PROVE  Stored(f, e, n, m)
  BY DEF Stored, Holds

\* What is stored is found after a power loss.
LEMMA StoredLost ==
  ASSUME NEW f, NEW d, NEW n, NEW m, Stored(f, d, n, m), Sync
  PROVE  Stored(d, d, n, m)
  BY DEF Stored, Holds

\* One file of the disk is written.
LEMMA FlushOne ==
  ASSUME disk \in Files, file \in Files, NEW name \in Names,
         disk' = [disk EXCEPT ![name] = file[name]]
  PROVE  /\ disk' \in Files
         /\ disk'.body \in {file.body, disk.body} /\ disk'.header \in {file.header, disk.header}
         /\ disk'.seqnums \in {file.seqnums, disk.seqnums}
         /\ name # "seqnums" => disk'.seqnums = disk.seqnums
  BY DEF Files, Names

LEMMA InitDurable == Init => DInv
  <1> SUFFICES ASSUME Init PROVE DInv OBVIOUS
  <1>1. Shape /\ IndexCached /\ KeptCounted BY InitInv DEF IInv
  <1>2. disk \in Files BY <1>1 DEF Init, Shape
  <1>3. KeptStored BY EmptyHeader DEF Init, KeptStored
  <1> QED BY <1>1, <1>2, <1>3 DEF DInv, Init, Saving, Between, ResetSteps

LEMMA LoadDurable == ASSUME DInv, Open \/ Refresh PROVE DInv'
  <1>1. Shape'
    BY LineFacts DEF DInv, Shape, Open, Refresh, Load, Steps
  <1>2. Lines' = Lines /\ file' = file /\ disk' = disk /\ kept' = kept /\ running' = TRUE /\ raw' = raw
        /\ offsets' = Lines /\ body_len' = Len(file.body) /\ cache' = NumbersIn(file)
        /\ pc = "idle" /\ pc' \in {"create_session", "idle"}
    BY DEF DInv, Between, Open, Refresh, Load, Lines
  <1> QED
    BY <1>1, <1>2 DEF DInv, IndexCached, Saving, KeptCounted, KeptStored, Between, ResetSteps

LEMMA OperationDurable ==
  ASSUME DInv,
         \/ \E m \in Raw : SaveMessageAndIncr(m)
         \/ IncrNextSender \/ IncrNextTarget
         \/ \E which \in {"sender", "target"}, n \in 1..MaxSeq : SetNextNum(which, n)
         \/ Reset
  PROVE  DInv'
  <1> USE DEF Idle
  <1>1. CASE \E m \in Raw : SaveMessageAndIncr(m)
    <2>1. Shape' BY <1>1, StoreAssumption DEF DInv, Shape, SaveMessageAndIncr, Steps
    <2> QED BY <1>1, <2>1 DEF SaveMessageAndIncr, DInv, IndexCached, Saving,
       KeptCounted, KeptStored, Between, ResetSteps, Lines
  <1>2. CASE IncrNextSender
    <2>1. Shape' BY <1>2 DEF DInv, Shape, IncrNextSender, Steps
    <2> QED BY <1>2, <2>1 DEF IncrNextSender, DInv, IndexCached, Saving,
       KeptCounted, KeptStored, Between, ResetSteps, Lines
  <1>3. CASE IncrNextTarget
    <2>1. Shape' BY <1>3 DEF DInv, Shape, IncrNextTarget, Steps, Numbers, SeqNum
    <2>2. cache'.sender = cache.sender BY <1>3 DEF DInv, Shape, IncrNextTarget, Numbers
    <2> QED BY <1>3, <2>1, <2>2 DEF IncrNextTarget, DInv, IndexCached, Saving,
       KeptCounted, KeptStored, Between, ResetSteps, Lines
  <1>4. ASSUME NEW which \in {"sender", "target"}, NEW n \in 1..MaxSeq, SetNextNum(which, n)
        PROVE  DInv'
    <2>1. n \in SeqNum BY StoreAssumption DEF SeqNum
    <2>2. Shape' BY <1>4, <2>1 DEF DInv, Shape, SetNextNum, Steps, Numbers
    <2>3. which = "sender" => cache'.sender = n /\ kept' = Below(kept, n)
      BY <1>4 DEF DInv, Shape, SetNextNum, Numbers
    <2>4. which = "target" => cache'.sender = cache.sender /\ kept' = kept
      BY <1>4 DEF DInv, Shape, SetNextNum, Numbers
    <2>5. \A k \in DOMAIN kept' : k \in DOMAIN kept /\ kept'[k] = kept[k]
                                  /\ (which = "sender" => k < n)
      BY <2>3, <2>4, <1>4, StoreAssumption DEF Below
    <2> QED BY <1>4, <2>1, <2>2, <2>3, <2>4, <2>5 DEF SetNextNum, DInv, IndexCached, Saving,
       KeptCounted, KeptStored, Between, ResetSteps, Lines
  <1>5. CASE Reset
    <2>1. Shape' BY <1>5 DEF DInv, Shape, Reset, Steps, ResetSteps, Numbers, SeqNum
    <2> QED BY <1>5, <2>1, EmptyHeader DEF Reset, DInv, IndexCached, Saving,
       KeptCounted, KeptStored, Between, ResetSteps, Lines
  <1> QED BY <1>1, <1>2, <1>3, <1>4, <1>5

--------------------------------------------------------------------------------
(***************************************************************************)
(* The writes.                                                             *)
(***************************************************************************)
LEMMA WriteBodyDurable == ASSUME DInv, WriteBody PROVE DInv'
  <1> DEFINE B == file.body
             b == file.body \o raw
  <1>1. B \in Seq(Byte) /\ raw \in Seq(Byte) /\ b \in Seq(Byte) /\ file \in Files
    BY LineFacts DEF DInv, Shape
  <1>2. file' \in Files /\ file'.body = b /\ file'.header = file.header
        /\ file'.seqnums = file.seqnums /\ file'.session = file.session
    BY <1>1, PutBody DEF WriteBody
  <1>3. Lines' = Lines /\ NumbersIn(file') = NumbersIn(file) BY <1>2 DEF Lines, NumbersIn
  <1>4. body_len' = Len(b) /\ body_len' \in Nat
    BY <1>1 DEF DInv, IndexCached, WriteBody, At
  <1>5. Len(raw) <= Len(b) /\ Read(b, [off |-> Len(b) - Len(raw), len |-> Len(raw)]) = raw
    BY <1>1, ReadLast
  <1>6. \A n \in DOMAIN kept : Stored(file', disk, n, kept[n])
    BY <1>1, <1>2, StoredAppend DEF DInv, KeptStored
  <1>7. Shape' BY <1>2, <1>4 DEF DInv, Shape, WriteBody, Steps
  <1> HIDE DEF b, B
  <1>8. IndexCached' /\ Saving'
    BY <1>2, <1>3, <1>4, <1>5 DEF DInv, IndexCached, Saving, WriteBody, At
  <1>9. KeptCounted' /\ KeptStored'
    BY <1>2, <1>3, <1>6 DEF DInv, KeptCounted, KeptStored, WriteBody, At
  <1> QED
    BY <1>7, <1>8, <1>9 DEF DInv, Between, WriteBody, At, ResetSteps

LEMMA WriteHeaderDurable == ASSUME DInv, WriteHeader PROVE DInv'
  <1> DEFINE L == Insert(Lines, cache.sender, Line)
             h == [file.header EXCEPT !.lines = L]
  <1>1. file \in Files /\ cache.sender \in SeqNum /\ running /\ pc = "header"
    BY DEF DInv, Shape, WriteHeader, Numbers, At
  <1>2. Lines \in Index /\ file.header.cut \in BOOLEAN /\ file.header \in Header
    BY <1>1 DEF Files, Lines, Header
  <1>3. body_len = Len(file.body) /\ Len(raw) \in Nat /\ Len(file.body) \in Nat
        /\ Len(raw) <= Len(file.body) /\ offsets = Lines
    BY <1>1, LineFacts DEF DInv, IndexCached, Saving, Shape
  <1>4. Line \in Range /\ Readable(file.body, Line) /\ Read(file.body, Line) = raw
    BY <1>1, <1>3 DEF Line, Range, Readable, DInv, Saving
  <1>5. /\ L \in Index
        /\ DOMAIN L = DOMAIN Lines \cup {cache.sender} /\ L[cache.sender] = Line
        /\ \A k \in DOMAIN Lines : k # cache.sender => L[k] = Lines[k]
    <2> DEFINE s == cache.sender
               M == Lines
               G == Line
    <2>1. M \in Index /\ s \in SeqNum /\ G \in Range BY <1>1, <1>2, <1>4
    <2> HIDE DEF s, M, G
    <2>2. /\ Insert(M, s, G) \in Index
          /\ DOMAIN Insert(M, s, G) = DOMAIN M \cup {s} /\ Insert(M, s, G)[s] = G
          /\ \A k \in DOMAIN M : k # s => Insert(M, s, G)[k] = M[k]
      BY <2>1, InsertFacts
    <2> QED BY <2>2 DEF s, M, G
  <1>6. Put("header", h) /\ offsets' = Insert(offsets, cache.sender, Line)
    BY Zenon DEF WriteHeader, Lines
  <1>7. offsets' = L BY <1>3, <1>6
  <1> HIDE DEF L
  <1>8. h \in Header /\ h.lines = L BY <1>2, <1>5 DEF Header
  <1> HIDE DEF h
  <1>9. file' \in Files /\ file'.body = file.body /\ file'.header = h
        /\ file'.seqnums = file.seqnums /\ file'.session = file.session
    BY <1>1, <1>6, <1>8, PutHeader
  <1>10. Lines' = L /\ NumbersIn(file') = NumbersIn(file) BY <1>8, <1>9 DEF Lines, NumbersIn
  <1>11. Shape' BY <1>9 DEF DInv, Shape, WriteHeader, Steps
  <1>12. Holds(file', cache.sender, raw)
    BY <1>4, <1>5, <1>8, <1>9 DEF Holds
  <1>13. \A n \in DOMAIN kept : Stored(file', disk, n, kept[n])
    <2> SUFFICES ASSUME NEW n \in DOMAIN kept PROVE Stored(file', disk, n, kept[n]) OBVIOUS
    <2>1. Stored(file, disk, n, kept[n]) /\ n \in DOMAIN Lines
      BY DEF DInv, KeptStored, Stored, Holds, Lines
    <2>2. n # cache.sender BY <1>1 DEF DInv, KeptCounted, SeqNum
    <2>3. file'.header.lines[n] = file.header.lines[n]
          /\ DOMAIN file.header.lines \subseteq DOMAIN file'.header.lines
      BY <1>5, <1>8, <1>9, <2>1, <2>2 DEF Lines
    <2> QED BY <1>9, <2>1, <2>3, StoredInsert
  <1>14. IndexCached' /\ Saving'
    BY <1>1, <1>3, <1>7, <1>9, <1>10, <1>12 DEF DInv, IndexCached, Saving, WriteHeader
  <1>15. KeptCounted' /\ KeptStored'
    BY <1>10, <1>13 DEF DInv, KeptCounted, KeptStored, WriteHeader
  <1> QED
    BY <1>11, <1>14, <1>15 DEF DInv, Between, WriteHeader, At, ResetSteps

\* The flush: what was written is now stored.
LEMMA SyncMessageDurable == ASSUME DInv, SyncMessage PROVE DInv'
  <1>1. file \in Files /\ disk \in Files /\ running /\ pc = "sync_message"
    BY DEF DInv, Shape, SyncMessage, At
  <1>2. /\ disk' \in Files
        /\ Sync => disk'.body = file.body /\ disk'.header = file.header
        /\ disk'.body \in {file.body, disk.body} /\ disk'.header \in {file.header, disk.header}
    BY <1>1 DEF SyncMessage, Files
  <1>3. Stored(file, disk', cache.sender, raw)
    BY <1>1, <1>2 DEF DInv, Saving, Stored, Holds
  <1>4. \A n \in DOMAIN kept : Stored(file, disk', n, kept[n])
    BY <1>2, StoredFlush DEF DInv, KeptStored
  <1>5. Shape' BY <1>1 DEF DInv, Shape, SyncMessage, Steps
  <1> QED
    BY <1>1, <1>2, <1>3, <1>4, <1>5 DEF SyncMessage, DInv, IndexCached, Saving, KeptCounted,
       KeptStored, Between, ResetSteps, Lines

LEMMA CountDurable == ASSUME DInv, IncrSender PROVE DInv'
  <1>1. Shape' BY DEF DInv, Shape, IncrSender, Steps, Numbers, SeqNum, At
  <1>2. cache'.sender = cache.sender + 1 /\ cache'.sender - 1 = cache.sender
        /\ cache.sender \in Nat /\ pc = "incr_sender" /\ running
    BY DEF DInv, Shape, IncrSender, Numbers, SeqNum, At
  <1>3. \A n \in DOMAIN kept : n \in Nat /\ n < cache.sender
    BY <1>2, LineFacts DEF DInv, KeptCounted, KeptStored, Stored, Holds, SeqNum, Shape
  <1>4. \A n \in DOMAIN kept : n < cache'.sender BY <1>2, <1>3
  <1> QED BY <1>1, <1>2, <1>4 DEF IncrSender, DInv, IndexCached, Saving,
     KeptCounted, KeptStored, Between, ResetSteps, Lines

LEMMA WriteSeqnumsDurable == ASSUME DInv, WriteSeqnums PROVE DInv'
  <1> DEFINE q == <<cache.sender, cache.target>>
  <1>1. file \in Files /\ cache \in Numbers /\ cache.sender \in SeqNum /\ q \in SeqNums
        /\ <<>> \in Seq(Byte) /\ running /\ pc = "seqnums"
    BY DEF DInv, Shape, Numbers, WriteSeqnums, At, SeqNums
  <1>2. file' \in Files /\ file'.body = file.body /\ file'.header = file.header
        /\ file'.seqnums = q /\ file'.session = file.session
    BY <1>1, PutSeqnums DEF WriteSeqnums
  <1>3. Lines' = Lines BY <1>2 DEF Lines
  <1>4. NumbersIn(file') = cache BY <1>1, <1>2 DEF NumbersIn, Numbers
  <1>5. Shape' BY <1>1, <1>2 DEF DInv, Shape, WriteSeqnums, Steps
  <1>6. \A n \in DOMAIN kept : n < cache.sender BY <1>1 DEF DInv, KeptCounted
  <1>7. \A n \in DOMAIN kept' : n < cache.sender /\ Stored(file, disk, n, kept'[n])
    <2>1. CASE raw = <<>>
      BY <2>1, <1>6 DEF WriteSeqnums, DInv, KeptStored
    <2>2. CASE raw # <<>>
      <3>1. Stored(file, disk, cache.sender - 1, raw) BY <1>1, <2>2 DEF DInv, Saving
      <3>2. kept' = Insert(kept, cache.sender - 1, raw) BY <2>2 DEF WriteSeqnums
      <3>3. DOMAIN kept' = DOMAIN kept \cup {cache.sender - 1} /\ kept'[cache.sender - 1] = raw
            /\ \A n \in DOMAIN kept : n # cache.sender - 1 => kept'[n] = kept[n]
        BY <3>2 DEF Insert
      <3>4. cache.sender - 1 < cache.sender BY <1>1 DEF SeqNum
      <3> QED BY <3>1, <3>3, <3>4, <1>6 DEF DInv, KeptStored
    <2> QED BY <2>1, <2>2
  <1>8. \A n \in DOMAIN kept' : Stored(file', disk, n, kept'[n]) BY <1>2, <1>7, StoredSame
  <1>9. running' /\ pc' = "sync_seqnums" /\ raw' = <<>> /\ offsets' = offsets /\ body_len' = body_len
        /\ cache' = cache /\ disk' = disk
    BY <1>1 DEF WriteSeqnums
  <1>10. KeptCounted' /\ KeptStored' BY <1>4, <1>7, <1>8, <1>9 DEF KeptCounted, KeptStored
  <1>11. IndexCached' /\ Saving'
    BY <1>1, <1>2, <1>3, <1>9 DEF DInv, IndexCached, Saving
  <1> QED
    BY <1>5, <1>9, <1>10, <1>11 DEF DInv, Between, ResetSteps

LEMMA SyncSeqnumsDurable == ASSUME DInv, SyncSeqnums PROVE DInv'
  <1>1. file \in Files /\ disk \in Files /\ running /\ pc = "sync_seqnums"
    BY DEF DInv, Shape, SyncSeqnums, At
  <1>2. disk' \in Files /\ disk'.body = disk.body /\ disk'.header = disk.header
    BY <1>1 DEF SyncSeqnums, Files
  <1>3. \A n \in DOMAIN kept : Stored(file, disk', n, kept[n])
    BY <1>2, StoredSame DEF DInv, KeptStored
  <1>4. Shape' BY <1>1 DEF DInv, Shape, SyncSeqnums, Steps
  <1> QED
    BY <1>1, <1>2, <1>3, <1>4 DEF SyncSeqnums, DInv, IndexCached, Saving, KeptCounted,
       KeptStored, Between, ResetSteps, Lines

\* reset, and the creation of the session file.
LEMMA TruncateDurable ==
  ASSUME DInv,
         CutBody \/ CutHeader \/ CutSeqnums \/ CutSession \/ StampSession \/ Renumber
            \/ CreateSession \/ FillSession
  PROVE  DInv'
  <1> DEFINE q == <<cache.sender, cache.target>>
  <1>0. file \in Files /\ <<>> \in Seq(Byte) /\ q \in SeqNums /\ <<>> \in SeqNums
        /\ cache \in Numbers
    BY DEF DInv, Shape, Numbers, SeqNums
  <1> USE DEF Truncate, At
  <1>1. CASE CutBody
    <2>1. file' \in Files /\ file'.body = <<>> /\ file'.header = file.header
      BY <1>0, <1>1, PutBody DEF CutBody
    <2>2. Lines' = Lines /\ Len(file'.body) = 0 BY <2>1 DEF Lines
    <2>3. Shape' BY <1>1, <2>1 DEF DInv, Shape, CutBody, Steps, ResetSteps
    <2> QED BY <1>1, <2>1, <2>2, <2>3, EmptyHeader DEF CutBody, DInv, IndexCached,
          Saving, KeptCounted, KeptStored, Between, ResetSteps
  <1>2. CASE CutHeader
    <2>1. file' \in Files /\ file'.body = file.body /\ file'.header = NoFiles.header
      BY <1>0, <1>2, PutHeader, EmptyHeader DEF CutHeader, NoFiles, Empty
    <2>2. Lines' = EmptyMap BY <2>1 DEF Lines, NoFiles
    <2>3. Shape' BY <1>2, <2>1 DEF DInv, Shape, CutHeader, Steps, ResetSteps
    <2> QED BY <1>2, <2>1, <2>2, <2>3, EmptyHeader DEF CutHeader, DInv, IndexCached,
          Saving, KeptCounted, KeptStored, Between, ResetSteps
  <1>3. CASE CutSeqnums \/ Renumber
    <2>1. file' \in Files /\ file'.body = file.body /\ file'.header = file.header
      BY <1>0, <1>3, PutSeqnums DEF CutSeqnums, Renumber
    <2>2. Lines' = Lines BY <2>1 DEF Lines
    <2>3. Shape' BY <1>3, <2>1 DEF DInv, Shape, CutSeqnums, Renumber, Steps, ResetSteps
    <2> QED BY <1>3, <2>1, <2>2, <2>3, EmptyHeader DEF CutSeqnums, Renumber, DInv, IndexCached,
          Saving, KeptCounted, KeptStored, Between, ResetSteps
  <1>4. CASE CutSession \/ StampSession \/ CreateSession \/ FillSession
    <2>1. PICK t \in {"empty", "time"} : Put("session", t)
      BY <1>4 DEF CutSession, StampSession, CreateSession, FillSession
    <2>2. file' \in Files /\ file'.body = file.body /\ file'.header = file.header
          /\ file'.seqnums = file.seqnums
      BY <1>0, <2>1, PutSession
    <2>3. Lines' = Lines /\ NumbersIn(file') = NumbersIn(file) BY <2>2 DEF Lines, NumbersIn
    <2>4. Shape'
      BY <1>4, <2>2 DEF DInv, Shape, CutSession, StampSession, CreateSession, FillSession, Steps,
         ResetSteps
    <2>5. /\ running /\ UNCHANGED <<running, cache, offsets, body_len, raw, kept, disk>>
          /\ pc \in {"cut_session", "session", "create_session", "fill_session"}
          /\ pc' \in {"session", "renumber", "fill_session", "idle"}
          /\ pc' \in ResetSteps => pc \in ResetSteps
      BY <1>4 DEF CutSession, StampSession, CreateSession, FillSession, ResetSteps
    <2>6. KeptStored'
      BY <2>2, <2>5, StoredSame DEF DInv, KeptStored
    <2> QED BY <2>2, <2>3, <2>4, <2>5, <2>6 DEF DInv, IndexCached,
          Saving, KeptCounted, Between, ResetSteps
  <1> QED BY <1>1, <1>2, <1>3, <1>4

--------------------------------------------------------------------------------
(***************************************************************************)
(* The faults.                                                             *)
(***************************************************************************)
LEMMA CrashDurable == ASSUME DInv, Crash PROVE DInv'
  <1>1. running' \in BOOLEAN /\ running' = FALSE /\ pc' = "idle" /\ raw' = <<>>
        /\ UNCHANGED <<cache, offsets, body_len, file, disk, kept>>
    BY Zenon DEF Crash
  <1>2. <<>> \in Seq(Byte) OBVIOUS
  <1>3. Shape' BY <1>1, <1>2 DEF DInv, Shape, Steps
  <1> QED BY <1>1, <1>3 DEF DInv, IndexCached, Saving, KeptCounted, KeptStored, Between,
     ResetSteps, Lines

\* One file is written back, at any moment and before or after the others.
LEMMA WriteBackDurable == ASSUME DInv, NEW name \in Names, WriteBack(name) PROVE DInv'
  <1>1. file \in Files /\ disk \in Files BY DEF DInv, Shape
  <1>2. /\ disk' \in Files
        /\ disk'.body \in {file.body, disk.body} /\ disk'.header \in {file.header, disk.header}
    BY <1>1, FlushOne DEF WriteBack
  <1>3. UNCHANGED <<running, cache, offsets, body_len, raw, pc, file, kept>> BY DEF WriteBack
  <1>4. \A n, m : Stored(file, disk, n, m) => Stored(file, disk', n, m) BY <1>2, StoredFlush
  <1>5. Shape' BY <1>3 DEF DInv, Shape
  <1> QED BY <1>2, <1>3, <1>4, <1>5 DEF DInv, IndexCached, Saving, KeptCounted, KeptStored, Between,
     ResetSteps, Lines

\* The machine stops: the promises are those the number on the disk makes.
LEMMA PowerLossDurable == ASSUME DInv, Survivable, PowerLoss PROVE DInv'
  <1>1. running' \in BOOLEAN /\ running' = FALSE /\ pc' = "idle" /\ raw' = <<>> /\ file' = disk
        /\ disk' = disk /\ UNCHANGED <<cache, offsets, body_len>>
    BY Zenon DEF PowerLoss
  <1>2. <<>> \in Seq(Byte) OBVIOUS
  <1>3. Shape' BY <1>1, <1>2 DEF DInv, Shape, Steps
  <1>4. NumbersIn(disk) \in Numbers /\ NumbersIn(disk).sender \in Nat
    BY LineFacts DEF DInv, Numbers, SeqNum
  <1>5. \A n \in DOMAIN kept' : n \in DOMAIN kept /\ kept'[n] = kept[n] /\ n < NumbersIn(disk).sender
    BY <1>4 DEF PowerLoss, Below
  <1>6. Sync BY DEF PowerLoss, Survivable
  <1>7. \A n \in DOMAIN kept : Stored(disk, disk, n, kept[n])
    BY <1>6, StoredLost DEF DInv, KeptStored
  <1>8. KeptStored' /\ KeptCounted' BY <1>1, <1>5, <1>7 DEF KeptStored, KeptCounted
  <1> QED BY <1>1, <1>3, <1>8 DEF DInv, IndexCached, Saving, Between, ResetSteps

LEMMA StepDurable == ASSUME Survivable, DInv, [Next]_vars PROVE DInv'
  <1>1. CASE Open \/ Refresh BY <1>1, LoadDurable
  <1>2. CASE \/ \E m \in Raw : SaveMessageAndIncr(m)
             \/ IncrNextSender \/ IncrNextTarget
             \/ \E which \in {"sender", "target"}, n \in 1..MaxSeq : SetNextNum(which, n)
             \/ Reset
    BY <1>2, OperationDurable
  <1>3. CASE Write
    BY <1>3, WriteBodyDurable, WriteHeaderDurable, SyncMessageDurable, CountDurable,
       WriteSeqnumsDurable, SyncSeqnumsDurable, TruncateDurable DEF Write
  <1>4. CASE Fault
    BY <1>4, CrashDurable, WriteBackDurable, PowerLossDurable
    DEF Fault, Survivable, BodyFails, HeaderFails
  <1>5. CASE UNCHANGED vars
    <2>1. running' = running /\ cache' = cache /\ offsets' = offsets /\ body_len' = body_len
          /\ file' = file /\ disk' = disk /\ pc' = pc /\ raw' = raw /\ kept' = kept
      BY <1>5 DEF vars
    <2> QED
      BY <2>1 DEF DInv, Shape, IndexCached, Saving, KeptCounted, KeptStored, Between, Lines
  <1> QED BY <1>1, <1>2, <1>3, <1>4, <1>5 DEF Next, Operation

--------------------------------------------------------------------------------
(***************************************************************************)
(* The numbers, under every fault, a failing append included.              *)
(***************************************************************************)
\* With FileStoreSync the numbers on the disk are those in the file, if no
\* process dies between write and flush, and nothing resets: reset does not flush.
Flushed == Sync => "crash" \notin Faults /\ "reset" \notin Ops

\* load and write_seqnums keep memory and the seqnums file together, write_seqnums
\* and its flush the file and the disk.
NumbersTogether ==
    /\ DOMAIN file = Names /\ DOMAIN disk = Names
    /\ cache = [sender |-> cache.sender, target |-> cache.target]
    /\ ~running => pc = "idle"
    /\ pc \in ResetSteps => cache = [sender |-> 1, target |-> 1]
    /\ running /\ pc \notin {"seqnums", "cut_body", "cut_header", "cut_seqnums"} => NumbersIn(file) = cache
    /\ Sync /\ "crash" \notin Faults /\ "reset" \notin Ops =>
          /\ pc \notin ResetSteps
          /\ pc \notin {"seqnums", "sync_seqnums"} => disk.seqnums = file.seqnums

LEMMA PutOne ==
  ASSUME DOMAIN file = Names, NEW name \in Names, NEW c, Put(name, c)
  PROVE  /\ DOMAIN file' = Names
         /\ name = "seqnums" => file'.seqnums = c
         /\ name # "seqnums" => file'.seqnums = file.seqnums /\ NumbersIn(file') = NumbersIn(file)
  BY DEF Put, NumbersIn, Names

LEMMA NumbersRecord ==
  ASSUME NEW f PROVE NumbersIn(f) = [sender |-> NumbersIn(f).sender, target |-> NumbersIn(f).target]
  BY DEF NumbersIn

LEMMA InitTogether == Init => NumbersTogether
  BY DEF Init, NumbersTogether, NoFiles, Names, ResetSteps

LEMMA StartTogether ==
  ASSUME NumbersTogether,
         \/ Open \/ Refresh \/ IncrNextSender \/ IncrNextTarget \/ Reset
         \/ \E m \in Raw : SaveMessageAndIncr(m)
         \/ \E which \in {"sender", "target"}, n \in 1..MaxSeq : SetNextNum(which, n)
  PROVE  NumbersTogether'
  <1>1. CASE Open \/ Refresh
    <2>1. pc' \in {"idle", "create_session"} /\ running' = TRUE /\ cache' = NumbersIn(file) /\ pc = "idle"
          /\ file' = file /\ disk' = disk
      BY <1>1 DEF Open, Refresh, Load, NumbersTogether
    <2> QED BY <2>1, NumbersRecord DEF NumbersTogether, ResetSteps
  <1>2. CASE IncrNextSender \/ \E m \in Raw : SaveMessageAndIncr(m)
    BY <1>2 DEF IncrNextSender, SaveMessageAndIncr, Idle, NumbersTogether, ResetSteps
  <1>3. CASE IncrNextTarget \/ \E which \in {"sender", "target"}, n \in 1..MaxSeq : SetNextNum(which, n)
    <2>1. pc' = "seqnums" /\ pc = "idle" /\ UNCHANGED <<running, file, disk>> /\ running
          /\ cache' = [sender |-> cache'.sender, target |-> cache'.target]
      BY <1>3 DEF IncrNextTarget, SetNextNum, Idle, NumbersTogether
    <2> QED BY <2>1 DEF NumbersTogether, ResetSteps
  <1>4. CASE Reset
    BY <1>4 DEF Reset, Idle, NumbersTogether, ResetSteps
  <1> QED BY <1>1, <1>2, <1>3, <1>4

LEMMA WriteTogether == ASSUME NumbersTogether, Write PROVE NumbersTogether'
  <1> USE DEF At
  <1>1. CASE WriteBody \/ WriteHeader \/ CutBody \/ CutHeader \/ CutSession \/ StampSession
             \/ CreateSession \/ FillSession
    <2>1. PICK name \in Names \ {"seqnums"} : \E c : Put(name, c)
      BY <1>1 DEF WriteBody, WriteHeader, CutBody, CutHeader, CutSession, StampSession, CreateSession,
         FillSession, Truncate, Names
    <2>2. DOMAIN file' = Names /\ file'.seqnums = file.seqnums /\ NumbersIn(file') = NumbersIn(file)
      BY <2>1, PutOne DEF NumbersTogether
    <2>3. /\ running /\ UNCHANGED <<running, cache, disk>>
          /\ pc \in {"body", "header", "cut_body", "cut_header", "cut_session", "session",
                     "create_session", "fill_session"}
          /\ pc' \in {"header", "sync_message", "cut_header", "cut_seqnums", "session", "renumber",
                      "fill_session", "idle"}
          /\ pc' \in ResetSteps => pc \in ResetSteps
          /\ pc \in {"cut_body", "cut_header"} => pc' \in {"cut_header", "cut_seqnums"}
      BY <1>1 DEF WriteBody, WriteHeader, CutBody, CutHeader, CutSession, StampSession, CreateSession,
         FillSession, Truncate, ResetSteps
    <2> QED BY <2>2, <2>3 DEF NumbersTogether, ResetSteps
  <1>2. CASE WriteSeqnums \/ Renumber \/ CutSeqnums
    <2> DEFINE c == IF pc = "cut_seqnums" THEN <<>> ELSE <<cache.sender, cache.target>>
    <2>1. /\ running /\ UNCHANGED <<running, cache, disk>> /\ Put("seqnums", c) /\ "seqnums" \in Names
          /\ <<pc, pc'>> \in {<<"seqnums", "sync_seqnums">>, <<"renumber", "idle">>,
                              <<"cut_seqnums", "cut_session">>}
      BY <1>2 DEF WriteSeqnums, Renumber, CutSeqnums, Truncate, Names
    <2>2. DOMAIN file' = Names /\ file'.seqnums = c
      BY <2>1, PutOne DEF NumbersTogether
    <2>3. NumbersIn(file') = cache
      BY <2>1, <2>2 DEF NumbersTogether, NumbersIn, ResetSteps
    <2> QED BY <2>1, <2>2, <2>3 DEF NumbersTogether, ResetSteps
  <1>3. CASE SyncMessage
    <2>1. DOMAIN disk' = Names /\ disk'.seqnums = disk.seqnums
      BY <1>3 DEF SyncMessage, NumbersTogether, Names
    <2> QED BY <1>3, <2>1 DEF SyncMessage, NumbersTogether, ResetSteps
  <1>4. CASE IncrSender
    <2>1. cache' = [sender |-> cache'.sender, target |-> cache'.target]
      BY <1>4 DEF IncrSender, NumbersTogether
    <2> QED BY <1>4, <2>1 DEF IncrSender, NumbersTogether, ResetSteps
  <1>5. CASE SyncSeqnums
    <2>1. DOMAIN disk' = Names /\ (Sync => disk'.seqnums = file.seqnums)
      BY <1>5 DEF SyncSeqnums, NumbersTogether, Names
    <2> QED BY <1>5, <2>1 DEF SyncSeqnums, NumbersTogether, ResetSteps
  <1> QED BY <1>1, <1>2, <1>3, <1>4, <1>5 DEF Write

LEMMA FaultTogether == ASSUME NumbersTogether, Fault PROVE NumbersTogether'
  <1>1. CASE Crash
    BY <1>1 DEF Crash, NumbersTogether, ResetSteps
  <1>2. CASE PowerLoss
    <2>1. running' = FALSE /\ pc' = "idle" /\ file' = disk /\ disk' = disk /\ cache' = cache
      BY <1>2, Zenon DEF PowerLoss
    <2> QED BY <2>1 DEF NumbersTogether, ResetSteps
  <1>3. ASSUME NEW name \in Names, WriteBack(name) PROVE NumbersTogether'
    <2>1. DOMAIN disk' = Names /\ disk'.seqnums \in {disk.seqnums, file.seqnums}
      BY <1>3 DEF WriteBack, NumbersTogether, Names
    <2> QED BY <1>3, <2>1 DEF WriteBack, NumbersTogether, ResetSteps
  <1>4. CASE BodyFails \/ HeaderFails
    <2>1. PICK name \in Names \ {"seqnums"} : \E c : Put(name, c)
      BY <1>4 DEF BodyFails, HeaderFails, Names
    <2>2. DOMAIN file' = Names /\ file'.seqnums = file.seqnums /\ NumbersIn(file') = NumbersIn(file)
      BY <2>1, PutOne DEF NumbersTogether
    <2>3. running /\ pc \in {"body", "header"} /\ pc' = "idle" /\ UNCHANGED <<running, cache, disk>>
      BY <1>4 DEF BodyFails, HeaderFails, At
    <2> QED BY <2>2, <2>3 DEF NumbersTogether, ResetSteps
  <1> QED BY <1>1, <1>2, <1>3, <1>4 DEF Fault

LEMMA StepTogether == ASSUME NumbersTogether, [Next]_vars PROVE NumbersTogether'
  <1>1. CASE UNCHANGED vars
    BY <1>1 DEF vars, NumbersTogether, NumbersIn
  <1> QED BY <1>1, StartTogether, WriteTogether, FaultTogether DEF Next, Operation

--------------------------------------------------------------------------------
\* save_message_and_incr counts a message only when its body and its line are
\* written and, with FileStoreSync, flushed: a message that was counted can be
\* resent byte for byte after the process, or with FileStoreSync the machine,
\* stops anywhere, in whatever order the files reach the disk and whatever was
\* set back, reset or saved again.  Only a failing append is left out.
THEOREM CrashKeepsMessages ==
  ASSUME Survivable
  PROVE  Spec => []ResendIntact
  <1>1. DInv => ResendIntact
    <2> SUFFICES ASSUME DInv, NEW n \in DOMAIN kept
                 PROVE  /\ Holds(Medium, n, kept[n])
                        /\ running => Holds(file, n, kept[n]) /\ offsets = Lines
      BY DEF ResendIntact, Holds, Lines
    <2>1. pc \notin ResetSteps BY EmptyHeader DEF DInv, Between
    <2>2. Stored(file, disk, n, kept[n]) BY DEF DInv, KeptStored
    <2> QED BY <2>1, <2>2 DEF DInv, IndexCached, ResetSteps, Stored, Medium
  <1>2. Init => DInv BY InitDurable
  <1>3. DInv /\ [Next]_vars => DInv' BY StepDurable
  <1> QED BY <1>1, <1>2, <1>3, PTL DEF Spec

\* Once an operation has returned, what a restart reads are the numbers in
\* memory: from the seqnums file under every fault, from the disk too with
\* FileStoreSync, a failing append and a power loss at any moment included.
THEOREM CrashKeepsNumbers ==
  ASSUME Flushed
  PROVE  Spec => []NumbersSurvive
  <1>1. NumbersTogether => NumbersSurvive
    BY DEF NumbersTogether, NumbersSurvive, Medium, Idle, Flushed, NumbersIn
  <1>2. Init => NumbersTogether BY InitTogether
  <1>3. NumbersTogether /\ [Next]_vars => NumbersTogether' BY StepTogether
  <1> QED BY <1>1, <1>2, <1>3, PTL DEF Spec

--------------------------------------------------------------------------------
(***************************************************************************)
(* FileStore implements MessageStore while only the process may fail: the  *)
(* abstract state is the one of the mapping in FileStore, and each write   *)
(* of an operation is one abstract step or none.                           *)
(***************************************************************************)
\* The messages a session sees, and the numbers in the seqnums file.
Seen == [n \in DOMAIN SeenIndex |-> Read(file.body, SeenIndex[n])]
InFile == NumbersIn(file)

\* Only save_message has a message in hand.
RawInv == pc \in {"body", "header"} => raw \in Raw

LEMMA RawStep == ASSUME RawInv, [Next]_vars PROVE RawInv'
  <1>1. CASE Open \/ Operation
    BY <1>1 DEF RawInv, Open, Load, Operation, SaveMessageAndIncr, IncrNextSender,
       IncrNextTarget, SetNextNum, Reset, Refresh
  <1>2. CASE WriteBody \/ WriteHeader \/ SyncMessage \/ IncrSender \/ WriteSeqnums \/ SyncSeqnums
    BY <1>2 DEF RawInv, WriteBody, WriteHeader, SyncMessage, IncrSender, WriteSeqnums,
       SyncSeqnums, At
  <1>3. CASE CutBody \/ CutHeader \/ CutSeqnums \/ CutSession \/ StampSession \/ Renumber
             \/ CreateSession \/ FillSession
    BY <1>3 DEF RawInv, Truncate, CutBody, CutHeader, CutSeqnums, CutSession, StampSession,
       Renumber, CreateSession, FillSession
  <1>4. CASE Fault
    BY <1>4 DEF RawInv, Fault, Crash, PowerLoss, WriteBack, BodyFails, HeaderFails
  <1>5. CASE UNCHANGED vars BY <1>5 DEF RawInv, vars
  <1> QED BY <1>1, <1>2, <1>3, <1>4, <1>5 DEF Next, Write

LEMMA RawInvariant == Spec => []RawInv
  <1>1. Init => RawInv BY DEF Init, RawInv
  <1> QED BY <1>1, RawStep, PTL DEF Spec

--------------------------------------------------------------------------------
\* A step that changes nothing a session can see.
LEMMA Invisible ==
  ASSUME SeenNumbers' = SeenNumbers, Seen' = Seen, InFile' = InFile
  PROVE  UNCHANGED Trait!vars
  BY DEF Trait!vars, Seen, InFile

\* The numbers in memory are the ones of the file between two operations.
LEMMA Settled ==
  ASSUME IInv, running, pc \notin {"seqnums", "cut_body", "cut_header", "cut_seqnums"}
  PROVE  SeenNumbers = InFile
  BY DEF IInv, NumbersAgree, SeenNumbers, InFile

\* What the mapping needs to know of a step that leaves the files alone.
LEMMA FilesKept == ASSUME file' = file PROVE InFile' = InFile
  BY DEF InFile, NumbersIn

LEMMA SeenKept ==
  ASSUME file' = file, running' = running, offsets' = offsets
  PROVE  Seen' = Seen
  BY DEF Seen, SeenIndex, Read

--------------------------------------------------------------------------------
\* Opening and refreshing show what was there.
LEMMA LoadMaps == ASSUME IInv, Open \/ Refresh PROVE UNCHANGED Trait!vars
  <1>1. file' = file /\ running' = TRUE /\ offsets' = Lines /\ cache' = NumbersIn(file)
    BY DEF Open, Refresh, Load, Lines
  <1>2. SeenNumbers = InFile /\ SeenIndex = Lines
    BY Settled DEF Open, Refresh, IInv, IndexCached, SeenNumbers, SeenIndex, InFile, Lines
  <1>3. SeenNumbers' = InFile /\ SeenIndex' = Lines
    BY <1>1 DEF SeenNumbers, SeenIndex, InFile
  <1>4. Seen' = Seen BY <1>1, <1>2, <1>3 DEF Seen, Read
  <1> QED BY <1>1, <1>2, <1>3, <1>4, FilesKept, Invisible

\* An operation that changes a number is seen at once.
LEMMA OperationMaps ==
  ASSUME IInv,
         \/ \E m \in Raw : SaveMessageAndIncr(m)
         \/ IncrNextSender \/ IncrNextTarget
         \/ \E which \in {"sender", "target"}, n \in 1..MaxSeq : SetNextNum(which, n)
         \/ Reset
  PROVE  [Trait!Next]_(Trait!vars)
  <1>0. running /\ pc = "idle" /\ running' = running /\ file' = file
    BY DEF SaveMessageAndIncr, IncrNextSender, IncrNextTarget, SetNextNum, Reset, Idle
  <1>1. SeenNumbers = cache /\ SeenNumbers' = cache' /\ SeenNumbers = InFile /\ InFile' = InFile
        /\ cache \in Numbers
    BY <1>0, Settled, FilesKept DEF SeenNumbers, IInv, Shape
  <1>2. CASE (\E m \in Raw : SaveMessageAndIncr(m)) \/ IncrNextSender
    <2>1. cache' = cache /\ offsets' = offsets BY <1>2 DEF SaveMessageAndIncr, IncrNextSender
    <2> QED BY <1>0, <1>1, <2>1, SeenKept, Invisible
  <1>3. CASE IncrNextTarget \/ \E n \in 1..MaxSeq : SetNextNum("target", n)
    <2>1. cache'.sender = cache.sender /\ cache'.target \in Nat \ {0} /\ offsets' = offsets
      BY <1>1, <1>3, StoreAssumption DEF IncrNextTarget, SetNextNum, Numbers, SeqNum
    <2>2. Seen' = Seen BY <1>0, <2>1, SeenKept
    <2>3. Trait!SetNextTarget
      BY <1>1, <2>1, <2>2 DEF Trait!SetNextTarget, Trait!SeqNum, Trait!numbers, Seen, InFile
    <2> QED BY <2>3 DEF Trait!Next
  <1>4. CASE \E n \in 1..MaxSeq : SetNextNum("sender", n)
    <2>0. PICK n \in 1..MaxSeq : SetNextNum("sender", n) BY <1>4
    <2>3. n \in Nat \ {0} BY StoreAssumption
    <2>1. cache'.target = cache.target /\ cache'.sender \in Nat \ {0} /\ offsets' = offsets
      BY <1>1, <2>0, <2>3 DEF SetNextNum, Numbers
    <2>2. Seen' = Seen BY <1>0, <2>1, SeenKept
    <2>4. Trait!SetNextSender
      BY <1>1, <2>1, <2>2 DEF Trait!SetNextSender, Trait!SeqNum, Trait!numbers, Seen, InFile
    <2> QED BY <2>4 DEF Trait!Next
  <1>5. CASE Reset
    <2>1. cache'.sender = 1 /\ cache'.target = 1 /\ offsets' = EmptyMap BY <1>5 DEF Reset
    <2>2. SeenIndex' = EmptyMap /\ DOMAIN EmptyMap = {} BY <1>0, <2>1, EmptyHeader DEF SeenIndex
    <2>3. Seen' = [n \in {} |-> <<>>] BY <2>2 DEF Seen
    <2>4. Trait!Reset
      BY <1>1, <2>1, <2>3 DEF Trait!Reset, Trait!numbers, Seen, InFile
    <2> QED BY <2>4 DEF Trait!Next
  <1> QED BY <1>2, <1>3, <1>4, <1>5

--------------------------------------------------------------------------------
\* The body grows behind everything that is indexed.
LEMMA WriteBodyMaps == ASSUME IInv, WriteBody PROVE UNCHANGED Trait!vars
  <1> DEFINE B == file.body
             b == file.body \o raw
  <1>1. B \in Seq(Byte) /\ raw \in Seq(Byte) /\ b \in Seq(Byte) /\ file \in Files
    BY LineFacts DEF IInv, Shape
  <1>2. file'.body = b /\ file'.header = file.header /\ file'.seqnums = file.seqnums
    BY <1>1, PutBody DEF WriteBody
  <1>3. running /\ running' = running /\ cache' = cache /\ offsets' = offsets /\ offsets = Lines
    BY DEF WriteBody, At, IInv, IndexCached
  <1>4. SeenIndex = Lines /\ SeenIndex' = SeenIndex /\ SeenNumbers' = SeenNumbers /\ InFile' = InFile
    BY <1>2, <1>3 DEF SeenIndex, SeenNumbers, InFile, NumbersIn
  <1>5. \A n \in DOMAIN Lines : Read(b, Lines[n]) = Read(B, Lines[n])
    BY <1>1, ReadAppend, LineFacts DEF Lines, IInv, LinesReadable, WriteBody, At
  <1>6. Seen' = Seen BY <1>2, <1>4, <1>5 DEF Seen
  <1> QED BY <1>4, <1>6, Invisible

\* The line makes the message visible.
LEMMA WriteHeaderMaps == ASSUME IInv, RawInv, WriteHeader PROVE Trait!Next
  <1> DEFINE s == cache.sender
  <1>1. file \in Files /\ s \in SeqNum /\ At("header") /\ raw \in Raw
    BY DEF IInv, Shape, WriteHeader, Numbers, RawInv, At
  <1>2. file'.body = file.body /\ file'.seqnums = file.seqnums
    BY <1>1 DEF WriteHeader, Put, Files
  <1>3. running /\ running' = running /\ cache' = cache /\ offsets' = Insert(offsets, s, Line)
    BY <1>1 DEF WriteHeader, At
  <1>4. SeenIndex = offsets /\ SeenIndex' = Insert(offsets, s, Line)
        /\ SeenNumbers = cache /\ SeenNumbers' = cache /\ InFile' = InFile /\ cache = InFile
    BY <1>1, <1>2, <1>3, Settled DEF SeenIndex, SeenNumbers, InFile, NumbersIn, At
  <1>5. Read(file.body, Line) = raw BY <1>1, LineTyped
  <1> HIDE DEF s
  <1>6. Seen' = [n \in DOMAIN Seen \cup {s} |-> IF n = s THEN raw ELSE Seen[n]]
    BY <1>2, <1>4, <1>5 DEF Seen, Insert
  <1>7. Trait!SaveMessage(raw)
    BY <1>4, <1>6 DEF Trait!SaveMessage, Trait!numbers, Seen, InFile, s
  <1> QED BY <1>1, <1>7 DEF Trait!Next

\* The numbers in memory change, the seqnums file follows.
LEMMA IncrSenderMaps == ASSUME IInv, IncrSender PROVE Trait!Next
  <1>1. running /\ pc = "incr_sender" /\ running' = running /\ file' = file /\ offsets' = offsets
        /\ cache \in Numbers /\ cache' = [cache EXCEPT !.sender = @ + 1]
    BY DEF IncrSender, At, IInv, Shape
  <1>2. SeenNumbers = cache /\ SeenNumbers' = cache' /\ cache = InFile /\ InFile' = InFile
        /\ Seen' = Seen
    BY <1>1, Settled, FilesKept, SeenKept DEF SeenNumbers
  <1>3. cache'.sender \in Nat \ {0} /\ cache'.target = cache.target
    BY <1>1 DEF Numbers, SeqNum
  <1>4. Trait!SetNextSender
    BY <1>2, <1>3 DEF Trait!SetNextSender, Trait!SeqNum, Trait!numbers, Seen, InFile
  <1> QED BY <1>4 DEF Trait!Next

LEMMA CommitMaps ==
  ASSUME IInv, running, running' = running, cache' = cache, Seen' = Seen, InFile' = cache
  PROVE  Trait!Next
  <1>1. SeenNumbers = cache /\ SeenNumbers' = cache BY DEF SeenNumbers
  <1>2. Trait!Commit BY <1>1 DEF Trait!Commit, Trait!numbers, Seen, InFile
  <1> QED BY <1>2 DEF Trait!Next

LEMMA WriteSeqnumsMaps == ASSUME IInv, WriteSeqnums \/ CutSeqnums \/ Renumber PROVE Trait!Next
  <1> DEFINE q == <<cache.sender, cache.target>>
  <1>1. file \in Files /\ cache \in Numbers /\ q \in SeqNums /\ <<>> \in SeqNums
    BY DEF IInv, Shape, Numbers, SeqNums
  <1>2. running /\ running' = running /\ cache' = cache /\ offsets' = offsets
        /\ (Put("seqnums", q) \/ (Put("seqnums", <<>>) /\ pc \in ResetSteps))
    BY DEF WriteSeqnums, CutSeqnums, Renumber, Truncate, At, ResetSteps
  <1>3. file'.body = file.body /\ file'.header = file.header
        /\ (file'.seqnums = q \/ (file'.seqnums = <<>> /\ pc \in ResetSteps))
    BY <1>1, <1>2, PutSeqnums
  <1>4. InFile' = cache
    BY <1>1, <1>3 DEF InFile, NumbersIn, Numbers, IInv, NumbersAgree
  <1>5. Seen' = Seen BY <1>2, <1>3 DEF Seen, SeenIndex
  <1> QED BY <1>2, <1>4, <1>5, CommitMaps

\* The writes nobody sees: flushes, the session file, and in reset the files
\* whose index is already empty.
LEMMA HiddenMaps ==
  ASSUME IInv,
         \/ SyncMessage \/ SyncSeqnums
         \/ CutBody \/ CutHeader \/ CutSession \/ StampSession \/ CreateSession \/ FillSession
  PROVE  UNCHANGED Trait!vars
  <1>1. file \in Files /\ running /\ running' = running /\ cache' = cache /\ offsets' = offsets
    BY DEF IInv, Shape, SyncMessage, SyncSeqnums, CutBody, CutHeader, CutSession, StampSession,
       CreateSession, FillSession, Truncate, At
  <1>2. file'.seqnums = file.seqnums
    BY <1>1 DEF SyncMessage, SyncSeqnums, CutBody, CutHeader, CutSession, StampSession,
       CreateSession, FillSession, Truncate, Put, Files
  <1>3. file'.body = file.body \/ offsets = EmptyMap
    BY <1>1 DEF IInv, IndexCached, SyncMessage, SyncSeqnums, CutBody, CutHeader, CutSession,
       StampSession, CreateSession, FillSession, Truncate, Put, Files, At
  <1>4. SeenNumbers' = SeenNumbers /\ InFile' = InFile
    BY <1>1, <1>2 DEF SeenNumbers, InFile, NumbersIn
  <1>5. Seen' = Seen BY <1>1, <1>3, EmptyHeader DEF Seen, SeenIndex
  <1> QED BY <1>4, <1>5, Invisible

\* A crash falls back to what the seqnums file says.
LEMMA CrashMaps == ASSUME IInv, CrashOnly, Crash PROVE Trait!Next
  <1>1. running /\ running' = FALSE /\ file' = file /\ pc \notin ResetSteps /\ offsets = Lines
    BY DEF Crash, MayStop, CrashOnly, IInv, IndexCached, ResetSteps
  <1>2. SeenIndex = Lines /\ SeenIndex' = Lines /\ SeenNumbers' = InFile /\ InFile' = InFile
    BY <1>1, FilesKept DEF SeenIndex, SeenNumbers, InFile, Lines
  <1>3. Seen' = Seen BY <1>1, <1>2 DEF Seen
  <1>4. Trait!Crash BY <1>2, <1>3 DEF Trait!Crash, Seen, InFile
  <1> QED BY <1>4 DEF Trait!Next

--------------------------------------------------------------------------------
LEMMA StepMaps == ASSUME CrashOnly, IInv, RawInv, [Next]_vars PROVE [Trait!Next]_(Trait!vars)
  <1>1. CASE Open \/ Refresh BY <1>1, LoadMaps
  <1>2. CASE \/ \E m \in Raw : SaveMessageAndIncr(m)
             \/ IncrNextSender \/ IncrNextTarget
             \/ \E which \in {"sender", "target"}, n \in 1..MaxSeq : SetNextNum(which, n)
             \/ Reset
    BY <1>2, OperationMaps
  <1>3. CASE Write
    BY <1>3, WriteBodyMaps, WriteHeaderMaps, IncrSenderMaps, WriteSeqnumsMaps, HiddenMaps DEF Write
  <1>4. CASE Fault
    <2>1. Crash
      BY <1>4 DEF Fault, CrashOnly, PowerLoss, WriteBack, BodyFails, HeaderFails
    <2> QED BY <2>1, CrashMaps
  <1>5. CASE UNCHANGED vars
    BY <1>5, FilesKept, SeenKept, Invisible DEF vars, SeenNumbers, InFile
  <1> QED BY <1>1, <1>2, <1>3, <1>4, <1>5 DEF Next, Operation

LEMMA InitMaps == ASSUME Init PROVE Trait!Init
  <1>1. running = FALSE /\ file = NoFiles BY DEF Init
  <1>2. NoFiles.header.lines = EmptyMap /\ NoFiles.seqnums = <<>> /\ DOMAIN EmptyMap = {}
    BY EmptyHeader DEF NoFiles
  <1>3. SeenNumbers = [sender |-> 1, target |-> 1] /\ InFile = SeenNumbers /\ SeenIndex = EmptyMap
    BY <1>1, <1>2 DEF SeenNumbers, InFile, NumbersIn, SeenIndex
  <1>4. Seen = [n \in {} |-> <<>>] BY <1>2, <1>3 DEF Seen
  <1> QED BY <1>3, <1>4 DEF Trait!Init, Seen, InFile

\* The chains of writes of FileStore, interrupted by crashes of the process,
\* implement the trait: a session sees every operation whole or not at all.
THEOREM FilesImplementTrait ==
  ASSUME CrashOnly
  PROVE  Spec => ImplementsTrait
  BY InitMaps, StepMaps, Invariant, RawInvariant, PTL DEF Spec, ImplementsTrait, Trait!Spec
================================================================================
