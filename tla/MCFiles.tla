-------------------------------- MODULE MCFiles --------------------------------
(***************************************************************************)
(* The files of an engine, for TLC: the file store under crashes, under    *)
(* power loss (with FileStoreSync) and on a full disk, the memory store    *)
(* that can take its place, the rotated log, and the settings.  They share *)
(* nothing.  A behaviour runs one of them; the others stay where they      *)
(* start.                                                                  *)
(***************************************************************************)
EXTENDS FileStore, TLC

VARIABLES
    part,       \* which of them runs
    running2, cache2, offsets2, body_len2, file2, disk2, pc2, raw2, kept2,
    next_sender, next_target, messages, saves, set_back,
    files, handle, size, line, log_pc, n, written, faults,
    text, sections, defaults, current, in_default, result

\* Messages of different lengths, so that a wrong offset shows.
MCByte == {"a1", "a2", "b1"}
MCRaw == {<<"a1", "a2">>, <<"b1">>}

\* FileStoreSync=Y against power loss; the store when the disk fills up.
Power == INSTANCE FileStore WITH
    Sync <- TRUE, Faults <- {"power_loss"}, Ops <- {"save", "numbers", "refresh"},
    running <- running2, cache <- cache2, offsets <- offsets2, body_len <- body_len2,
    file <- file2, disk <- disk2, pc <- pc2, raw <- raw2, kept <- kept2
Full == INSTANCE FileStore WITH
    Faults <- {"crash", "io_error"}, MaxBody <- 4,
    running <- running2, cache <- cache2, offsets <- offsets2, body_len <- body_len2,
    file <- file2, disk <- disk2, pc <- pc2, raw <- raw2, kept <- kept2

Memory == INSTANCE MemoryStore WITH capacity <- 2, MaxSeq <- 6, MaxSaves <- 5

Log == INSTANCE LogRotation WITH
    MaxSize <- 4, MaxBackups <- 3, LineSizes <- {2, 5}, MaxLines <- 6, MaxFaults <- 2,
    pc <- log_pc

--------------------------------------------------------------------------------
\* Lines from which sessions with defaults, mistakes and repetitions arise.
Section(name) == [kind |-> "section", name |-> name]
Key(key, value) == [kind |-> "key", key |-> key, value |-> value]
Comment == [kind |-> "comment"]

MCNumeric == "0" :> 0 @@ "30" :> 30 @@ "70000" :> 70000

\* The keys an acceptor needs, and an initiator but for HeartBtInt; one session.
MCPreamble == <<Comment, Section("DEFAULT"), Key("SenderCompID", "A"), Key("TargetCompID", "B"),
                Key("BeginString", "FIX.4.0"), Key("ConnectionType", "acceptor"),
                Key("SocketAcceptPort", "30"), Key("SocketConnectHost", "h"),
                Key("SocketConnectPort", "30"), Section("SESSION")>>

MCLines == {Section("DEFAULT"), Section("SESSION"), Section("OTHER"), Comment, [kind |-> "malformed"],
            Key("BeginString", "FIXT.1.1"), Key("DefaultApplVerID", "9"),
            Key("ConnectionType", "initiator"), Key("HeartBtInt", "0"), Key("HeartBtInt", "30"),
            Key("SocketAcceptPort", "70000"),
            Key("ResetOnLogon", "Y"), Key("ResetOnLogon", "x"), Key("CheckLatency", "N"),
            Key("MaxLatency", "0"), Key("MillisecondsInTimeStamp", "Y")}

TheSettings == INSTANCE Settings WITH
    Lines <- MCLines, Preamble <- MCPreamble, MaxLines <- 4, Numeric <- MCNumeric,
    sessions <- sections

--------------------------------------------------------------------------------
files2 == <<running2, cache2, offsets2, body_len2, file2, disk2, pc2, raw2, kept2>>
memory_vars == <<next_sender, next_target, messages, saves, set_back>>
settings_vars == <<text, sections, defaults, current, in_default, result>>
log_vars == <<files, handle, size, line, log_pc, n, written, faults>>

FilesInit ==
    /\ part \in {"crash", "power", "full", "memory", "log", "settings"}
    /\ Init /\ Power!Init /\ Memory!Init /\ Log!Init /\ TheSettings!Init

FilesNext ==
    /\ UNCHANGED part
    /\ \/ part = "crash" /\ Next /\ UNCHANGED <<files2, memory_vars, log_vars, settings_vars>>
       \/ part = "power" /\ Power!Next /\ UNCHANGED <<vars, memory_vars, log_vars, settings_vars>>
       \/ part = "full" /\ Full!Next /\ UNCHANGED <<vars, memory_vars, log_vars, settings_vars>>
       \/ part = "memory" /\ Memory!Next /\ UNCHANGED <<vars, files2, log_vars, settings_vars>>
       \/ part = "log" /\ Log!Next /\ UNCHANGED <<vars, files2, memory_vars, settings_vars>>
       \/ part = "settings" /\ TheSettings!Next /\ UNCHANGED <<vars, files2, memory_vars, log_vars>>

FilesSpec == FilesInit /\ [][FilesNext]_<<part, vars, files2, memory_vars, log_vars, settings_vars>>

--------------------------------------------------------------------------------
\* With FileStoreSync=Y a power loss at any moment, whatever the operating
\* system had written back by then, leaves every message that was counted
\* readable and, once an operation has returned, the numbers in memory.  A full
\* disk, which fails an append half way, does not part the numbers in memory
\* from those in the file: the failed operation took none.
FaultsSurvived == /\ part = "power" => Power!ResendIntact /\ Power!NumbersSurvive
                  /\ part = "full" => Full!NumbersSurvive

\* MemoryStore::trim keeps the store within its capacity, and in it what a peer
\* is most likely to ask for again.
MemoryKept == Memory!MemoryKept

\* RotatingFile::rotate and write_line: whatever fails or stops a rotation half
\* way, the newest lines stay, none twice or out of order; lines are dropped
\* only from beyond max_backups, and every file stays within the limit.
LogKept == Log!RecentKept /\ Log!InOrder /\ Log!DropsOnlyBeyond /\ Log!SizeBound

\* Settings::parse and session_configs give every session what its section, or
\* else [DEFAULT], or else the built-in default says.
AsConfigured == TheSettings!AsConfigured
================================================================================
