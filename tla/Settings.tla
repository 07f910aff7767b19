-------------------------------- MODULE Settings --------------------------------
(***************************************************************************)
(* Settings of src/settings.rs: parse reads the lines of a configuration   *)
(* one by one, session_configs lays every [SESSION] over the [DEFAULT]     *)
(* sections, and from_map checks and types the result.  Keys and values    *)
(* are strings; Numeric gives the strings that parse as numbers.  The      *)
(* keys of the two schedules are left to Schedule, and those that are      *)
(* copied as they are (paths, dictionaries, sub-identities) left out.      *)
(***************************************************************************)
EXTENDS Naturals, Sequences, FiniteSets, TLC

CONSTANTS
    Lines,      \* the lines a file may have: sections, keys, others
    Preamble,   \* the lines every file begins with
    MaxLines,   \* bound on the lines after them
    Numeric     \* string -> number

VARIABLES
    text,       \* the lines read so far
    sessions, defaults, current, in_default,    \* the locals of parse
    result      \* what parse and session_configs return, once they do

vars == <<text, sessions, defaults, current, in_default, result>>

Pending == [done |-> FALSE]
Error == [done |-> TRUE, ok |-> FALSE]

Section(name) == [kind |-> "section", name |-> name]
Key(key, value) == [kind |-> "key", key |-> key, value |-> value]
Comment == [kind |-> "comment"]
Malformed == [kind |-> "malformed"]

Empty == [key \in {} |-> ""]

--------------------------------------------------------------------------------
(***************************************************************************)
(* from_map: the typed configuration, or Error.                            *)
(***************************************************************************)
Begins == {"FIX.4.0", "FIX.4.1", "FIX.4.2", "FIX.4.3", "FIX.4.4", "FIXT.1.1"}
\* "begin_string < FIX.4.2", as strings.
WithoutMillis == {"FIX.4.0", "FIX.4.1"}

BoolKeys ==
    [key \in {"UseLocalTime", "NonStopSession", "ResetOnLogon", "ResetOnLogout", "ResetOnDisconnect",
              "RefreshOnLogon", "SendResetSeqNumFlag", "SendRedundantResendRequests",
              "EnableLastMsgSeqNumProcessed", "SendLogoutBeforeDisconnectFromTimeout",
              "SendNextExpectedMsgSeqNum", "SocketUseSSL", "SocketInsecureSkipVerify",
              "AllowUnknownMsgFields"} |-> FALSE]
    @@ [key \in {"PersistMessages", "CheckCompID", "CheckLatency", "ValidateLengthAndChecksum",
                 "UseDataDictionary", "RequiresOrigSendingTime", "ValidateFieldsOutOfOrder",
                 "ValidateFieldsHaveValues", "ValidateUserDefinedFields"} |-> TRUE]

NumberKeys == "ReconnectInterval" :> 30 @@ "LogonTimeout" :> 10 @@ "LogoutTimeout" :> 2
              @@ "MaxLatency" :> 120 @@ "MaxMessagesInResendRequest" :> 0

get_bool(m, key, default) == IF key \in DOMAIN m THEN m[key] = "Y" ELSE default
get_bool_ok(m, key) == key \in DOMAIN m => m[key] \in {"Y", "N"}
get_u64(m, key, default) == IF key \in DOMAIN m THEN Numeric[m[key]] ELSE default
get_u64_ok(m, key) == key \in DOMAIN m => m[key] \in DOMAIN Numeric

Initiates(m) == m["ConnectionType"] = "initiator"

Required(m) ==
    {"BeginString", "SenderCompID", "TargetCompID", "ConnectionType"}
    \cup (IF "ConnectionType" \notin DOMAIN m THEN {}
          ELSE IF Initiates(m) THEN {"HeartBtInt", "SocketConnectHost", "SocketConnectPort"}
          ELSE {"SocketAcceptPort"})
    \cup (IF "BeginString" \in DOMAIN m /\ m["BeginString"] = "FIXT.1.1" THEN {"DefaultApplVerID"} ELSE {})

PortKey(m) == IF Initiates(m) THEN "SocketConnectPort" ELSE "SocketAcceptPort"

\* The first key of the two is read, and the second only if it is not Y.
NextExpectedOk(m) ==
    \/ get_bool(m, "SendNextExpectedMsgSeqNum", FALSE)
    \/ get_bool_ok(m, "EnableNextExpectedMsgSeqNum")

PrecisionOk(m) ==
    IF "TimestampPrecision" \in DOMAIN m THEN m["TimestampPrecision"] \in {"0", "3", "6", "9"}
    ELSE get_bool_ok(m, "MillisecondsInTimeStamp")

Acceptable(m) ==
    /\ Required(m) \subseteq DOMAIN m
    /\ m["BeginString"] \in Begins
    /\ m["ConnectionType"] \in {"initiator", "acceptor"}
    /\ get_u64_ok(m, "HeartBtInt") /\ (Initiates(m) => Numeric[m["HeartBtInt"]] > 0)
    /\ m[PortKey(m)] \in DOMAIN Numeric /\ Numeric[m[PortKey(m)]] < 65536
    /\ PrecisionOk(m)
    /\ get_u64_ok(m, "HeartBtIntOverride")
    /\ \A key \in DOMAIN NumberKeys : get_u64_ok(m, key)
    /\ \A key \in DOMAIN BoolKeys : get_bool_ok(m, key)
    /\ NextExpectedOk(m)

Precision(m) ==
    IF "TimestampPrecision" \in DOMAIN m THEN m["TimestampPrecision"]
    ELSE IF get_bool(m, "MillisecondsInTimeStamp", TRUE) /\ m["BeginString"] \notin WithoutMillis
    THEN "3" ELSE "0"

Config(m) ==
    [begin_string |-> m["BeginString"],
     connection_type |-> m["ConnectionType"],
     heart_bt_int |-> get_u64(m, "HeartBtInt", 30),
     port |-> Numeric[m[PortKey(m)]],
     timestamp_precision |-> Precision(m),
     send_next_expected |-> \/ get_bool(m, "SendNextExpectedMsgSeqNum", FALSE)
                            \/ get_bool(m, "EnableNextExpectedMsgSeqNum", FALSE),
     flags |-> [key \in DOMAIN BoolKeys |-> get_bool(m, key, BoolKeys[key])],
     numbers |-> [key \in DOMAIN NumberKeys |-> get_u64(m, key, NumberKeys[key])]]

Merged(section) == section @@ defaults

\* session_configs: all of them, or an error.
session_configs(sections) ==
    IF \A i \in DOMAIN sections : Acceptable(Merged(sections[i]))
    THEN [done |-> TRUE, ok |-> TRUE, configs |-> [i \in DOMAIN sections |-> Config(Merged(sections[i]))]]
    ELSE Error

--------------------------------------------------------------------------------
(***************************************************************************)
(* parse                                                                   *)
(***************************************************************************)
Init == /\ text = <<>> /\ sessions = <<>> /\ defaults = Empty
        /\ current = {} /\ in_default = FALSE /\ result = Pending

\* current is a set of one map, or empty.
Keys == CHOOSE keys \in current : TRUE

\* A section that was open is complete.
Closed == IF current = {} THEN sessions ELSE Append(sessions, Keys)

Read(line) == /\ ~result.done
              /\ Len(text) < Len(Preamble) + MaxLines
              /\ text' = Append(text, line)

Fail == result' = Error /\ UNCHANGED <<sessions, defaults, current, in_default>>

\* Mutant: [DEFAULT] does not end the section before it.
ReadSectionLate(line) ==
    /\ line.kind = "section" /\ Read(line)
    /\ CASE line.name = "DEFAULT" -> /\ in_default' = TRUE
                                     /\ UNCHANGED <<sessions, current, defaults, result>>
         [] line.name = "SESSION" ->
              /\ sessions' = Closed /\ current' = {Empty} /\ in_default' = FALSE
              /\ UNCHANGED <<defaults, result>>
         [] OTHER -> Fail

ReadSection(line) ==
    /\ line.kind = "section" /\ Read(line)
    /\ CASE line.name = "DEFAULT" ->
              /\ sessions' = Closed /\ current' = {} /\ in_default' = TRUE
              /\ UNCHANGED <<defaults, result>>
         [] line.name = "SESSION" ->
              /\ sessions' = Closed /\ current' = {Empty} /\ in_default' = FALSE
              /\ UNCHANGED <<defaults, result>>
         [] OTHER -> Fail

ReadKey(line) ==
    /\ line.kind = "key" /\ Read(line)
    /\ IF current # {}
       THEN /\ current' = {(line.key :> line.value) @@ Keys}
            /\ UNCHANGED <<sessions, defaults, in_default, result>>
       ELSE IF in_default
       THEN /\ defaults' = (line.key :> line.value) @@ defaults
            /\ UNCHANGED <<sessions, current, in_default, result>>
       ELSE Fail

ReadOther(line) ==
    /\ line.kind \in {"comment", "malformed"} /\ Read(line)
    /\ IF line = Malformed THEN Fail
       ELSE UNCHANGED <<sessions, defaults, current, in_default, result>>

\* The end of the text; then the sessions are resolved.
Finish ==
    /\ ~result.done /\ Len(text) >= Len(Preamble)
    /\ sessions' = Closed /\ current' = {}
    /\ result' = session_configs(Closed)
    /\ UNCHANGED <<text, defaults, in_default>>

NextLine == IF Len(text) < Len(Preamble) THEN {Preamble[Len(text) + 1]} ELSE Lines

Next == \/ \E line \in NextLine : ReadSection(line) \/ ReadKey(line) \/ ReadOther(line)
        \/ Finish

Spec == Init /\ [][Next]_vars

--------------------------------------------------------------------------------
(***************************************************************************)
(* What a configuration says, read off its text.                           *)
(***************************************************************************)
Headers == {i \in DOMAIN text : text[i].kind = "section"}
SectionOf(i) == LET before == {h \in Headers : h <= i}
                IN  CHOOSE h \in before : \A g \in before : g <= h
SessionHeaders == {h \in Headers : text[h].name = "SESSION"}
Assigns(i, key) == text[i].kind = "key" /\ text[i].key = key

\* The value of a key for the session of a header: the last assignment in its
\* section, or else the last in any [DEFAULT] section, be it after it.
Says(h, key) ==
    LET own == {i \in DOMAIN text : Assigns(i, key) /\ SectionOf(i) = h}
        default == {i \in DOMAIN text : Assigns(i, key) /\ text[SectionOf(i)].name = "DEFAULT"}
        among == IF own # {} THEN own ELSE default
    IN  IF among = {} THEN "" ELSE text[CHOOSE i \in among : \A j \in among : j <= i].value

\* Every session gets what its section says, or else what [DEFAULT] says,
\* wherever the sections are, or else the documented default; no section is
\* lost, and a configuration that is accepted has no key whose value is not of
\* its type.
AsConfigured ==
    result.done /\ result.ok =>
        /\ Len(result.configs) = Cardinality(SessionHeaders)
        /\ \A h \in SessionHeaders :
            LET cfg == result.configs[Cardinality({g \in SessionHeaders : g <= h})]
            IN  /\ cfg.begin_string = Says(h, "BeginString")
                /\ cfg.connection_type = Says(h, "ConnectionType")
                /\ cfg.connection_type = "initiator" => cfg.heart_bt_int > 0
                /\ \A key \in DOMAIN cfg.flags :
                        CASE Says(h, key) = "Y" -> cfg.flags[key]
                          [] Says(h, key) = "N" -> ~cfg.flags[key]
                          [] OTHER -> Says(h, key) = "" /\ cfg.flags[key] = BoolKeys[key]
                /\ \A key \in DOMAIN cfg.numbers :
                        \/ Says(h, key) = "" /\ cfg.numbers[key] = NumberKeys[key]
                        \/ Says(h, key) \in DOMAIN Numeric /\ cfg.numbers[key] = Numeric[Says(h, key)]
                /\ cfg.begin_string \in WithoutMillis /\ Says(h, "TimestampPrecision") = ""
                     => cfg.timestamp_precision = "0"
================================================================================
