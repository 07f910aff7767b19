-------------------------------- MODULE MCCodec --------------------------------
(***************************************************************************)
(* What becomes of a message between two applications, for TLC: its        *)
(* building and parsing, its way through canonical order and validation,   *)
(* the typed fields of the generated modules, the framing of a stream, and *)
(* the loading of a dictionary.  A behaviour runs one of them; the others  *)
(* stay where they start.                                                  *)
(***************************************************************************)
EXTENDS DictionaryCheck, TypedFields

VARIABLES
    part,       \* which of them runs
    pieces, rest, buf, frames, pc,
    message, definition

stream_vars == <<pieces, rest, buf, frames, pc>>
load_vars == <<message, definition>>

--------------------------------------------------------------------------------
A == <<68>>
B == <<69, EQ>>
Orders == [num_tag |-> 73, member_tags |-> <<67, 37>>]
Parties == [num_tag |-> 453, member_tags |-> <<448, 802, 523>>]
MCTemplates == {Orders, Parties}

\* A message of any fields: 34 and 43 are header fields, 11 and 58 body fields;
\* SecureData, Signature and RawData, one of which holds what looks like a field.
Built == INSTANCE Message WITH
    Fields <- {Field(34, <<NumToken(1)>>), Field(43, A), Field(11, A), Field(58, B),
               Field(BEGIN_STRING, A)},
    Data <- {<<90, 91, <<SOH>>>>, <<93, 89, <<68, SOH>>>>,
             <<95, 96, <<SOH, TagToken(10), EQ, NumToken(1), SOH>>>>},
    GroupInstances <- {<<Field(67, A)>>, <<Field(67, B), Field(37, A)>>,
                       <<Field(448, A), Field(802, <<NumToken(1)>>), Field(523, B)>>},
    Hops <- {<<Field(628, A), Field(629, A)>>, <<Field(628, B), Field(629, B)>>},
    MaxOps <- 3

--------------------------------------------------------------------------------
\* A dictionary with two groups, and messages for it.
Free(type) == [type |-> type, values |-> {}]

MCTransport ==
    [fields |-> [t \in {8, 9, 10, 34, 35, 43, 627, 628, 629} |->
                    CASE t = 43 -> [type |-> "BOOLEAN", values |-> {<<YES>>, <<NO>>}]
                      [] t \in {9, 34, 627} -> Free("INT")
                      [] OTHER -> Free("STRING")],
     header_required |-> {8, 9, 35, 34}, trailer_required |-> {10},
     messages |-> [t \in {"A"} |-> [tags |-> {}, required |-> {}, groups |-> [c \in {} |-> c]]]]

Group(t) == [delimiter |-> t.member_tags[1], tags |-> ToSet(t.member_tags)]

MCApp ==
    [fields |-> [t \in {11, 18, 37, 58, 67, 73, 95, 96, 448, 453, 523, 802} |->
                    CASE t \in {67, 73, 95, 453, 802} -> Free("INT")
                      [] t = 18 -> [type |-> "MULTIPLEVALUESTRING", values |-> {<<68>>, <<69>>}]
                      [] OTHER -> Free("STRING")],
     header_required |-> {}, trailer_required |-> {},
     messages |-> [t \in {"E"} |->
                    [tags |-> {11, 18, 37, 58, 67, 73, 95, 96, 448, 453, 523, 802},
                     required |-> {11},
                     groups |-> [c \in {73, 453} |-> Group(IF c = 73 THEN Orders ELSE Parties)]]]]

MCSettings == [check_fields_out_of_order |-> TRUE, check_fields_have_values |-> TRUE,
               check_user_defined_fields |-> TRUE, allow_unknown_message_fields |-> FALSE]

MCFields == {Field(34, <<NumToken(1)>>), Field(11, A), Field(18, <<69, SPACE, 68>>)}
MCData == {<<95, 96, <<SOH, 68>>>>}
MCInstances == {<<Field(67, <<NumToken(1)>>), Field(37, A)>>,
                <<Field(448, A), Field(802, <<NumToken(1)>>), Field(523, A)>>}
MCHops == {}

--------------------------------------------------------------------------------
\* Values of every type for TypedFields, those at the ends of their range included.
Amount(negative, whole, scale) == [negative |-> negative, whole |-> whole, scale |-> scale]

MCSamples(type) ==
    CASE type = "String" -> {<<>>, <<65, 61, 233>>}
      [] type = "i64" -> {-Half, 0, Half - 1}
      [] type = "char" -> {65, 233}
      [] type = "bool" -> BOOLEAN
      [] type = "Amount" -> {Amount(FALSE, <<49>>, <<53, 48>>), Amount(TRUE, <<48>>, <<>>)}
      [] type = "FixDate" -> {<<2024, 2, 29>>, <<1999, 12, 31>>}
      [] type = "UtcTimestamp" ->
            [date : {<<2024, 2, 29>>}, second : {0, 86399}, fraction : {<<0, 1, 999>>}, precision : 0 .. 3]
      [] type = "Vec" -> {<<SOH, EQ>>, <<>>}

--------------------------------------------------------------------------------
\* The pieces of a stream.
Begin == <<"8", "=", "x", "|", "9", "=">>
End == <<"1", "0", "=", "0", "|">>
Whole(length, inside) == [bytes |-> Begin \o length \o <<"|">> \o inside \o End, message |-> TRUE]
Noise(bytes) == [bytes |-> bytes, message |-> FALSE]

\* A message without and with a body, one whose data field holds a checksum,
\* and one whose BodyLength is too small; garbage, a beginning without
\* BodyLength, one whose BodyLength is no number and one whose BodyLength is
\* too large for a usize.
MCNoise == {Noise(<<"x", "8">>), Noise(<<"8", "=", "x", "|">>),
            Noise(Begin \o <<"x", "|">>), Noise(Begin \o <<"9", "9", "|">>)}
MCPieces == MCNoise \cup
    {Whole(<<"0">>, <<>>), Whole(<<"2">>, <<"x", "|">>),
     Whole(<<"0", "7">>, <<"x", "|">> \o End), Whole(<<"1">>, <<"x", "|">>)}

\* Every stream; and short ones, for what happens in the end.
Stream == INSTANCE Framing WITH Pieces <- MCPieces, MaxPieces <- 3, Word <- 64
Short == INSTANCE Framing WITH
    Pieces <- MCNoise \cup {Whole(<<"0">>, <<>>)}, MaxPieces <- 2, Word <- 64

--------------------------------------------------------------------------------
\* Components, and children of a message.
Node(kind, name, required, children) ==
    [kind |-> kind, name |-> name, required |-> required, children |-> children]
FieldNode(name, required) == Node("field", name, required, <<>>)
Ref(name, required) == Node("component", name, required, <<>>)

MCComponents ==
    [name \in {"Inner", "Outer", "Parties"} |->
        CASE name = "Inner" -> <<FieldNode("symbol", TRUE), FieldNode("sid", FALSE)>>
          [] name = "Outer" -> <<FieldNode("side", TRUE), Ref("Inner", TRUE), Ref("Inner", FALSE)>>
          [] name = "Parties" ->
                <<Node("group", "nopartyids", TRUE,
                       <<FieldNode("partyid", TRUE),
                         Node("group", "nosubids", FALSE, <<FieldNode("subid", TRUE)>>)>>)>>]

MCNodes ==
    {FieldNode("clordid", TRUE), FieldNode("clordid", FALSE)}
    \cup {Ref(name, r) : name \in {"Inner", "Outer", "Parties"}, r \in BOOLEAN}
    \cup {Node("group", "noallocs", TRUE, <<FieldNode("account", FALSE), Ref("Parties", FALSE)>>),
          Node("group", "nolegs", FALSE, <<Ref("Inner", TRUE)>>)}

Loader == INSTANCE DictionaryLoad WITH
    Nodes <- MCNodes, Components <- MCComponents, MaxChildren <- 3, MaxDepth <- 5

--------------------------------------------------------------------------------
CodecInit ==
    /\ part \in {"message", "checked", "typed", "framing", "resync", "loading"}
    /\ TypedInit
    /\ IF part = "framing" THEN Stream!Init ELSE Short!Init
    /\ Loader!Init
    /\ part \notin {"framing", "resync"} => pieces = <<>>

CodecNext ==
    /\ UNCHANGED part
    /\ \/ part = "message" /\ Built!Next /\ UNCHANGED <<put, stream_vars, load_vars>>
       \/ part = "checked" /\ CheckNext /\ UNCHANGED <<put, stream_vars, load_vars>>
       \/ part = "typed" /\ TypedNext /\ UNCHANGED <<stream_vars, load_vars>>
       \/ /\ \/ part = "framing" /\ Stream!Next
             \/ part = "resync" /\ Short!Next
          /\ UNCHANGED <<vars, put, load_vars>>
       \/ part = "loading" /\ Loader!Next /\ UNCHANGED <<vars, put, stream_vars>>

\* The task of the framing gets on.
CodecSpec ==
    /\ CodecInit
    /\ [][CodecNext]_<<part, vars, put, stream_vars, load_vars>>
    /\ WF_stream_vars(part = "resync" /\ Short!Extract)

--------------------------------------------------------------------------------
\* Message::parse reads every message that Message::to_bytes writes, with the
\* fields that were set, and a stored message that retransmit parses and writes
\* again has its old bytes.
WireReadBack == part = "message" => Built!RoundTrip /\ Built!ResendIdentical

\* read_groups returns what write_groups wrote, before and after the wire.
GroupsKept == part = "message" => Built!GroupsReadBack

\* canonicalize_body keeps every group and every field, and validate accepts
\* what an engine with the same dictionary sends.
SentIsAccepted == part = "checked" => ProperIsAccepted /\ CanonicalKeepsGroups

\* get_field returns what set_field set, for every generated field, before and
\* after the wire.
TypedReadBack == part = "typed" => FieldReadsBack

\* extract_frame delivers every message whole and in order, however the stream
\* is cut and whatever garbage is between the messages.
DeliveredWhole == part = "framing" => Stream!DeliveredWhole

\* extract_frame comes to an end on every buffer.
Resyncs == part = "resync" => Short!Resyncs

\* DataDictionary::parse knows every field of a message and of its groups,
\* however deep; it requires a field exactly when the field and every component
\* around it are required, outside of groups; and it orders every field that no
\* group has as well.
DefinitionComplete ==
    part = "loading" => Loader!RequiredAsNested /\ Loader!TagsComplete /\ Loader!OrderComplete
================================================================================
