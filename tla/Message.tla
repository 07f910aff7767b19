-------------------------------- MODULE Message --------------------------------
(***************************************************************************)
(* Message of src/message.rs, with the tag classes of src/tags.rs: a       *)
(* message that is built field by field, its wire form, and what parse     *)
(* makes of it.  A session parses what it receives, and parses and         *)
(* serializes again what it resends.                                       *)
(***************************************************************************)
EXTENDS FieldMap

CONSTANTS
    Fields,     \* fields the application may set
    Data,       \* <<length tag, data tag, contents>> of data fields it may push
    Templates,  \* repeating groups of the body it may write
    GroupInstances, \* the instances it may write
    Hops,       \* instances of the header's NoHops group ...
    MaxHops,    \* ... and bound on their number
    MaxOps,     \* bound on the operations
    Modulus     \* of the checksum: 256 in the code, here beyond every token,
                \* so that two tokens differ as two bytes do

ASSUME MessageAssumption == MaxOps \in Nat /\ MaxHops \in Nat /\ Modulus \in Nat \ {0}

VARIABLES
    header, body, trailer,      \* the three FieldMaps
    wrote,                      \* history: what write_groups wrote, by counter tag
    ops

vars == <<header, body, trailer, wrote, ops>>

--------------------------------------------------------------------------------
BEGIN_STRING == 8
BODY_LENGTH == 9
CHECK_SUM == 10
MSG_TYPE == 35
NO_HOPS == 627

is_header_tag(tag) ==
    tag \in {BEGIN_STRING, BODY_LENGTH, MSG_TYPE, 49, 56, 115, 128, 90, 91, 34, 50, 142, 57, 143,
             116, 144, 129, 145, 43, 97, 52, 122, 212, 213, 347, 369, NO_HOPS, 628, 629, 630,
             1128, 1129}

is_trailer_tag(tag) == tag \in {93, 89, CHECK_SUM}

LengthTags == {90, 93, 95, 212, 348, 350, 352, 354, 356, 358, 360, 362, 364, 445, 618, 621}

\* Mutant: every data tag is the one after its length tag.
data_tag_after_length_tag(tag) == IF tag \in LengthTags THEN tag + 1 ELSE None

\* The data tag is the one after its length tag, but for Signature.
data_tag_for_length_tag(tag) ==
    CASE tag \notin LengthTags -> None
      [] tag = 93 -> 89
      [] OTHER -> tag + 1

checksum(raw) ==
    LET sum[i \in 0 .. Len(raw)] == IF i = 0 THEN 0 ELSE sum[i - 1] + raw[i]
    IN  sum[Len(raw)] % Modulus

\* The first position at or after "from" that holds a token, or None.
NextToken(raw, from, token) ==
    IF \E i \in from .. Len(raw) : raw[i] = token
    THEN CHOOSE i \in from .. Len(raw) : raw[i] = token /\ \A j \in from .. i - 1 : raw[j] # token
    ELSE None

--------------------------------------------------------------------------------
(***************************************************************************)
(* parse: first the fields with their positions, then the sections.        *)
(***************************************************************************)
Garbled == [error |-> TRUE]

\* Where the value that starts at a position ends (its SOH), or None: a data
\* field has the length its length field declared.
ValueEnd(raw, val_start, tag, pending) ==
    IF pending # <<>> /\ pending[1] = tag
    THEN IF val_start + pending[2] <= Len(raw) /\ raw[val_start + pending[2]] = SOH
         THEN val_start + pending[2] ELSE None
    ELSE NextToken(raw, val_start, SOH)

\* What the next field is, if this one is a length.
Pending(tag, value) ==
    IF data_tag_for_length_tag(tag) # None /\ Number(value) # None
    THEN <<data_tag_for_length_tag(tag), Number(value)>> ELSE <<>>

\* The loop: the fields from a position on, each with its start; the last
\* one is Garbled if a field cannot be read.
FieldsOf(raw) ==
    LET from[pos \in 1 .. Len(raw) + 1, pending \in {<<>>} \cup (Nat \X Nat)] ==
            LET eq == NextToken(raw, pos, EQ)
                tag == raw[pos] - 10000
                end == ValueEnd(raw, eq + 1, tag, pending)
                value == SubSeq(raw, eq + 1, end - 1)
            IN  IF pos > Len(raw) THEN <<>>
                ELSE IF eq # pos + 1 \/ tag < 0 THEN <<Garbled>>
                ELSE IF end = None THEN <<Garbled>>
                ELSE <<[start |-> pos, error |-> FALSE, field |-> Field(tag, value)]>>
                        \o from[end + 1, Pending(tag, value)]
    IN  from[1, <<>>]

\* Enforce leading 8, 9, 35.
WellBegun(fields) ==
    \A i \in DOMAIN fields :
        i <= 3 => fields[i].field.tag = <<BEGIN_STRING, BODY_LENGTH, MSG_TYPE>>[i]

\* The fields with one of these tags.
Section(fields, tags) ==
    LET chosen == SelectSeq(fields, LAMBDA f : f.field.tag \in tags)
    IN  [i \in DOMAIN chosen |-> chosen[i].field]

is_body_tag(tag) == ~is_header_tag(tag) /\ ~is_trailer_tag(tag)

\* structure_error: some header field after the body or the trailer began, or
\* some body field after the trailer began.
OutOfOrder(fields) ==
    \E i, j \in DOMAIN fields :
        LET early == fields[i].field.tag
            late == fields[j].field.tag
        IN  i < j /\ \/ ~is_header_tag(early) /\ is_header_tag(late)
                     \/ is_trailer_tag(early) /\ is_body_tag(late)

\* field_end_of(raw, 1)
BodyFrom(raw) == NextToken(raw, NextToken(raw, 1, SOH) + 1, SOH) + 1

\* The declared length and checksum.
Valid(raw, fields) ==
    LET sums == {i \in DOMAIN fields : fields[i].field.tag = CHECK_SUM}
        last == fields[CHOOSE i \in sums : \A j \in sums : j <= i]
        first == fields[CHOOSE i \in sums : \A j \in sums : i <= j]
        lengths == Section(fields, {BODY_LENGTH})
    IN  /\ sums # {}
        /\ lengths # <<>>
        /\ Number(lengths[1].value) = last.start - BodyFrom(raw)
        /\ Number(first.field.value) = checksum(SubSeq(raw, 1, last.start - 1))

parse(raw, validate) ==
    LET fields == FieldsOf(raw)
        tags == {fields[i].field.tag : i \in DOMAIN fields}
    IN  IF \/ fields # <<>> /\ Last(fields).error
           \/ ~WellBegun(fields)
           \/ validate /\ ~Valid(raw, fields)
        THEN Garbled
        ELSE [error |-> FALSE, structure_error |-> OutOfOrder(fields),
              header |-> Section(fields, {t \in tags : is_header_tag(t)}),
              body |-> Section(fields, {t \in tags : is_body_tag(t)}),
              trailer |-> Section(fields, {t \in tags : is_trailer_tag(t)})]

--------------------------------------------------------------------------------
\* sort_by_key on the tag: a stable sort.
SortByTag(fields, ascending) ==
    LET order == Sorted({fields[i].tag : i \in DOMAIN fields}, LAMBDA x, y : x # y /\ (x < y <=> ascending))
    IN  FlattenSeq([k \in DOMAIN order |-> SelectSeq(fields, LAMBDA f : f.tag = order[k])])

Except(fields, tags) == SelectSeq(fields, LAMBDA f : f.tag \notin tags)

to_bytes(h, b, t) ==
    LET type == IF contains(h, MSG_TYPE) THEN <<Field(MSG_TYPE, get_raw(h, MSG_TYPE))>> ELSE <<>>
        inner == write_to(type)
                 \o write_to(SortByTag(Except(h, {BEGIN_STRING, BODY_LENGTH, MSG_TYPE}), TRUE))
                 \o write_to(b)
                 \o write_to(SortByTag(Except(t, {CHECK_SUM}), FALSE))
        begin == IF contains(h, BEGIN_STRING) THEN get_raw(h, BEGIN_STRING) ELSE <<44>>
        out == write_to(<<Field(BEGIN_STRING, begin),
                          Field(BODY_LENGTH, <<NumToken(Len(inner))>>)>>) \o inner
    IN  out \o write_tag_value(Field(CHECK_SUM, <<NumToken(checksum(out))>>))

wire == to_bytes(header, body, trailer)

--------------------------------------------------------------------------------
(***************************************************************************)
(* Building a message.                                                     *)
(***************************************************************************)
\* Message::with_type
Init == /\ header = <<Field(MSG_TYPE, <<68>>)>>
        /\ body = <<>>
        /\ trailer = <<>>
        /\ wrote = [n \in {} |-> <<>>]
        /\ ops = 0

Count == ops < MaxOps /\ ops' = ops + 1

SetHeader(f) == /\ Count /\ is_header_tag(f.tag)
                /\ header' = set_raw(header, f.tag, f.value)
                /\ UNCHANGED <<body, trailer, wrote>>

SetBody(f) == /\ Count /\ is_body_tag(f.tag)
              /\ body' = set_raw(body, f.tag, f.value)
              /\ UNCHANGED <<header, trailer, wrote>>

\* FieldMap::push, which keeps duplicates.
PushBody(f) == /\ Count /\ is_body_tag(f.tag)
               /\ body' = Append(body, f)
               /\ UNCHANGED <<header, trailer, wrote>>

RemoveField(f) == /\ Count /\ contains(body, f.tag)
             /\ body' = remove(body, f.tag)
             /\ UNCHANGED <<header, trailer, wrote>>

\* A length field with its data field, in the section of their tags.
PushData(d) ==
    LET pair == <<Field(d[1], <<NumToken(Len(d[3]))>>), Field(d[2], d[3])>>
    IN  /\ Count
        /\ CASE is_header_tag(d[1]) -> /\ ~contains(header, d[1])
                                       /\ header' = header \o pair
                                       /\ UNCHANGED <<body, trailer>>
             [] is_trailer_tag(d[1]) -> /\ ~contains(trailer, d[1])
                                        /\ trailer' = trailer \o pair
                                        /\ UNCHANGED <<header, body>>
             [] OTHER -> /\ ~contains(body, d[1])
                         /\ body' = body \o pair
                         /\ UNCHANGED <<header, trailer>>
        /\ UNCHANGED wrote

Groups(template) == {g \in BoundedSeq(GroupInstances, 2) :
                        \A i \in DOMAIN g : g[i][1].tag = delimiter(template)}

Wrote(num_tag, groups) ==
    wrote' = [n \in DOMAIN wrote \cup {num_tag} |->
                IF n # num_tag THEN wrote[n]
                ELSE IF n \in DOMAIN wrote THEN Append(wrote[n], groups) ELSE <<groups>>]

WriteGroups(template, groups) ==
    /\ Count
    /\ body' = write_groups(body, template, groups)
    /\ Wrote(template.num_tag, groups)
    /\ UNCHANGED <<header, trailer>>

HopsTemplate == [num_tag |-> NO_HOPS, member_tags |-> <<628, 629, 630>>]

WriteHops(groups) ==
    /\ Count
    /\ header' = write_groups(header, HopsTemplate, groups)
    /\ Wrote(NO_HOPS, groups)
    /\ UNCHANGED <<body, trailer>>

\* The message is what was received, or stored and read back for a resend; a
\* garbled one is dropped.
Reparse ==
    LET msg == parse(wire, TRUE)
    IN  /\ Count /\ ~msg.error
        /\ header' = msg.header
        /\ body' = msg.body
        /\ trailer' = msg.trailer
        /\ UNCHANGED wrote

Next == \/ \E f \in Fields : SetHeader(f) \/ SetBody(f) \/ PushBody(f) \/ RemoveField(f)
        \/ \E d \in Data : PushData(d)
        \/ \E t \in Templates : \E g \in Groups(t) : WriteGroups(t, g)
        \/ \E g \in BoundedSeq(Hops, MaxHops) : WriteHops(g)
        \/ Reparse

Spec == Init /\ [][Next]_vars

--------------------------------------------------------------------------------
Values(fields, tag) ==
    LET of_tag == SelectSeq(fields, LAMBDA f : f.tag = tag)
    IN  [i \in DOMAIN of_tag |-> of_tag[i].value]

SameFields(f, g, tags) == \A tag \in tags : Values(f, tag) = Values(g, tag)

Tags(fields) == {fields[i].tag : i \in DOMAIN fields}

\* What is sent can be read by the peer: every message this engine builds
\* passes the checks of parse, is in section order, and carries the fields
\* that were set: the body in its order, the header and the trailer with the
\* values of every tag in their order, data fields with SOH and '=' in them
\* included.
RoundTrip ==
    LET msg == parse(wire, TRUE)
    IN  /\ ~msg.error
        /\ ~msg.structure_error
        /\ msg.body = body
        /\ SameFields(msg.header, header, Tags(header) \ {BODY_LENGTH})
        /\ SameFields(msg.trailer, trailer, Tags(trailer) \ {CHECK_SUM})

\* A message that was stored and is sent again has the bytes it had: parse
\* and to_bytes lose nothing, so a resend differs only in what it sets.
ResendIdentical ==
    LET msg == parse(wire, TRUE)
    IN  ~msg.error /\ to_bytes(msg.header, msg.body, msg.trailer) = wire

WrittenOnce(template) == template.num_tag \in DOMAIN wrote /\ Len(wrote[template.num_tag]) = 1

\* The instances of a repeating group that was written once are read as they
\* were written, whatever is set before and after them and however often the
\* message is parsed.  The group of the header, which to_bytes sorts by tag,
\* is if it has one instance.
GroupsReadBack ==
    /\ \A t \in Templates : WrittenOnce(t) => read_groups(body, t) = wrote[t.num_tag][1]
    /\ WrittenOnce(HopsTemplate) /\ Len(wrote[NO_HOPS][1]) <= 1 =>
            read_groups(header, HopsTemplate) = wrote[NO_HOPS][1]
================================================================================
