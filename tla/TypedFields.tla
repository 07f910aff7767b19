------------------------------ MODULE TypedFields ------------------------------
(***************************************************************************)
(* Fields set and read through the generated markers: set_field, set and   *)
(* get_field of src/field_map.rs with the markers of src/fix44/fields.rs,  *)
(* src/fix50/fields.rs and src/fixt11/fields.rs.  The sender sets one      *)
(* field, the message goes over the wire, and the receiver reads it with   *)
(* the markers of its session: those of FIX.4.4, or, under FIXT.1.1, those *)
(* of both layers.                                                         *)
(***************************************************************************)
EXTENDS Message, Value

F44 == INSTANCE Fix44Fields
F50 == INSTANCE Fix50Fields
FT11 == INSTANCE Fixt11Fields

CONSTANT Samples(_)     \* the values of a type that are set

VARIABLE put            \* history: what the sender set

typed_vars == <<vars, put>>

Nothing == [how |-> "nothing"]

--------------------------------------------------------------------------------
Versions == {"fix44", "fix50", "fixt11"}

Catalogue == [fix44 |-> F44!Fields_fix44, fix50 |-> F50!Fields_fix50, fixt11 |-> FT11!Fields_fixt11]

\* Who reads what is set through the markers of a version.
Readers(version) == IF version = "fix44" THEN {"fix44"} ELSE {"fix50", "fixt11"}

\* Set by to_bytes, whatever the message has.
Written == {BODY_LENGTH, CHECK_SUM}

--------------------------------------------------------------------------------
TypedInit == Init /\ put = Nothing

\* set_raw on the map the tag belongs to.  A data field is set after its
\* length, so that the receiver can tell where it ends.
SetAll(fields) ==
    LET in(map, is_of(_)) ==
            FoldLeft(LAMBDA m, f : IF is_of(f.tag) THEN set_raw(m, f.tag, f.value) ELSE m, map, fields)
    IN  /\ header' = in(header, is_header_tag)
        /\ body' = in(body, is_body_tag)
        /\ trailer' = in(trailer, is_trailer_tag)
        /\ UNCHANGED <<wrote, ops>>

LengthField(tag, value) ==
    LET length == CHOOSE t \in LengthTags : t = (IF tag = 89 THEN 93 ELSE tag - 1)
    IN  Field(length, <<NumToken(Len(value))>>)

\* set_field::<F>(v)
set_field(version, tag, v) ==
    LET type == Catalogue[version][tag].type
        value == Encode(type, v)
    IN  /\ put = Nothing
        /\ SetAll((IF type = "Vec" THEN <<LengthField(tag, value)>> ELSE <<>>) \o <<Field(tag, value)>>)
        /\ put' = [how |-> "field", version |-> version, tag |-> tag, v |-> v]

\* set(F::TAG, F::CONSTANT): a constant has the type of the field, or is a
\* string of two characters.
set_constant(version, tag) ==
    /\ put = Nothing
    /\ Catalogue[version][tag].consts = "wide"
    /\ SetAll(<<Field(tag, Encode("String", <<49, 48>>))>>)
    /\ put' = [how |-> "constant", version |-> version, tag |-> tag]

\* get_field::<F>() of the map the tag belongs to.
get_field(version, tag) ==
    LET map == IF is_header_tag(tag) THEN header ELSE IF is_trailer_tag(tag) THEN trailer ELSE body
    IN  IF contains(map, tag) THEN Decode(Catalogue[version][tag].type, get_raw(map, tag)) ELSE Invalid

\* The message is sent, and received; a garbled one is dropped.
Deliver ==
    /\ put # Nothing
    /\ \E msg \in {parse(wire, TRUE)} :
        IF msg.error THEN header' = <<>> /\ body' = <<>> /\ trailer' = <<>>
        ELSE header' = msg.header /\ body' = msg.body /\ trailer' = msg.trailer
    /\ UNCHANGED <<wrote, ops, put>>

TypedNext == \/ \E version \in Versions : \E tag \in DOMAIN Catalogue[version] \ Written :
                    \/ \E v \in Samples(Catalogue[version][tag].type) : set_field(version, tag, v)
                    \/ set_constant(version, tag)
             \/ Deliver

TypedSpec == TypedInit /\ [][TypedNext]_typed_vars

--------------------------------------------------------------------------------
\* What the sender and every reader of a field make of it.
Read == {get_field(version, put.tag) :
            version \in {v \in Readers(put.version) : put.tag \in DOMAIN Catalogue[v]}}

\* A time keeps what its precision covers.
Kept(v, type) ==
    IF type = "UtcTimestamp"
    THEN [v EXCEPT !.fraction = [i \in 1 .. 3 |-> IF i <= v.precision THEN v.fraction[i] ELSE 0]]
    ELSE v

\* A value set through the marker of any field of the three dictionaries is
\* the value that the marker reads, before and after the message went over the
\* wire, and under FIXT.1.1 whichever of the two layers' markers is used: the
\* types agree, every data field has a length field the parser knows, and no
\* tag changes its section.
FieldReadsBack ==
    put.how = "field" => Read = {Valued(Kept(put.v, Catalogue[put.version][put.tag].type))}
================================================================================
