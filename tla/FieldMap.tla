-------------------------------- MODULE FieldMap --------------------------------
(***************************************************************************)
(* FieldMap and GroupTemplate of src/field_map.rs: a sequence of fields,   *)
(* and repeating groups kept flat inside it.                               *)
(*                                                                         *)
(* What is on the wire is a sequence of tokens, each a number: a tag, '=', *)
(* SOH, a decimal number, or any other byte.                               *)
(***************************************************************************)
EXTENDS Integers, Sequences, SequencesExt, FiniteSets

SOH == 1
EQ == 61
TagToken(tag) == 10000 + tag
NumToken(n) == 100000 + n

\* str::parse of a value: the number, or None.
None == -1
Number(value) ==
    IF Len(value) = 1 /\ value[1] >= 100000 THEN value[1] - 100000 ELSE None

\* The elements of a set in an order: the k-th one has k - 1 before it.
Sorted(S, before(_, _)) ==
    [k \in 1 .. Cardinality(S) |-> CHOOSE x \in S : Cardinality({y \in S : before(y, x)}) = k - 1]

Field(tag, value) == [tag |-> tag, value |-> value]

contains(fields, tag) == \E i \in DOMAIN fields : fields[i].tag = tag
position(fields, tag) ==
    CHOOSE i \in DOMAIN fields : fields[i].tag = tag /\ \A j \in 1 .. i - 1 : fields[j].tag # tag
get_raw(fields, tag) == fields[position(fields, tag)].value

set_raw(fields, tag, value) ==
    IF contains(fields, tag)
    THEN [fields EXCEPT ![position(fields, tag)].value = value]
    ELSE Append(fields, Field(tag, value))

remove(fields, tag) == SelectSeq(fields, LAMBDA f : f.tag # tag)

\* write_tag_value, and write_to for a sequence of fields.
write_tag_value(f) == <<TagToken(f.tag), EQ>> \o f.value \o <<SOH>>
write_to(fields) == FlattenSeq([i \in DOMAIN fields |-> write_tag_value(fields[i])])

--------------------------------------------------------------------------------
\* A template is the counter's tag and the member tags, the delimiter first.
delimiter(template) == template.member_tags[1]
is_member(template, tag) == tag \in ToSet(template.member_tags)

\* Mutant: only the tags that follow a delimiter directly are taken.
GroupSectionOneField(fields, template, pos) ==
    LET after == SubSeq(fields, pos + 1, Len(fields))
        stops == {i \in DOMAIN after : after[i].tag # delimiter(template)}
    IN  IF stops = {} THEN after
        ELSE SubSeq(after, 1, (CHOOSE i \in stops : \A j \in stops : i <= j) - 1)

\* The fields after the counter up to the first that is not a member.
GroupSection(fields, template, pos) ==
    LET after == SubSeq(fields, pos + 1, Len(fields))
        stops == {i \in DOMAIN after :
                    \/ ~is_member(template, after[i].tag)
                    \/ i = 1 /\ after[i].tag # delimiter(template)}
    IN  IF stops = {} THEN after
        ELSE SubSeq(after, 1, (CHOOSE i \in stops : \A j \in stops : i <= j) - 1)

\* A group instance begins at every delimiter.
Instances(section, template) ==
    LET starts == Sorted({i \in DOMAIN section : section[i].tag = delimiter(template)}, <)
    IN  [k \in DOMAIN starts |->
            SubSeq(section, starts[k],
                   IF k = Len(starts) THEN Len(section) ELSE starts[k + 1] - 1)]

\* The error of read_groups; no field has the tag 0.
Failed == <<<<Field(0, <<>>)>>>>

\* read_groups: the instances, or Failed.
read_groups(fields, template) ==
    IF ~contains(fields, template.num_tag) THEN <<>>
    ELSE LET pos == position(fields, template.num_tag)
             groups == Instances(GroupSection(fields, template, pos), template)
         IN  IF Number(fields[pos].value) = Len(groups) THEN groups ELSE Failed

write_groups(fields, template, groups) ==
    set_raw(fields, template.num_tag, <<NumToken(Len(groups))>>) \o FlattenSeq(groups)
================================================================================
