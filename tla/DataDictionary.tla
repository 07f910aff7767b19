----------------------------- MODULE DataDictionary -----------------------------
(***************************************************************************)
(* src/datadictionary.rs on a dictionary that is loaded (DictionaryLoad    *)
(* models how): the merge of a transport and an application dictionary,    *)
(* the canonical order of a body, and the validation of a message.         *)
(*                                                                         *)
(* A dictionary is a record with                                           *)
(*   fields            tag -> [type, values]; values is empty if any goes  *)
(*   header_required, trailer_required                                     *)
(*   messages          type -> [tags, required, groups], where groups maps *)
(*                     a counter to [delimiter, tags]                      *)
(* A message is a record with header, body and trailer, FieldMaps, and     *)
(* structure_error.                                                        *)
(***************************************************************************)
EXTENDS FieldMap

USER_DEFINED_TAG_MIN == 5000
SPACE == 32
YES == 89
NO == 78
MALFORMED == 33     \* stands for what a decimal or a time cannot be read from

\* HashMap entry().or_insert: what the transport dictionary says stays.
OrInsert(f, g) == [x \in DOMAIN f \cup DOMAIN g |-> IF x \in DOMAIN f THEN f[x] ELSE g[x]]

merged_with_app(transport, app) ==
    [transport EXCEPT !.fields = OrInsert(@, app.fields),
                      !.messages = OrInsert(@, app.messages)]

--------------------------------------------------------------------------------
\* Where the segment of a body that begins at a position ends: a counter takes
\* the fields of its group with it.
SegmentEnd(fields, def, i) ==
    IF fields[i].tag \notin DOMAIN def.groups THEN i
    ELSE CHOOSE j \in i .. Len(fields) :
            /\ \A k \in i + 1 .. j : fields[k].tag \in def.groups[fields[i].tag].tags
            /\ j < Len(fields) => fields[j + 1].tag \notin def.groups[fields[i].tag].tags

\* The segments from the first field on.
Segments(fields, def) ==
    LET from[i \in 1 .. Len(fields) + 1] ==
            IF i > Len(fields) THEN <<>>
            ELSE <<SubSeq(fields, i, SegmentEnd(fields, def, i))>>
                    \o from[SegmentEnd(fields, def, i) + 1]
    IN  from[1]

\* canonicalize_body: a stable sort of the segments by their first tag.
canonicalize_body(dd, type, fields) ==
    IF type \notin DOMAIN dd.messages THEN fields
    ELSE LET segments == Segments(fields, dd.messages[type])
             order == Sorted({segments[k][1].tag : k \in DOMAIN segments}, <)
         IN  FlattenSeq([n \in DOMAIN order |->
                FlattenSeq(SelectSeq(segments, LAMBDA s : s[1].tag = order[n]))])

group_template(dd, type, counter) ==
    LET group == dd.messages[type].groups[counter]
    IN  [num_tag |-> counter,
         member_tags |-> <<group.delimiter>>
                         \o Sorted(group.tags \ {group.delimiter}, <)]

--------------------------------------------------------------------------------
(***************************************************************************)
(* validate, as the sequence of its checks.  A check is the set of reasons *)
(* it may give: where the code walks a hash map, the first of several      *)
(* failures is not determined.                                             *)
(***************************************************************************)
MissingRequired(fields, required) ==
    IF \A tag \in required : contains(fields, tag) THEN {} ELSE {"RequiredTagMissing"}

\* A group's first entry must begin with its delimiter.
FirstEntries(body, def) ==
    IF \E i \in 1 .. Len(body) - 1 :
        /\ body[i].tag \in DOMAIN def.groups
        /\ Number(get_raw(body, body[i].tag)) \notin {None, 0}
        /\ body[i + 1].tag \in def.groups[body[i].tag].tags
        /\ body[i + 1].tag # def.groups[body[i].tag].delimiter
    THEN {"Other"} ELSE {}

GroupTags(def) == UNION {def.groups[c].tags : c \in DOMAIN def.groups}

\* Mutant: the members of groups may not repeat either.
DuplicatesAnywhere(body, def) ==
    IF \E i, j \in DOMAIN body : i # j /\ body[i].tag = body[j].tag
    THEN {"TagAppearsMoreThanOnce"} ELSE {}

Duplicates(body, def) ==
    IF \E i, j \in DOMAIN body :
        i # j /\ body[i].tag = body[j].tag /\ body[i].tag \notin GroupTags(def)
    THEN {"TagAppearsMoreThanOnce"} ELSE {}

\* The declared count against the delimiters anywhere in the body.
GroupCounts(body, def) ==
    LET wrong(c) == Number(get_raw(body, c)) #
                    Len(SelectSeq(body, LAMBDA f : f.tag = def.groups[c].delimiter))
    IN  {IF Number(get_raw(body, c)) = None THEN "IncorrectDataFormat" ELSE "IncorrectNumInGroup" :
            c \in {c \in DOMAIN def.groups : contains(body, c) /\ wrong(c)}}

\* check_format
WellFormed(type, value) ==
    CASE type = "INT" -> Number(value) # None
      [] type = "CHAR" -> Len(value) = 1 /\ Number(value) < 10
      [] type = "BOOLEAN" -> value \in {<<YES>>, <<NO>>}
      [] type = "DAYOFMONTH" -> Number(value) \in 1..31
      [] type \in {"FLOAT", "UTCTIMESTAMP", "UTCDATEONLY", "MONTHYEAR"} ->
            value # <<>> /\ MALFORMED \notin ToSet(value)
      [] OTHER -> TRUE

\* v.split(' ')
Parts(value) ==
    LET cuts == Sorted({0, Len(value) + 1} \cup {i \in DOMAIN value : value[i] = SPACE}, <)
    IN  {SubSeq(value, cuts[k] + 1, cuts[k + 1] - 1) : k \in 1 .. Len(cuts) - 1}

\* check_field
FieldReason(dd, f, is_body, def, settings) ==
    CASE f.tag >= USER_DEFINED_TAG_MIN /\ ~settings.check_user_defined_fields -> {}
      [] settings.check_fields_have_values /\ f.value = <<>> -> {"TagSpecifiedWithoutAValue"}
      [] f.tag \notin DOMAIN dd.fields ->
            IF settings.allow_unknown_message_fields THEN {} ELSE {"InvalidTagNumber"}
      [] /\ is_body /\ ~settings.allow_unknown_message_fields
         /\ f.tag \notin def.tags /\ f.tag < USER_DEFINED_TAG_MIN -> {"TagNotDefinedForType"}
      [] ~WellFormed(dd.fields[f.tag].type, f.value) -> {"IncorrectDataFormat"}
      [] OTHER -> IF dd.fields[f.tag].values = {} \/ Parts(f.value) \subseteq dd.fields[f.tag].values
                  THEN {} ELSE {"ValueIsIncorrect"}

\* The first field, in the order header, body, trailer, that fails.
FieldReasons(dd, msg, def, settings) ==
    LET all == msg.header \o msg.body \o msg.trailer
        reason(i) == FieldReason(dd, all[i],
                        i > Len(msg.header) /\ i <= Len(msg.header) + Len(msg.body), def, settings)
        bad == {i \in DOMAIN all : reason(i) # {}}
    IN  IF bad = {} THEN {} ELSE reason(CHOOSE i \in bad : \A j \in bad : i <= j)

\* validate: the reasons of the first check that fails; empty if none does.
\* XMLnonFIX is accepted without a definition.
validate(dd, type, msg, settings) ==
    IF type = "n" THEN {}
    ELSE IF type \notin DOMAIN dd.messages THEN {"InvalidMsgType"}
    ELSE LET def == dd.messages[type]
             checks == <<IF settings.check_fields_out_of_order /\ msg.structure_error
                         THEN {"TagOutOfOrder"} ELSE {},
                         FirstEntries(msg.body, def),
                         MissingRequired(msg.header, dd.header_required),
                         MissingRequired(msg.trailer, dd.trailer_required),
                         MissingRequired(msg.body, def.required),
                         Duplicates(msg.body, def),
                         GroupCounts(msg.body, def),
                         FieldReasons(dd, msg, def, settings)>>
             failing == {i \in DOMAIN checks : checks[i] # {}}
         IN  IF failing = {} THEN {}
             ELSE checks[CHOOSE i \in failing : \A j \in failing : i <= j]
================================================================================
