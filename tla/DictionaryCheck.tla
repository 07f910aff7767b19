---------------------------- MODULE DictionaryCheck ----------------------------
(***************************************************************************)
(* A message on its way from one engine to another that uses the same      *)
(* dictionary: built field by field (Message), put into canonical order    *)
(* when it is sent (send_message of src/session.rs), parsed and validated  *)
(* when it arrives (process of src/session.rs).                            *)
(***************************************************************************)
EXTENDS Message, DataDictionary

CONSTANTS
    Transport, App,     \* the dictionaries of a FIXT session
    Type,               \* the MsgType of the message
    Settings            \* ValidationSettings

dictionary == merged_with_app(Transport, App)
def == dictionary.messages[Type]

\* send_message, before to_bytes.
Canonicalize ==
    /\ Count
    /\ body' = canonicalize_body(dictionary, Type, body)
    /\ UNCHANGED <<header, trailer, wrote>>

CheckNext == Next \/ Canonicalize
CheckSpec == Init /\ [][CheckNext]_vars

Received == parse(wire, TRUE)
Accepted == validate(dictionary, Type, Received, Settings) = {}

--------------------------------------------------------------------------------
\* What a sender has to see to: the required fields, no field twice outside a
\* group and nothing that belongs into a group outside it.
Outside == {i \in DOMAIN body :
                \A t \in Templates : WrittenOnce(t) =>
                    LET pos == position(body, t.num_tag)
                    IN  i \notin pos + 1 .. pos + Len(GroupSection(body, t, pos))}

Proper ==
    /\ \A tag \in def.required : contains(body, tag)
    /\ \A i, j \in Outside : body[i].tag = body[j].tag => i = j
    /\ \A i \in Outside : body[i].tag \notin GroupTags(def)
    /\ \A tag \in dictionary.header_required \ {BEGIN_STRING, BODY_LENGTH} : contains(header, tag)
    /\ \A i \in DOMAIN body : body[i].tag \in def.tags

\* An engine accepts what an engine with the same dictionary sends: canonical
\* order, groups and data fields pass the validation of the receiver.
ProperIsAccepted == Proper => Accepted

\* Canonical order keeps every repeating group that was written once as it
\* was written, and keeps every field ("each repeating-group block kept
\* intact"), for who reads it with the template of the dictionary.
CanonicalKeepsGroups ==
    LET sorted == canonicalize_body(dictionary, Type, body)
    IN  /\ \A t \in Templates : WrittenOnce(t) =>
                read_groups(sorted, group_template(dictionary, Type, t.num_tag)) = wrote[t.num_tag][1]
        /\ SameFields(sorted, body, Tags(body))
================================================================================
