---------------------------- MODULE DictionaryLoad ----------------------------
(***************************************************************************)
(* DataDictionary::parse of src/datadictionary.rs after the XML is read:   *)
(* how the definition of a message is collected from its fields, the       *)
(* components it refers to and its groups.                                 *)
(*                                                                         *)
(* A node is [kind, name, required, children].  Children of a component    *)
(* reference are found under its name in the components; a field or group  *)
(* name stands for its tag.                                                *)
(***************************************************************************)
EXTENDS Integers, Sequences, SequencesExt, FiniteSets

CONSTANTS
    Nodes,          \* what a message may consist of
    Components,     \* name -> its children
    MaxChildren,    \* bound on the children of the message
    MaxDepth        \* at least the depth of the nodes, with their components

VARIABLES
    message,        \* the children of the message read so far
    definition      \* its MessageDef

vars == <<message, definition>>

Empty == [tags |-> {}, required |-> {}, groups |-> [c \in {} |-> c], field_order |-> <<>>]

RECURSIVE collect_group(_, _)
RECURSIVE collect(_, _)

\* One child of a group; the group is [tags, member_order, required, groups].
\* The required attribute of a component is not looked at.
GroupMember(group, c) ==
    LET nested == collect_group([tags |-> {}, member_order |-> <<>>, required |-> {},
                                 groups |-> [x \in {} |-> x]], c.children)
        named == [group EXCEPT !.tags = @ \cup {c.name},
                               !.member_order = Append(@, c.name),
                               !.required = IF c.required THEN @ \cup {c.name} ELSE @]
    IN  CASE c.kind = "field" -> named
          [] c.kind = "component" -> collect_group(group, Components[c.name])
          [] c.kind = "group" ->
                [named EXCEPT !.tags = @ \cup nested.tags,
                              !.groups = [x \in DOMAIN @ \cup {c.name} |->
                                            IF x = c.name THEN nested ELSE @[x]]]

collect_group(group, children) ==
    IF children = <<>> THEN group
    ELSE collect_group(GroupMember(group, Head(children)), Tail(children))

Group(c) == collect_group([tags |-> {}, member_order |-> <<>>, required |-> {},
                           groups |-> [x \in {} |-> x]], c.children)

\* Mutant: what a component requires is required whatever the component is.
ComponentRequiredAlways(def, c) == collect(def, Components[c.name])

\* A component: its fields are required only if it is.
Component(def, c) ==
    LET inner == collect([def EXCEPT !.required = {}], Components[c.name])
    IN  [inner EXCEPT !.required = def.required \cup (IF c.required THEN @ ELSE {})]

\* A field or the counter of a group.
Named(def, c) ==
    [def EXCEPT !.tags = @ \cup {c.name},
                !.field_order = IF c.name \in def.tags THEN @ ELSE Append(@, c.name),
                !.required = IF c.required THEN @ \cup {c.name} ELSE @]

InsertGroup(def, c) ==
    [Named(def, c) EXCEPT !.tags = @ \cup Group(c).tags,
                          !.groups = [x \in DOMAIN @ \cup {c.name} |->
                                        IF x = c.name THEN Group(c) ELSE @[x]]]

collect(def, children) ==
    IF children = <<>> THEN def
    ELSE LET c == Head(children)
         IN  collect(CASE c.kind = "field" -> Named(def, c)
                       [] c.kind = "component" -> Component(def, c)
                       [] c.kind = "group" -> InsertGroup(def, c), Tail(children))

Init == message = <<>> /\ definition = Empty

\* collect_message reads one child after the other.
CollectChild(c) ==
    /\ Len(message) < MaxChildren
    /\ message' = Append(message, c)
    /\ definition' = collect(definition, <<c>>)

Next == \E c \in Nodes : CollectChild(c)

Spec == Init /\ [][Next]_vars

--------------------------------------------------------------------------------
(***************************************************************************)
(* The reference: the paths from the message to a field, through           *)
(* components and groups.  A path is the sequence of its nodes.            *)
(***************************************************************************)
Children(c) == IF c.kind = "component" THEN ToSet(Components[c.name]) ELSE ToSet(c.children)

Extend(paths) == UNION {{Append(p, c) : c \in Children(Last(p))} : p \in paths}

Paths == LET within[n \in 1 .. MaxDepth] ==
                IF n = 1 THEN {<<c>> : c \in ToSet(message)}
                ELSE within[n - 1] \cup Extend(within[n - 1])
         IN  {p \in within[MaxDepth] : Last(p).kind # "component"}

Groups(p) == {i \in 1 .. Len(p) - 1 : p[i].kind = "group"}

\* A field is required of a message if it and every component around it are,
\* outside of groups.
RequiredAsNested ==
    definition.required =
        {Last(p).name : p \in {p \in Paths : Groups(p) = {} /\ \A i \in DOMAIN p : p[i].required}}

\* Every field that may occur in the message is allowed in it, and every
\* field of a group, however deep, belongs to the group that canonical order
\* and validation look at.
TagsComplete ==
    /\ definition.tags = {Last(p).name : p \in Paths}
    /\ \A p \in Paths : Groups(p) # {} =>
            LET outermost == CHOOSE i \in Groups(p) : \A j \in Groups(p) : i <= j
            IN  Last(p).name \in definition.groups[p[outermost].name].tags

\* field_order lists once every field outside of groups ("Top-level fields in
\* spec order, components expanded in place"), but for one that a group before
\* it has as well.
OrderComplete ==
    LET outside == {Last(p).name : p \in {p \in Paths : Groups(p) = {}}}
        inside == {Last(p).name : p \in {p \in Paths : Groups(p) # {}}}
    IN  /\ outside \ inside \subseteq ToSet(definition.field_order)
        /\ ToSet(definition.field_order) \subseteq outside
        /\ IsInjective(definition.field_order)
================================================================================
