------------------------------ MODULE FieldMarkers ------------------------------
(***************************************************************************)
(* The trait Field of src/field_map.rs, which a generated field implements *)
(* with its tag and the Rust type of its value (value_type of              *)
(* src/bin/generate-fix.rs), and the constants gen_fields attaches to it:  *)
(* "fit" if each has the field's type, "wide" if some are strings on a     *)
(* field whose type is char.                                               *)
(***************************************************************************)
EXTENDS Naturals, Sequences, TLC

Marker(type, consts) == [type |-> type, consts |-> consts]

S == Marker("String", "none")
Sc == Marker("String", "fit")
I == Marker("i64", "none")
Ic == Marker("i64", "fit")
C == Marker("char", "none")
Cc == Marker("char", "fit")
Cw == Marker("char", "wide")
A == Marker("Amount", "none")
B == Marker("bool", "none")
D == Marker("FixDate", "none")
T == Marker("UtcTimestamp", "none")
V == Marker("Vec", "none")
X == Marker("no such field", "none")

\* The markers of consecutive tags, the first of which is given.
From(tag, markers) ==
    [t \in {tag + i - 1 : i \in {i \in DOMAIN markers : markers[i] # X}} |-> markers[t - tag + 1]]
================================================================================
