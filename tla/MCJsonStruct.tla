----------------------------- MODULE MCJsonStruct ----------------------------
(* JsonStruct on every definition of up to three fields of a few shapes.     *)
EXTENDS JsonStruct

NoDef == {}

Field(n, k, o, d) == [name |-> n, kind |-> k, optional |-> o, of |-> d]

Simple(n) == {Field(n, k, o, NoDef) : k \in {"SCALAR", "LIST"}, o \in BOOLEAN}

\* Structs that are used as fields: one demanding, the others not.
Inner ==
    { {Field("x", "SCALAR", FALSE, NoDef)},
      {Field("x", "SCALAR", TRUE, NoDef)},
      {Field("x", "LISTOBJ", TRUE, {Field("z", "SCALAR", FALSE, NoDef)})},
      {Field("x", "SCALAR", TRUE, NoDef), Field("y", "LISTOBJ", FALSE, {Field("z", "SCALAR", FALSE, NoDef)})} }

Outer(n) ==
    {Field(n, "OBJ", FALSE, d) : d \in Inner} \cup
    {Field(n, "LISTOBJ", o, d) : o \in BOOLEAN, d \in Inner}

MCDefinitions ==
    {{f} : f \in Outer("a")} \cup
    {{f, g} : f \in Simple("a"), g \in Outer("b")} \cup
    {{Field("a", "OBJ", FALSE, {f, g}), h} : f \in Simple("a"),
        g \in {Field("b", "OBJ", FALSE, d) : d \in Inner},
        h \in {Field("c", "SCALAR", o, NoDef) : o \in BOOLEAN}}
==============================================================================
