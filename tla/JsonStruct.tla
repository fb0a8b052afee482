----------------------------- MODULE JsonStruct ------------------------------
(***************************************************************************)
(* The structs of json.hpp: a definition lists fields, the macros make     *)
(* to_json and from_json of it.  A struct is written as a JSON document,   *)
(* the document may lose a member on its way, and it is read again.  Texts *)
(* (dump, parse) and the conversions of scalars are nlohmann::json's.  The *)
(* recursive operators are for TLC only.                                   *)
(***************************************************************************)
EXTENDS Naturals, Sequences

CONSTANTS
    Definitions,  \* INIT_DEFINITIONS: sets of fields
    Values,       \* scalars of the declared types
    MaxItems      \* bound: the items of a list

(* A field is [name, kind, optional, of]; `of` is the definition of an OBJ or   *)
(* LISTOBJ.  An OBJ may not be OPTIONAL here: its to_json does not compile.     *)

Null       == [null |-> TRUE]
Plain(v)   == [plain |-> v]
List(vs)   == [list |-> vs]
Members(o) == [object |-> o]
Error      == [error |-> "type_error or out_of_range"]

IsNull(v)   == "null" \in DOMAIN v
IsPlain(v)  == "plain" \in DOMAIN v
IsList(v)   == "list" \in DOMAIN v
IsObject(v) == "object" \in DOMAIN v
IsError(v)  == "error" \in DOMAIN v

Names(def)    == {f.name : f \in def}
Named(def, n) == CHOOSE f \in def : f.name = n
------------------------------------------------------------------------------
(* FILL_..._JSON_... and to_json.  A field of a struct is a value like the   *)
(* ones of a document, Null for an empty std::optional.                      *)

\* A plausible bug: an empty optional list is written as an empty list.
WrittenAsEmpty(f, v) == TRUE

\* An empty optional list of objects is left out, other empty optionals are null.
Written(f, v) == ~(f.kind = "LISTOBJ" /\ IsNull(v))

RECURSIVE to_json(_, _)
to_json(def, s) ==
    LET json(f) ==
            CASE f.kind = "OBJ" -> to_json(f.of, s[f.name])
              [] f.kind = "LISTOBJ" ->
                    List(IF IsNull(s[f.name]) THEN <<>>
                         ELSE [i \in DOMAIN s[f.name].list |-> to_json(f.of, s[f.name].list[i])])
              [] OTHER -> s[f.name]
        written == {f \in def : Written(f, s[f.name])}
    IN  \* `json res{}` is null until a member is set
        IF written = {} THEN Null ELSE Members([n \in Names(written) |-> json(Named(def, n))])
------------------------------------------------------------------------------
(* FILL_..._PROPERTY_... and from_json.                                      *)

\* json_data[name]: null for what is missing, also when json_data is null.
Member(data, n) ==
    IF IsObject(data) THEN (IF n \in DOMAIN data.object THEN data.object[n] ELSE Null)
    ELSE IF IsNull(data) THEN Null ELSE Error

\* contains(name) && !at(name).is_null().
HasMember(data, n) == IsObject(data) /\ n \in DOMAIN data.object /\ ~IsNull(data.object[n])

\* What `for (item : v)` visits; a plain value is its own only item.
Items(v) == IF IsList(v) THEN v.list ELSE IF IsNull(v) THEN <<>> ELSE <<v>>

\* A plausible bug: null converts to a default value.
ConvertedOrDefault(v) ==
    IF IsPlain(v) /\ v.plain \in Values THEN v
    ELSE IF IsNull(v) THEN Plain(CHOOSE x \in Values : TRUE) ELSE Error

\* nlohmann::json's conversion to the declared type.
Converted(v) == IF IsPlain(v) /\ v.plain \in Values THEN v ELSE Error

AllOrError(vs) == IF \E i \in DOMAIN vs : IsError(vs[i]) THEN Error ELSE List(vs)

RECURSIVE from_json(_, _)
from_json(def, data) ==
    LET filled(f) ==
            LET v == Member(data, f.name) IN
            CASE f.optional /\ ~HasMember(data, f.name) -> Null
              [] IsError(v) -> Error
              [] f.kind = "SCALAR" -> Converted(v)
              [] f.kind = "LIST" ->
                    IF IsList(v) THEN AllOrError([i \in DOMAIN v.list |-> Converted(v.list[i])])
                    ELSE Error
              [] f.kind = "OBJ" -> from_json(f.of, v)
              [] f.kind = "LISTOBJ" ->
                    AllOrError([i \in DOMAIN Items(v) |-> from_json(f.of, Items(v)[i])])
    IN  IF \E f \in def : "error" \in DOMAIN filled(f) THEN Error
        ELSE [n \in Names(def) |-> filled(Named(def, n))]
------------------------------------------------------------------------------
(* A struct on its way.                                                      *)

VARIABLES
    def,    \* the definition of the struct
    given,  \* the struct that is written
    doc,    \* the document
    lost,   \* the path to the member the document lost, <<>> for none
    how,    \* what stands there instead
    taken   \* the struct that is read, or Error

vars == <<def, given, doc, lost, how, taken>>

NotYet == [not |-> "yet"]

\* The structs of a definition.
Lists(S) == {List(l) : l \in UNION {[1..n -> S] : n \in 0..MaxItems}}

RECURSIVE Structs(_)
Structs(d) ==
    LET fields(f) ==
            (IF f.optional THEN {Null} ELSE {}) \cup
            CASE f.kind = "SCALAR" -> {Plain(v) : v \in Values}
              [] f.kind = "LIST" -> Lists({Plain(v) : v \in Values})
              [] f.kind = "OBJ" -> Structs(f.of)
              [] f.kind = "LISTOBJ" -> Lists(Structs(f.of))
    IN  {s \in [Names(d) -> UNION {fields(f) : f \in d}] : \A f \in d : s[f.name] \in fields(f)}

Init ==
    /\ def \in Definitions
    /\ given \in Structs(def)
    /\ doc = NotYet
    /\ lost = <<>>
    /\ how = "gone"
    /\ taken = NotYet

Write ==
    /\ doc = NotYet
    /\ doc' = to_json(def, given)
    /\ UNCHANGED <<def, given, lost, how, taken>>

\* The paths to the members of a document, also of the objects in its lists.
RECURSIVE Paths(_)
Paths(d) ==
    CASE IsObject(d) -> {<<n>> : n \in DOMAIN d.object} \cup
                        UNION {{<<n>> \o p : p \in Paths(d.object[n])} : n \in DOMAIN d.object}
      [] IsList(d)   -> UNION {{<<i>> \o p : p \in Paths(d.list[i])} : i \in DOMAIN d.list}
      [] OTHER       -> {}

\* The document without a member, or with something else in its place.
RECURSIVE Losing(_, _, _)
Losing(d, path, h) ==
    IF IsList(d) THEN List([d.list EXCEPT ![path[1]] = Losing(@, Tail(path), h)])
    ELSE IF Len(path) > 1 THEN Members([d.object EXCEPT ![path[1]] = Losing(@, Tail(path), h)])
    ELSE Members(CASE h = "null"  -> [d.object EXCEPT ![path[1]] = Null]
                   [] h = "wrong" -> [d.object EXCEPT ![path[1]] = Plain("wrong")]
                   [] h = "gone"  -> [n \in DOMAIN d.object \ {path[1]} |-> d.object[n]])

\* Whoever passes the document on leaves a member out or puts another there.
Lose ==
    /\ doc # NotYet /\ lost = <<>> /\ taken = NotYet
    /\ lost' \in Paths(doc)
    /\ how' \in {"null", "wrong", "gone"}
    /\ doc' = Losing(doc, lost', how')
    /\ UNCHANGED <<def, given, taken>>

Read ==
    /\ doc # NotYet /\ taken = NotYet
    /\ taken' = from_json(def, doc)
    /\ UNCHANGED <<def, given, doc, lost, how>>

Done == taken # NotYet /\ UNCHANGED vars

Next == Write \/ Lose \/ Read \/ Done

Spec == Init /\ [][Next]_vars
------------------------------------------------------------------------------
(* Properties.                                                               *)

\* A struct that is written and read again is the same struct: an empty optional
\* stays empty, an empty list stays an empty list, at any depth.
RoundTrip == taken # NotYet /\ lost = <<>> => taken = given

\* Something in the definition that cannot be left out.
RECURSIVE Demanding(_)
Demanding(d) ==
    \E f \in d : \/ ~f.optional /\ f.kind \in {"SCALAR", "LIST"}
                 \/ f.kind = "OBJ" /\ Demanding(f.of)

\* The loss of the field f makes from_json throw.
Noticed(f) ==
    IF how = "wrong" THEN f.kind \in {"OBJ", "LISTOBJ"} => \E g \in f.of : ~g.optional
    ELSE ~f.optional /\ f.kind # "LISTOBJ" /\ (f.kind = "OBJ" => Demanding(f.of))

\* What is read for f then, with no member or with one of the wrong type.
RECURSIVE Default(_)
Default(f) ==
    CASE how # "wrong" /\ f.optional -> Null
      [] how # "wrong" /\ f.kind = "LISTOBJ" -> List(<<>>)
      [] how = "wrong" /\ f.kind = "LISTOBJ" -> List(<<[n \in Names(f.of) |-> Null]>>)
      [] how = "wrong" /\ f.kind = "OBJ" -> [n \in Names(f.of) |-> Null]
      [] OTHER -> [n \in Names(f.of) |-> Default(Named(f.of, n))]

\* The path inside what the first name of it leads to, an item of a list or not.
Inside(f, path) == IF f.kind = "LISTOBJ" THEN Tail(Tail(path)) ELSE Tail(path)

RECURSIVE FieldAt(_, _)
FieldAt(d, path) ==
    LET f == Named(d, path[1])
    IN  IF Len(path) = 1 THEN f ELSE FieldAt(f.of, Inside(f, path))

RECURSIVE Reset(_, _, _)
Reset(d, s, path) ==
    LET f == Named(d, path[1])
        inside(item) == Reset(f.of, item, Inside(f, path))
    IN  [s EXCEPT ![f.name] =
            IF Len(path) = 1 THEN Default(f)
            ELSE IF f.kind = "LISTOBJ" THEN List([@.list EXCEPT ![path[2]] = inside(@)])
            ELSE inside(@)]

\* A member that is lost, null or of the wrong type is noticed, or it is the only
\* thing that changes.  Reading fails when a required scalar or list is gone,
\* alone or with its object, and for any wrong type but in place of structs that
\* require nothing; otherwise the field has its default (a required list of
\* objects, too, is empty then) and all others are as given.
LossIsNoticedOrLocal ==
    taken # NotYet /\ lost # <<>> =>
        taken = IF Noticed(FieldAt(def, lost)) THEN Error ELSE Reset(def, given, lost)
==============================================================================
