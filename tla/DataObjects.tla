----------------------------- MODULE DataObjects -----------------------------
(***************************************************************************)
(* The machinery of the data classes (_DataClassMapping and                *)
(* _JsonDataObject of fido2/utils.py, _CborDataObject of                   *)
(* fido2/ctap2/base.py), for any classes given by their fields.  An object *)
(* is also a mapping, from the JSON names of its fields or from their      *)
(* positions (CBOR), that travels as a message and is parsed on the other  *)
(* side.                                                                   *)
(***************************************************************************)
EXTENDS DataValues

CONSTANT FieldsOf   \* the fields of each class

-----------------------------------------------------------------------------
Classes == DOMAIN FieldsOf
Entities == {"RpEntity", "UserEntity", "Parameters", "Descriptor"}

\* _get_field_key: a position or a name
IsCbor(class) == class \in {"Info", "AttestationResponse", "AssertionResponse"}
KeyOf(class, i) == IF IsCbor(class) THEN <<i>> ELSE <<FieldsOf[class][i].name>>

-----------------------------------------------------------------------------
(* Parsing *)

IsNone(x) == x.t = "none"
IsBad(x) == x.t = "bad"
AnyBad(s) == \E i \in DOMAIN s : IsBad(s[i])

\* isinstance; a boolean is an int, a member of an enum is a text
IsA(x, type) ==
  \/ type.k = "any"
  \/ type.k \in {"str", "int", "bool", "bytes", "outputs"} /\ x.t = type.k
  \/ type.k = "int" /\ x.t = "bool"
  \/ type.k = "bytes" /\ x.t = "data"
  \/ type.k = "data" /\ x.t = "data" /\ x.class = type.class
  \/ type.k = "object" /\ x.t = "object" /\ x.class = type.class

Truthy(x) == IF x.t = "int" THEN x.v # 0 ELSE x.v # <<>>

\* the type called on the value
Wrapped(type, x) ==
  CASE type.k = "enum" -> IF x.t = "str" /\ x.v # <<>> /\ x.v[1] \in type.names THEN x ELSE NoValue
    [] type.k = "strict" -> IF x.t = "str" /\ x.v # <<>> /\ x.v[1] \in type.names THEN x ELSE Bad
    [] type.k = "data" -> IF x.t \in {"bytes", "data"} /\ type.class # "date" THEN [t |-> "data", class |-> type.class, v |-> x.v] ELSE Bad
    [] type.k = "str" -> Text(<<"shown", x.t>>)
    [] type.k = "bool" -> [t |-> "bool", v |-> Truthy(x)]
    [] type.k = "outputs" -> IF x.t # "map" THEN Bad
                             ELSE [t |-> "outputs", v |-> [k \in {j \in DOMAIN x.v : ~IsNone(x.v[j])} |-> x.v[k]]]
    [] OTHER -> Bad

RECURSIVE ParseValue(_, _, _), FromDict(_, _), ToMap(_)

\* __post_init__: every value is parsed once more, then the rules of the class;
\* the mutated form keeps the values as they are given
Selected(f) ==
  LET rk == IF ~IsNone(f.residentKey) THEN f.residentKey
            ELSE Text(IF f.requireResidentKey.t = "bool" /\ f.requireResidentKey.v THEN <<"required">> ELSE <<"discouraged">>)
  IN [f EXCEPT !.residentKey = rk, !.requireResidentKey = [t |-> "bool", v |-> rk.v = <<"required">>]]

PostInit(class, f) ==
  IF AnyBad(f) THEN Bad ELSE
  LET g == IF class \in {"RegistrationResponse", "AuthenticationResponse"}
           THEN [f EXCEPT !.id = TextOf(f.rawId.v)]
           ELSE IF class = "Selection" THEN Selected(f) ELSE f
  IN [t |-> "object", class |-> class, v |-> g]

ConstructAsGiven(class, f) == PostInit(class, f)
Construct(class, f) ==
  LET fields == FieldsOf[class]
      types  == [n \in DOMAIN f |-> (CHOOSE i \in DOMAIN fields : fields[i].name = n)]
  IN PostInit(class, [n \in DOMAIN f |->
       IF IsNone(f[n]) \/ IsBad(f[n]) THEN f[n]
       ELSE ParseValue(~IsCbor(class), Held(fields[types[n]].type), f[n])])

\* json: text stands for bytes
ParseValue(json, type, x) ==
  IF IsA(x, type) THEN x
  ELSE IF json /\ type.k \in {"bytes", "data"} /\ x.t = "str" THEN BytesOf(x)
  ELSE IF type.k = "list"
  THEN IF x.t # "list" THEN Bad
       ELSE LET s == [i \in DOMAIN x.v |-> ParseValue(json, type.of, x.v[i])] IN IF AnyBad(s) THEN Bad ELSE ListOf(s)
  ELSE IF type.k = "dict"
  THEN IF x.t # "map" THEN Bad
       ELSE LET m == [k \in DOMAIN x.v |-> ParseValue(json, type.of, x.v[k])] IN IF AnyBad(m) THEN Bad ELSE MapOf(m)
  ELSE IF type.k = "object" THEN FromDict(type.class, x)
  ELSE Wrapped(type, x)

\* the deserializer of a field
Unhooked(type, x) ==
  IF type.k = "list"
  THEN IF x.t = "list" /\ \A i \in DOMAIN x.v : x.v[i].t = "str" /\ Decodes(x.v[i])
       THEN ListOf([i \in DOMAIN x.v |-> BytesOf(x.v[i])]) ELSE Bad
  ELSE IF x.t # "str" \/ ~Decodes(x) THEN Bad
  ELSE IF type.k = "data" THEN [t |-> "data", class |-> type.class, v |-> BytesOf(x).v] ELSE BytesOf(x)

\* an id that comes along has to be that of rawId
IdDiffers(class, x) ==
  /\ class \in {"RegistrationResponse", "AuthenticationResponse"}
  /\ <<"id">> \in DOMAIN x.v
  /\ <<"rawId">> \notin DOMAIN x.v \/ x.v[<<"id">>].t # x.v[<<"rawId">>].t \/ x.v[<<"id">>].v # x.v[<<"rawId">>].v

FromDict(class, x) ==
  IF IsNone(x) \/ (x.t = "object" /\ x.class = class) THEN x
  ELSE IF x.t # "map" THEN Bad
  ELSE IF IdDiffers(class, x) THEN Bad
  ELSE LET fields == FieldsOf[class]
           value(i) == LET k == KeyOf(class, i) IN
                       IF k \notin DOMAIN x.v \/ IsNone(x.v[k]) \/ (fields[i].name = "id" /\ fields[i].type = Str
                             /\ class \in {"RegistrationResponse", "AuthenticationResponse"})
                       THEN fields[i].default
                       ELSE IF fields[i].type.k = "hooked" THEN Unhooked(fields[i].type.of, x.v[k])
                       ELSE ParseValue(~IsCbor(class), fields[i].type, x.v[k])
           names == {fields[i].name : i \in DOMAIN fields}
       IN Construct(class, [n \in names |-> value(CHOOSE i \in DOMAIN fields : fields[i].name = n)])

-----------------------------------------------------------------------------
(* Writing *)

Hook(x) == IF x.t = "list" THEN ListOf([i \in DOMAIN x.v |-> TextOf(x.v[i].v)]) ELSE TextOf(x.v)

\* __getitem__ of a mapping: an empty text or byte string is a sequence all of
\* whose members are mappings, and so becomes an empty list
Shown(type, x) ==
  IF type.k = "hooked" THEN Hook(x)
  ELSE IF x.t = "object" THEN ToMap(x)
  ELSE IF x.t \in {"str", "bytes", "data"} /\ x.v = <<>> THEN ListOf(<<>>)
  ELSE IF x.t = "list" /\ \A i \in DOMAIN x.v : x.v[i].t \in {"map", "object"}
  THEN ListOf([i \in DOMAIN x.v |-> IF x.v[i].t = "object" THEN ToMap(x.v[i]) ELSE x.v[i]])
  ELSE IF x.t = "list" /\ type.k = "list" /\ type.of.k = "list"
  THEN ListOf([i \in DOMAIN x.v |-> ListOf([j \in DOMAIN x.v[i].v |-> ToMap(x.v[i].v[j])])])
  ELSE x

\* in JSON, bytes become text; those of extension outputs too
InJson(x) ==
  IF x.t \in {"bytes", "data"} THEN TextOf(x.v)
  ELSE IF x.t = "outputs"
  THEN MapOf([k \in DOMAIN x.v |-> IF x.v[k].t = "bytes" THEN TextOf(x.v[k].v) ELSE x.v[k]])
  ELSE x

Present(o) == {i \in DOMAIN FieldsOf[o.class] : ~IsNone(o.v[FieldsOf[o.class][i].name])}
MapWith(o, Write(_, _)) ==
  LET fields == FieldsOf[o.class]
      at(k) == CHOOSE i \in Present(o) : KeyOf(o.class, i) = k
  IN MapOf([k \in {KeyOf(o.class, i) : i \in Present(o)} |->
              Write(fields[at(k)].type, o.v[fields[at(k)].name])])

ToMap(o) == MapWith(o, LAMBDA type, x : IF IsCbor(o.class) THEN Shown(type, x) ELSE InJson(Shown(type, x)))

\* _as_cbor: the object as it is put into a command, bytes as they are
AsCbor(o) == MapWith(o, Shown)

-----------------------------------------------------------------------------
(* What the classes owe *)

\* what a message cannot carry: an empty text or byte string, an unknown value
\* where one is required or has a default, and the bytes of extension outputs, which stay text
RECURSIVE HoldsEmpty(_)
HoldsEmpty(x) ==
  \/ x.t \in {"str", "bytes", "data"} /\ x.v = <<>>
  \/ x.t = "object" /\ \E n \in DOMAIN x.v : HoldsEmpty(x.v[n])
  \/ x.t = "list" /\ \E i \in DOMAIN x.v : HoldsEmpty(x.v[i])
HoldsUnknown(o) ==
  \E i \in DOMAIN FieldsOf[o.class] :
    ~IsNone(FieldsOf[o.class][i].default) /\ IsNone(o.v[FieldsOf[o.class][i].name])
HoldsOutputs(x) ==
  x.t = "object" /\ \E n \in DOMAIN x.v : x.v[n].t = "outputs" /\ \E k \in DOMAIN x.v[n].v : x.v[n].v[k].t = "bytes"

\* an object sent as a message is the same object on the other side
SameAs(o, read) == IF HoldsOutputs(o) THEN ~IsBad(read) /\ ToMap(read) = ToMap(o) ELSE read = o
ComesBack(o) == HoldsEmpty(o) \/ HoldsUnknown(o) \/ SameAs(o, FromDict(o.class, ToMap(o)))

\* the same for every text and byte string: the round trip that the tests of the
\* options make (tests/test_webauthn.py:278-281)
EmptyComesBack(o) ==
  o.class \in Entities /\ ~HoldsUnknown(o) => FromDict(o.class, ToMap(o)) = o

\* a message that is read says what was read of it: keys that are not known and
\* values that are not known are dropped, and nothing else
SaysWhatWasRead(class, m) ==
  LET o == FromDict(class, m) IN
  ~IsBad(o) => \A i \in DOMAIN FieldsOf[class] :
    LET k == KeyOf(class, i)
        x == o.v[FieldsOf[class][i].name]
    IN k \in DOMAIN m.v /\ ~IsNone(m.v[k]) /\ IsNone(x) => FieldsOf[class][i].type.k = "enum"

\* the bytes of what a command takes are not encoded as text
CommandIsBytes(o) ==
  o.class \in Entities => \A i \in Present(o) : o.v[FieldsOf[o.class][i].name].t = "bytes" =>
     AsCbor(o).v[KeyOf(o.class, i)] \in {o.v[FieldsOf[o.class][i].name], ListOf(<<>>)}
=============================================================================
