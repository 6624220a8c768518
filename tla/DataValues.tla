------------------------------ MODULE DataValues ------------------------------
(***************************************************************************)
(* The values of data objects and the types of their fields.  A value is a *)
(* record of its type t and its value v.  Bytes and text are tuples, empty *)
(* when they are; the text <<"b64", b>> encodes the bytes b.               *)
(***************************************************************************)
EXTENDS Naturals, Sequences

NoValue == [t |-> "none", v |-> 0]
Bad == [t |-> "bad", v |-> 0]
Text(s) == [t |-> "str", v |-> s]
Bytes(b) == [t |-> "bytes", v |-> b]
IntOf(n) == [t |-> "int", v |-> n]
ListOf(s) == [t |-> "list", v |-> s]
MapOf(f) == [t |-> "map", v |-> f]

\* websafe_encode and websafe_decode; a text of another kind does not decode
TextOf(b) == Text(IF b = <<>> THEN <<>> ELSE <<"b64", b>>)
Decodes(x) == x.v = <<>> \/ x.v[1] = "b64"
BytesOf(x) == IF ~Decodes(x) THEN Bad ELSE Bytes(IF x.v = <<>> THEN <<>> ELSE x.v[2])

-----------------------------------------------------------------------------
(* Types of fields *)

Type(k) == [k |-> k]
Str == Type("str")
Number == Type("int")
Flag == Type("bool")
Octets == Type("bytes")
AnyValue == Type("any")
\* a class of bytes that parses what it holds (Aaguid, AuthenticatorData, ...)
Data(class) == [k |-> "data", class |-> class]
OneOf(names) == [k |-> "enum", names |-> names]
Strict(names) == [k |-> "strict", names |-> names]
Many(type) == [k |-> "list", of |-> type]
Dict(type) == [k |-> "dict", of |-> type]
Outputs == Type("outputs")
Object(class) == [k |-> "object", class |-> class]
\* a field with its own (de)serializer: a text on the way, a value here
Hooked(type) == [k |-> "hooked", of |-> type]
Held(type) == IF type.k = "hooked" THEN type.of ELSE type

Field(name, type, default) == [name |-> name, type |-> type, default |-> default]
Req(name, type) == Field(name, type, Bad)
Opt(name, type) == Field(name, type, NoValue)
Reqs(names, type) == [i \in DOMAIN names |-> Req(names[i], type)]
Opts(names, type) == [i \in DOMAIN names |-> Opt(names[i], type)]
===============================================================================
