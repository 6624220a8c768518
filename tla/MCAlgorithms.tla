---------------------------- MODULE MCAlgorithms ----------------------------
(***************************************************************************)
(* The decisions and the codecs over bounded inputs: the families of       *)
(* MCDecisions, and here those of the codecs.                              *)
(***************************************************************************)
EXTENDS MCDecisions, AuthData

CONSTANT FieldsOf     \* the classes of data objects

Numbers == {-390626, -390625, -626, -625, -26, -25, -6, -5, -4, -1, 0, 3, 4, 5, 24, 25, 624, 625, 390624, 390625}
Strings == {<<>>, <<0>>, <<1>>, <<0, 0>>, <<4, 1>>, <<1, 0, 1>>}
Leaves == {IntV(n) : n \in Numbers} \cup {BoolV(b) : b \in BOOLEAN}
          \cup {BytesV(s) : s \in Strings} \cup {TextV(s) : s \in Strings}
Keys == {IntV(n) : n \in {-26, -5, -1, 0, 1, 4, 25, 625}} \cup {BytesV(<<0>>), TextV(<<>>), TextV(<<0>>),
          TextV(<<4, 1>>), TextV(<<1, 0, 1>>), BoolV(TRUE)}
Items == {IntV(1), IntV(-26), BytesV(<<1, 0, 1>>), ArrayV(<<IntV(9), BoolV(FALSE)>>)}
Maps == {DictV({})} \cup {DictV({<<k, x>>}) : k \in Keys, x \in Leaves}
        \cup {DictV({<<j, x>>, <<k, IntV(1)>>}) : j, k \in Keys, x \in Items}

CborValues == Leaves \cup Maps \cup {ArrayV(<<x, y>>) : x \in Leaves, y \in Items}
              \cup {ArrayV(<<m>>) : m \in {DictV({<<IntV(1), x>>}) : x \in Leaves}}

OneKeyEach == {y \in CborValues : y.t = "dict" => \A e, f \in y.v : e # f => ~SameKey(e[1], f[1])}

CosePub == {DictV({<<AlgKey, IntV(-7)>>, <<IntV(-1), IntV(1)>>}), DictV({<<AlgKey, BytesV(<<1, 0>>)>>})}
MCCreds == {Absent} \cup [aaguid : {<<0>>, <<2>>}, id : {<<>>, <<1>>, <<1, 0, 2>>, Zeros(9)}, key : CosePub]
         \cup {FromCtap1(<<1>>, k) : k \in CosePub}
Exts == {Absent, DictV({}), DictV({<<TextV(<<0>>), BoolV(TRUE)>>}), DictV({<<TextV(<<1>>), BytesV(<<1>>)>>})}
AuthDatas == [hash : {<<1>>}, flags : 0..3, counter : {0, 5, 80}, cred : MCCreds, ext : Exts]

WithBytes == {[c |-> c, bytes |-> AuthDataBytes(c) \o more] : c \in AuthDatas, more \in {<<>>, <<0>>}}

Objects == INSTANCE DataObjects
Tables == INSTANCE DataClasses
MCFieldsOf == Tables!ClassFields

\* values a field may hold: the first is the one of an object with every field;
\* the objects within objects are those of the level below
RECURSIVE ValuesFor(_, _)
ValuesFor(type, below) ==
  CASE type.k = "str" -> <<Objects!Text(<<"a">>), Objects!Text(<<>>)>>
    [] type.k = "int" -> <<Objects!IntOf(7), Objects!IntOf(0)>>
    [] type.k = "bool" -> <<[t |-> "bool", v |-> TRUE], [t |-> "bool", v |-> FALSE]>>
    [] type.k = "bytes" -> <<Objects!Bytes(<<"B">>), Objects!Bytes(<<>>)>>
    [] type.k = "any" -> <<Objects!Bytes(<<"B">>), Objects!IntOf(1)>>
    [] type.k = "data" -> <<[t |-> "data", class |-> type.class, v |-> <<"D">>], Objects!Bytes(<<"D">>)>>
    [] type.k \in {"enum", "strict"} -> <<Objects!Text(<<CHOOSE n \in type.names : TRUE>>), Objects!Text(<<"unknown">>)>>
    [] type.k = "list" -> LET s == ValuesFor(type.of, below)
                          IN <<Objects!ListOf(<<s[1]>>), Objects!ListOf(<<>>), Objects!ListOf(s)>>
    [] type.k = "dict" -> LET s == ValuesFor(type.of, below)
                          IN <<Objects!MapOf([k \in {"x"} |-> s[1]]), Objects!MapOf([k \in {} |-> s[1]])>>
    [] type.k = "outputs" -> <<Objects!MapOf([k \in {"credProps"} |-> Objects!IntOf(1)]),
                               Objects!MapOf([k \in {"prf", "rk"} |-> IF k = "rk" THEN Objects!NoValue
                                                                      ELSE Objects!Bytes(<<"B">>)])>>
    [] type.k = "hooked" -> ValuesFor(type.of, below)
    [] type.k = "object" -> below[type.class]

\* an object with every field and one with those it needs
SamplesOf(class, fields, below) ==
  LET names == {fields[i].name : i \in DOMAIN fields}
      field == [n \in names |-> fields[CHOOSE i \in DOMAIN fields : fields[i].name = n]]
      full == [n \in names |-> ValuesFor(field[n].type, below)[1]]
      few == [n \in names |-> IF Objects!IsBad(field[n].default) THEN full[n] ELSE field[n].default]
  IN <<Objects!Construct(class, full), Objects!Construct(class, few)>>

\* objects lie in objects down to the fifth level
SamplesAt[level \in 0..5] ==
  [class \in Objects!Classes |->
     IF level = 0 THEN <<Objects!NoValue, Objects!NoValue>>
     ELSE SamplesOf(class, FieldsOf[class], SamplesAt[level - 1])]
Samples == SamplesAt[5]

\* one field of an object takes each of its values
Varied(class, base, i, samples) ==
  LET choices == Append(ValuesFor(FieldsOf[class][i].type, samples), FieldsOf[class][i].default)
      with == {Objects!Construct(class, [samples[class][base].v EXCEPT ![FieldsOf[class][i].name] = choices[j]]) :
                 j \in DOMAIN choices}
  IN {o \in with : ~Objects!IsBad(o)}
ObjectsVaried(samples) ==
  UNION {UNION {Varied(class, base, i, samples) : base \in 1..2, i \in DOMAIN FieldsOf[class]} : class \in Objects!Classes}

\* messages whose values may be of another type, unknown or missing
OtherValues ==
  {Objects!NoValue, Objects!IntOf(5), Objects!Text(<<"unknown">>), Objects!Bytes(<<"B">>), Objects!Text(<<>>),
   Objects!ListOf(<<Objects!Text(<<"unknown">>), Objects!Text(<<"usb">>)>>), Objects!ListOf(<<>>)}
Messages(samples, classes) ==
  UNION {{[class |-> class, from |-> samples[class][base], key |-> Objects!KeyOf(class, i), value |-> x] :
            base \in 1..2, i \in DOMAIN FieldsOf[class], x \in OtherValues} : class \in classes}
CborClasses == {class \in Objects!Classes : Objects!IsCbor(class)}

\* the message: an object's, with one value and one key that is unknown
Altered(x) ==
  LET m == Objects!ToMap(x.from).v
      more == IF Objects!IsCbor(x.class) THEN <<99>> ELSE <<"more">>
  IN Objects!MapOf([k \in DOMAIN m \cup {x.key, more} |->
       IF k = x.key THEN x.value ELSE IF k \in DOMAIN m THEN m[k] ELSE Objects!IntOf(1)])

ObjectInputs(samples) ==
  <<Given("object", ObjectsVaried(samples)), Given("message", Messages(samples, CborClasses)),
    Given("message", Messages(samples, Objects!Classes \ CborClasses))>>
CodecInputs ==
  <<Given("cbor", OneKeyEach), Given("authData", WithBytes)>>
  \o CHOOSE inputs \in {ObjectInputs(samples) : samples \in {Samples}} : TRUE
MCInputs == DecisionInputs \o CodecInputs

-----------------------------------------------------------------------------
\* Bytes say what they were written from, and bytes that cannot be read whole are
\* refused: CBOR values, written in canonical order (cbor.py, and the check of
\* send_cbor), authenticator data and its parts (webauthn.py).
BytesAreFaithful ==
  /\ Of("cbor") => RoundTrips(input.x) /\ WrittenInOrder(input.x) /\ CutIsNoticed(input.x)
  /\ Of("authData") => ComponentsComeBack(input.x.c) /\ EveryByteIsRead(input.x.bytes)

\* An object that is sent as a JSON or CBOR message is the same on the other side,
\* and reading a message drops nothing but what is unknown (utils.py,
\* webauthn.py, ctap2/base.py, mds3.py).
ObjectsComeBack ==
  /\ Of("object") => Objects!ComesBack(input.x) /\ Objects!CommandIsBytes(input.x)
  /\ Of("message") => Objects!SaysWhatWasRead(input.x.class, Altered(input.x))

\* An entity of WebAuthn, sent as JSON, is the same on the other side, with an
\* empty text in it too (utils.py:208): what test_webauthn.py:278-281 says of one.
EmptyTextComesBack == Of("object") => Objects!EmptyComesBack(input.x)
=============================================================================
