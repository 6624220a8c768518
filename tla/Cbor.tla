-------------------------------- MODULE Cbor --------------------------------
(***************************************************************************)
(* The CBOR codec every CTAP2 message passes through (fido2/cbor.py).  A   *)
(* byte string is a sequence of naturals.  The program's numbers are       *)
(* scaled: Inline is 24 and Radix is 256 in the code, and an initial byte  *)
(* is MajorType * (Inline + 8) + AdditionalInformation in both.  A value   *)
(* is a record tagged with its Python type; a dict is the set of its       *)
(* items.  Raise stands for every exception of the codec: no encoding is   *)
(* empty, so the empty sequence is free for it.                            *)
(***************************************************************************)
EXTENDS Integers, SequencesExt

CONSTANTS Inline, Radix

Raise == <<>>
Raised == [t |-> "raise"]

IntV(n)   == [t |-> "int", v |-> n]
BoolV(b)  == [t |-> "bool", v |-> b]
BytesV(s) == [t |-> "bytes", v |-> s]
TextV(s)  == [t |-> "text", v |-> s]
ArrayV(s) == [t |-> "array", v |-> s]
DictV(d)  == [t |-> "dict", v |-> d]

\* the simple values 20 and 21: the fourth and third below Inline
False == Inline - 4
True == Inline - 3

\* the widths of an argument that does not fit the initial byte
Widths == <<1, 2, 4, 8>>

Byte(major, info) == major * (Inline + 8) + info
BigEndian(n, width) == [i \in 1..width |-> (n \div Radix ^ (width - i)) % Radix]

Fits(n) == {i \in 1..4 : n < Radix ^ Widths[i]}

DumpWide(n, major, i) == <<Byte(major, Inline + i - 1)>> \o BigEndian(n, Widths[i])
\* the shortest form that holds the number; struct.pack raises above 64 bits
DumpUnsigned(n, major) ==
  IF n < Inline THEN <<Byte(major, n)>>
  ELSE IF Fits(n) = {} THEN Raise
  ELSE DumpWide(n, major, Min(Fits(n)))

DumpInt(n) == IF n < 0 THEN DumpUnsigned(-1 - n, 1) ELSE DumpUnsigned(n, 0)

Join(parts) == IF Raise \in ToSet(parts) THEN Raise ELSE FlattenSeq(parts)

LexLess(a, b) ==
  \/ IsStrictPrefix(a, b)
  \/ \E i \in 1..Len(a) : /\ i <= Len(b)
                          /\ SubSeq(a, 1, i - 1) = SubSeq(b, 1, i - 1)
                          /\ a[i] < b[i]

\* tuples (first byte, length, bytes) of two encoded keys compared
KeyBefore(a, b) ==
  \/ a[1] < b[1]
  \/ a[1] = b[1] /\ Len(a) < Len(b)
  \/ a[1] = b[1] /\ Len(a) = Len(b) /\ LexLess(a, b)
KeyBeforeByLength(a, b) == Len(a) < Len(b) \/ (Len(a) = Len(b) /\ LexLess(a, b))

SortKeysByLength(items) == SetToSortSeq(items, LAMBDA x, y : KeyBeforeByLength(x[1], y[1]))
SortKeys(items) == SetToSortSeq(items, LAMBDA x, y : KeyBefore(x[1], y[1]))

JoinItems(items) == Join([i \in DOMAIN items |-> Join(items[i])])
DumpDict(items, size) ==
  IF \E e \in items : Raise \in {e[1], e[2]} THEN Raise
  ELSE Join(<<DumpUnsigned(size, 5)>> \o (IF items = {} THEN <<>> ELSE <<JoinItems(SortKeys(items))>>))

RECURSIVE Encode(_)
Encode(x) ==
  CASE x.t = "bool"  -> <<Byte(7, IF x.v THEN True ELSE False)>>
    [] x.t = "int"   -> DumpInt(x.v)
    [] x.t \in {"text", "bytes"} ->
         Join(<<DumpUnsigned(Len(x.v), IF x.t = "text" THEN 3 ELSE 2)>>
              \o (IF x.v = <<>> THEN <<>> ELSE <<x.v>>))
    [] x.t = "array" -> Join(<<DumpUnsigned(Len(x.v), 4)>> \o [i \in DOMAIN x.v |-> Encode(x.v[i])])
    [] x.t = "dict"  ->
         DumpDict({<<Encode(e[1]), Encode(e[2])>> : e \in x.v}, Cardinality(x.v))

\* what a loader returns: the value and the bytes after it
Loaded(x, rest) == [ok |-> TRUE, value |-> x, rest |-> rest]
Failure == [ok |-> FALSE]
Failed(r) == ~r.ok

From(data, n) == SubSeq(data, n + 1, Len(data))
ToNumber(digits) == FoldLeft(LAMBDA n, d : n * Radix + d, 0, digits)

LoadWide(w, data) == Loaded(ToNumber(SubSeq(data, 1, w)), From(data, w))
\* the argument of an initial byte; a missing byte raises
LoadInt(info, data) ==
  IF info < Inline THEN Loaded(info, data)
  ELSE IF info > Inline + 3 \/ Len(data) < Widths[info - Inline + 1] THEN Failure
  ELSE LoadWide(Widths[info - Inline + 1], data)

\* bytes.decode("utf8"): the highest digit starts a character of two bytes
Utf8(s) == \A i \in DOMAIN s : s[i] = Radix - 1 => i < Len(s) /\ s[i + 1] # Radix - 1

\* data[:l], which is shorter when less is left
Take(n, data) == Loaded(BytesV(SubSeq(data, 1, n)), From(data, n))
LoadBytes(l) == IF Failed(l) THEN l ELSE Take(Min({l.value, Len(l.rest)}), l.rest)

LoadText(b) == IF Failed(b) \/ ~Utf8(b.value.v) THEN Failure ELSE Loaded(TextV(b.value.v), b.rest)

\* Python's equality of dict keys: True is 1 and False is 0
PyNumber(k) == IF k.t = "bool" THEN (IF k.v THEN 1 ELSE 0) ELSE k.v
SameKey(j, k) ==
  \/ j = k
  \/ {j.t, k.t} = {"int", "bool"} /\ PyNumber(j) = PyNumber(k)
Hashable(k) == k.t \notin {"array", "dict"}

\* values[k] = v: an equal key stays and its value is replaced
SetItem(d, k, x) ==
  IF \E e \in d : SameKey(e[1], k)
  THEN {IF SameKey(e[1], k) THEN <<e[1], x>> ELSE e : e \in d}
  ELSE d \cup {<<k, x>>}

RECURSIVE DecodeFrom(_), LoadArray(_, _, _), LoadMap(_, _, _)

\* the loader of the major type, given the argument of the initial byte
LoadMajor(byte, n, rest) ==
  LET major == byte \div (Inline + 8) IN
  IF major = 6 \/ (major \notin {2, 3, 7} /\ Failed(n)) THEN Failure ELSE
  CASE major = 7 -> Loaded(BoolV(byte % (Inline + 8) = True), rest)
    [] major = 2 -> LoadBytes(n)
    [] major = 3 -> LoadText(LoadBytes(n))
    [] major = 0 -> Loaded(IntV(n.value), n.rest)
    [] major = 1 -> Loaded(IntV(-1 - n.value), n.rest)
    [] major = 4 -> LoadArray(n.value, <<>>, n.rest)
    [] major = 5 -> LoadMap(n.value, {}, n.rest)
LoadArgument(byte, rest) == LoadMajor(byte, LoadInt(byte % (Inline + 8), rest), rest)

DecodeFrom(data) == IF data = <<>> THEN Failure ELSE LoadArgument(Head(data), Tail(data))

AppendLoaded(n, values, x) ==
  IF Failed(x) THEN x ELSE LoadArray(n - 1, Append(values, x.value), x.rest)
LoadArray(n, values, data) ==
  IF n = 0 THEN Loaded(ArrayV(values), data) ELSE AppendLoaded(n, values, DecodeFrom(data))

SetLoaded(n, values, k, x) ==
  IF Failed(x) \/ ~Hashable(k) THEN Failure ELSE LoadMap(n - 1, SetItem(values, k, x.value), x.rest)
SetValue(n, values, k) == IF Failed(k) THEN k ELSE SetLoaded(n, values, k.value, DecodeFrom(k.rest))
LoadMap(n, values, data) ==
  IF n = 0 THEN Loaded(DictV(values), data) ELSE SetValue(n, values, DecodeFrom(data))

\* what was read is returned if nothing is left over
Whole(p) == IF Failed(p) \/ p.rest # <<>> THEN Raised ELSE p.value

\* decode: nothing may follow the value
Decode(data) == Whole(DecodeFrom(data))

\* send_cbor: no body stands for an empty map, and a strict transport wants
\* the bytes to be those it would have written itself
WrittenAs(x, enc) == IF x = Raised \/ Encode(x) # enc THEN Raised ELSE x
StrictDecode(enc) == IF enc = <<>> THEN DictV({}) ELSE WrittenAs(Decode(enc), enc)

-----------------------------------------------------------------------------
\* the order CTAP2 asks for, said of the keys themselves: integers before byte
\* strings before text, smaller numbers and shorter strings first
Rank(k) == CASE k.t = "int" /\ k.v >= 0 -> 0 [] k.t = "int" /\ k.v < 0 -> 1
             [] k.t = "bytes" -> 2 [] k.t = "text" -> 3 [] OTHER -> 7
CanonicallyBefore(j, k) ==
  \/ Rank(j) < Rank(k)
  \/ /\ Rank(j) = Rank(k)
     /\ CASE j.t = "int" -> IF j.v >= 0 THEN j.v < k.v ELSE j.v > k.v
          [] j.t = "bool" -> ~j.v /\ k.v
          [] OTHER -> \/ Len(j.v) < Len(k.v)
                      \/ Len(j.v) = Len(k.v) /\ LexLess(j.v, k.v)

RECURSIVE Encodable(_)
Encodable(x) ==
  CASE x.t = "int"   -> -(Radix ^ 8) <= x.v /\ x.v < Radix ^ 8
    [] x.t = "array" -> \A i \in DOMAIN x.v : Encodable(x.v[i])
    [] x.t = "dict"  -> \A e \in x.v : Encodable(e[1]) /\ Encodable(e[2])
    [] OTHER         -> TRUE

RoundTrips(x) ==
  IF Encodable(x) THEN Decode(Encode(x)) = x ELSE Encode(x) = Raise

RECURSIVE KeysOf(_, _)
KeyAndMore(n, k) == <<k.value>> \o KeysOf(n - 1, DecodeFrom(k.rest).rest)
\* the keys of an encoded map in the order in which they stand
KeysOf(n, data) ==
  IF n = 0 THEN <<>>
  ELSE KeyAndMore(n, DecodeFrom(data))

Ordered(keys) == \A i, j \in DOMAIN keys : i < j => CanonicallyBefore(keys[i], keys[j])
KeysIn(n) == KeysOf(n.value, n.rest)
KeysWritten(bytes) == KeysIn(LoadInt(Head(bytes) % (Inline + 8), Tail(bytes)))
WrittenInOrder(x) == Encodable(x) /\ x.t = "dict" => Ordered(KeysWritten(Encode(x)))

NoPrefixPasses(bytes) == \A n \in 1..(Len(bytes) - 1) : StrictDecode(SubSeq(bytes, 1, n)) = Raised
CutIsNoticed(x) == Encodable(x) => NoPrefixPasses(Encode(x))
=============================================================================
