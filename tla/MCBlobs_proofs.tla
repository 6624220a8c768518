---------------------------- MODULE MCBlobs_proofs ----------------------------
(***************************************************************************)
(* Theorems of the large-blob array (LargeBlobs), for any number of        *)
(* platforms, keys, blobs, entries and fragments.                          *)
(***************************************************************************)
EXTENDS MCApplications, SequenceTheorems, WellFoundedInduction, TLAPS

-------------------------------------------------------------------------------
(* What a loop over a sequence picks from it                               *)

LEMMA LeastNumber ==
  ASSUME NEW T \in SUBSET Nat, T # {}
  PROVE  \E n \in T : \A m \in T : n <= m
<1>1. PICK n \in T : \A m \in T : ~(<<m, n>> \in OpToRel(<, Nat))
  BY NatLessThanWellFounded, WFMin, Zenon
<1>2. ASSUME NEW m \in T PROVE n <= m
  <2>1. m < n => <<m, n>> \in {ss \in Nat \X Nat : ss[1] < ss[2]}
    OBVIOUS
  <2>2. m < n => <<m, n>> \in OpToRel(<, Nat)
    BY <2>1 DEF OpToRel
  <2>3. ~(m < n)
    BY <1>1, <2>2, Zenon
  <2> QED BY <2>3
<1> QED BY <1>2

\* f[i] is what was picked of the first i elements, those at positions in K.
Picks(f, s, K) ==
  /\ f[0] = <<>>
  /\ \A i \in 1..Len(s) : f[i] = IF i \in K THEN Append(f[i - 1], s[i]) ELSE f[i - 1]

LEMMA PicksExist ==
  ASSUME NEW S, NEW s \in Seq(S), NEW K
  PROVE  \E f \in [0..Len(s) -> Seq(S)] : Picks(f, s, K)
<1> DEFINE Some(f, n) ==
             /\ f[0] = <<>>
             /\ \A i \in 1..n : f[i] = IF i \in K THEN Append(f[i - 1], s[i])
                                       ELSE f[i - 1]
           T == {n \in 0..Len(s) : ~\E f \in [0..n -> Seq(S)] : Some(f, n)}
<1>1. Len(s) \in Nat
  OBVIOUS
<1>2. SUFFICES ASSUME T # {} PROVE FALSE
  BY <1>1 DEF Picks
<1>3. PICK n \in T : \A m \in T : n <= m
  <2>1. T \in SUBSET Nat
    BY <1>1
  <2> HIDE DEF T
  <2> QED BY <1>2, <2>1, LeastNumber
<1>4. n # 0
  <2>1. [i \in 0..0 |-> <<>>] \in [0..0 -> Seq(S)]
    OBVIOUS
  <2>2. Some([i \in 0..0 |-> <<>>], 0)
    OBVIOUS
  <2> QED BY <2>1, <2>2
<1>5. n \in 1..Len(s) /\ n - 1 \in 0..Len(s) /\ n - 1 \notin T
  <2>1. n \in 0..Len(s)
    BY <1>3
  <2>2. n - 1 \notin T
    <3> HIDE DEF T
    <3> QED BY <1>1, <1>3, <2>1
  <2> HIDE DEF T
  <2> QED BY <1>1, <1>4, <2>1, <2>2
<1>6. PICK f \in [0..(n - 1) -> Seq(S)] : Some(f, n - 1)
  BY <1>5
<1> DEFINE g == [i \in 0..n |-> IF i < n THEN f[i]
                                ELSE IF n \in K THEN Append(f[n - 1], s[n])
                                ELSE f[n - 1]]
<1>7. f[n - 1] \in Seq(S) /\ s[n] \in S
  BY <1>5
<1>8. Append(f[n - 1], s[n]) \in Seq(S)
  BY <1>7, AppendProperties
<1>9. g \in [0..n -> Seq(S)]
  BY <1>5, <1>7, <1>8
<1>10. Some(g, n)
  <2>1. g[0] = <<>>
    BY <1>5, <1>6
  <2>2. ASSUME NEW i \in 1..n
        PROVE  g[i] = IF i \in K THEN Append(g[i - 1], s[i]) ELSE g[i - 1]
    <3>1. g[i - 1] = f[i - 1]
      BY <1>1, <1>5
    <3>2. CASE i = n
      BY <1>1, <1>5, <3>1, <3>2
    <3>3. CASE i < n
      <4>1. g[i] = f[i] /\ i \in 1..(n - 1)
        BY <1>1, <1>5, <3>3
      <4> QED BY <1>6, <3>1, <4>1
    <3> QED BY <1>1, <1>5, <3>2, <3>3
  <2> QED BY <2>1, <2>2
<1> QED BY <1>9, <1>10

\* Two loops that test alike pick alike.
LEMMA PicksAgree ==
  ASSUME NEW S, NEW s \in Seq(S), NEW K, NEW f, NEW g, Picks(f, s, K), Picks(g, s, K)
  PROVE  \A n \in 0..Len(s) : f[n] = g[n]
<1> DEFINE T == {n \in 0..Len(s) : f[n] # g[n]}
<1>1. Len(s) \in Nat
  OBVIOUS
<1>2. SUFFICES ASSUME T # {} PROVE FALSE
  OBVIOUS
<1>3. PICK n \in T : \A m \in T : n <= m
  <2>1. T \in SUBSET Nat
    BY <1>1
  <2> HIDE DEF T
  <2> QED BY <1>2, <2>1, LeastNumber
<1>4. n \in 0..Len(s) /\ f[n] # g[n]
  BY <1>3
<1>5. n # 0
  BY <1>4 DEF Picks
<1>6. n \in 1..Len(s) /\ n - 1 \in 0..Len(s) /\ n - 1 \notin T
  <2>1. n - 1 \notin T
    <3> HIDE DEF T
    <3> QED BY <1>1, <1>3, <1>4
  <2> QED BY <1>1, <1>4, <1>5, <2>1
<1>7. f[n - 1] = g[n - 1]
  BY <1>6
<1> QED BY <1>4, <1>6, <1>7 DEF Picks

\* What was picked are elements at positions in K.
LEMMA PicksArePicked ==
  ASSUME NEW S, NEW s \in Seq(S), NEW K, NEW f, Picks(f, s, K)
  PROVE  /\ f[Len(s)] \in Seq(S)
         /\ \A i \in 1..Len(f[Len(s)]) : \E j \in 1..Len(s) : j \in K /\ f[Len(s)][i] = s[j]
<1> DEFINE Q == {s[j] : j \in {k \in 1..Len(s) : k \in K}}
           Good(x) == x \in Seq(S) /\ x \in Seq(Q)
           T == {n \in 0..Len(s) : ~Good(f[n])}
<1>1. Len(s) \in Nat
  OBVIOUS
<1>2. ASSUME T # {} PROVE FALSE
  <2>1. PICK n \in T : \A m \in T : n <= m
    <3>1. T \in SUBSET Nat
      BY <1>1
    <3> HIDE DEF T
    <3> QED BY <1>2, <3>1, LeastNumber
  <2>2. n \in 0..Len(s) /\ ~Good(f[n])
    BY <2>1
  <2>3. Good(<<>>)
    OBVIOUS
  <2> HIDE DEF Good
  <2>4. n # 0
    BY <2>2, <2>3 DEF Picks
  <2>5. n \in 1..Len(s) /\ n - 1 \in 0..Len(s) /\ n - 1 \notin T
    <3>1. n - 1 \notin T
      <4> HIDE DEF T
      <4> QED BY <1>1, <2>1, <2>2
    <3> QED BY <1>1, <2>2, <2>4, <3>1
  <2>6. Good(f[n - 1])
    BY <2>5
  <2>7. n \in K => s[n] \in S /\ s[n] \in Q
    BY <2>5
  <2> HIDE DEF Q, T
  <2>8. n \in K => Good(Append(f[n - 1], s[n]))
    BY <2>6, <2>7, AppendProperties DEF Good
  <2>9. f[n] = f[n - 1] \/ (n \in K /\ f[n] = Append(f[n - 1], s[n]))
    BY <2>5 DEF Picks
  <2> QED BY <2>2, <2>6, <2>8, <2>9
<1>3. Good(f[Len(s)])
  <2> HIDE DEF Good
  <2> QED BY <1>1, <1>2
<1>4. \A i \in 1..Len(f[Len(s)]) : f[Len(s)][i] \in Q
  <2> HIDE DEF Q
  <2> QED BY <1>3, ElementOfSeq
<1> QED BY <1>3, <1>4

-------------------------------------------------------------------------------
(* The entries that are written back                                       *)

Entries == Seq(Blob!Entry)

\* The positions of the entries that put_blob keeps, and those that the
\* abstract array keeps.
KeptAt(a, k) == {i \in 1..Len(a) : ~Blob!Opens(k, a[i])}
OthersAt(a, k) == {i \in 1..Len(a) : a[i].key # k}

LEMMA KeptIsPicked ==
  ASSUME NEW a \in Entries, NEW k
  PROVE  \E f : Picks(f, a, KeptAt(a, k)) /\ Blob!Kept(a, k) = f[Len(a)]
<1> DEFINE body(f) == [i \in 0..Len(a) |->
                         IF i = 0 THEN <<>>
                         ELSE IF Blob!Opens(k, a[i]) THEN f[i - 1]
                         ELSE Append(f[i - 1], a[i])]
           entries == CHOOSE f : f = body(f)
<1>1. Len(a) \in Nat
  BY DEF Entries
<1>2. PICK g \in [0..Len(a) -> Entries] : Picks(g, a, KeptAt(a, k))
  BY PicksExist DEF Entries
<1>3. g = body(g)
  <2>1. ASSUME NEW i \in 0..Len(a)
        PROVE  g[i] = body(g)[i]
    <3>1. CASE i = 0
      BY <1>2, <3>1 DEF Picks
    <3>2. CASE i # 0
      <4>1. i \in 1..Len(a) /\ (i \in KeptAt(a, k) <=> ~Blob!Opens(k, a[i]))
        BY <1>1, <3>2 DEF KeptAt
      <4> QED BY <1>2, <4>1 DEF Picks
    <3> QED BY <3>1, <3>2
  <2>2. g = [i \in 0..Len(a) |-> g[i]]
    BY <1>2
  <2> QED BY <2>1, <2>2
<1>4. entries = body(entries)
  <2> HIDE DEF body
  <2> QED BY <1>3
<1>5. Blob!Kept(a, k) = entries[Len(a)]
  BY DEF Blob!Kept
<1> HIDE DEF entries
<1>6. entries[0] = <<>>
  BY <1>1, <1>4
<1>7. ASSUME NEW i \in 1..Len(a)
      PROVE  entries[i] = IF i \in KeptAt(a, k) THEN Append(entries[i - 1], a[i])
                          ELSE entries[i - 1]
  <2>1. i \in 0..Len(a) /\ i # 0 /\ (i \in KeptAt(a, k) <=> ~Blob!Opens(k, a[i]))
    BY <1>1 DEF KeptAt
  <2>2. body(entries)[i] = IF i \in KeptAt(a, k) THEN Append(entries[i - 1], a[i])
                     ELSE entries[i - 1]
    BY <2>1
  <2> HIDE DEF body
  <2> QED BY <1>4, <2>2
<1> QED BY <1>5, <1>6, <1>7 DEF Picks

LEMMA WithoutIsPicked ==
  ASSUME NEW a \in Entries, NEW k
  PROVE  \E f : Picks(f, a, OthersAt(a, k)) /\ Blob!Array!Without(a, k) = f[Len(a)]
<1> DEFINE body(f) == [i \in 0..Len(a) |->
                         IF i = 0 THEN <<>>
                         ELSE IF a[i].key # k THEN Append(f[i - 1], a[i])
                         ELSE f[i - 1]]
           others == CHOOSE f : f = body(f)
<1>1. Len(a) \in Nat
  BY DEF Entries
<1>2. PICK g \in [0..Len(a) -> Entries] : Picks(g, a, OthersAt(a, k))
  BY PicksExist DEF Entries
<1>3. g = body(g)
  <2>1. ASSUME NEW i \in 0..Len(a)
        PROVE  g[i] = body(g)[i]
    <3>1. CASE i = 0
      BY <1>2, <3>1 DEF Picks
    <3>2. CASE i # 0
      <4>1. i \in 1..Len(a) /\ (i \in OthersAt(a, k) <=> a[i].key # k)
        BY <1>1, <3>2 DEF OthersAt
      <4> QED BY <1>2, <4>1 DEF Picks
    <3> QED BY <3>1, <3>2
  <2>2. g = [i \in 0..Len(a) |-> g[i]]
    BY <1>2
  <2> QED BY <2>1, <2>2
<1>4. others = body(others)
  <2> HIDE DEF body
  <2> QED BY <1>3
<1>5. Blob!Array!Without(a, k) = others[Len(a)]
  BY DEF Blob!Array!Without
<1> HIDE DEF others
<1>6. others[0] = <<>>
  BY <1>1, <1>4
<1>7. ASSUME NEW i \in 1..Len(a)
      PROVE  others[i] = IF i \in OthersAt(a, k) THEN Append(others[i - 1], a[i])
                         ELSE others[i - 1]
  <2>1. i \in 0..Len(a) /\ i # 0 /\ (i \in OthersAt(a, k) <=> a[i].key # k)
    BY <1>1 DEF OthersAt
  <2>2. body(others)[i] = IF i \in OthersAt(a, k) THEN Append(others[i - 1], a[i])
                     ELSE others[i - 1]
    BY <2>1
  <2> HIDE DEF body
  <2> QED BY <1>4, <2>2
<1> QED BY <1>5, <1>6, <1>7 DEF Picks

\* Entries that do not open are written back, and nothing else; without odd
\* ones, they are those of other keys.
LEMMA KeptEntries ==
  ASSUME NEW a \in Entries, NEW k
  PROVE  /\ Blob!Kept(a, k) \in Entries
         /\ \A i \in 1..Len(Blob!Kept(a, k)) : ~Blob!Opens(k, Blob!Kept(a, k)[i])
         /\ (\A i \in 1..Len(a) : a[i].kind # "odd")
              => Blob!Kept(a, k) = Blob!Array!Without(a, k)
<1>1. PICK f : Picks(f, a, KeptAt(a, k)) /\ Blob!Kept(a, k) = f[Len(a)]
  BY KeptIsPicked
<1>2. /\ Blob!Kept(a, k) \in Entries
      /\ \A i \in 1..Len(Blob!Kept(a, k)) :
           \E j \in 1..Len(a) : j \in KeptAt(a, k) /\ Blob!Kept(a, k)[i] = a[j]
  BY <1>1, PicksArePicked DEF Entries
<1>3. \A i \in 1..Len(Blob!Kept(a, k)) : ~Blob!Opens(k, Blob!Kept(a, k)[i])
  BY <1>2 DEF KeptAt
<1>4. ASSUME \A i \in 1..Len(a) : a[i].kind # "odd"
      PROVE  Blob!Kept(a, k) = Blob!Array!Without(a, k)
  <2>1. KeptAt(a, k) = OthersAt(a, k)
    BY <1>4 DEF KeptAt, OthersAt, Blob!Opens
  <2>2. PICK g : Picks(g, a, OthersAt(a, k)) /\ Blob!Array!Without(a, k) = g[Len(a)]
    BY WithoutIsPicked
  <2>3. Len(a) \in 0..Len(a)
    BY DEF Entries
  <2> QED BY <1>1, <2>1, <2>2, <2>3, PicksAgree DEF Entries
<1> QED BY <1>2, <1>3, <1>4

-------------------------------------------------------------------------------
(* The serialized array                                                    *)

Units == Blob!Entry \cup {Blob!Hash(a) : a \in Entries}

LEMMA HashIsNoEntry ==
  ASSUME NEW e \in Blob!Entry, NEW a
  PROVE  e # Blob!Hash(a)
<1>1. "key" \in DOMAIN e
  BY DEF Blob!Entry
<1>2. "key" \notin DOMAIN Blob!Hash(a)
  BY DEF Blob!Hash
<1> QED BY <1>1, <1>2

LEMMA HashIsInjective ==
  ASSUME NEW a, NEW b, Blob!Hash(a) = Blob!Hash(b)
  PROVE  a = b
<1>1. Blob!Hash(a).hash = a /\ Blob!Hash(b).hash = b
  BY DEF Blob!Hash
<1> QED BY <1>1

LEMMA FrontAndLast ==
  ASSUME NEW S, NEW s \in Seq(S), s # <<>>
  PROVE  /\ Len(s) \in Nat \ {0}
         /\ Blob!Front(s) \in Seq(S) /\ Len(Blob!Front(s)) = Len(s) - 1
         /\ \A i \in 1..(Len(s) - 1) : Blob!Front(s)[i] = s[i]
         /\ Blob!Last(s) \in S
         /\ s = Append(Blob!Front(s), Blob!Last(s))
<1>1. Len(s) \in Nat \ {0}
  BY EmptySeq
<1>2. /\ Blob!Front(s) \in Seq(S) /\ Len(Blob!Front(s)) = Len(s) - 1
      /\ \A i \in 1..(Len(s) - 1) : Blob!Front(s)[i] = s[i]
  <2>1. \A i \in 1..(Len(s) - 1) : s[i] \in S
    BY <1>1
  <2>2. /\ SubSeq(s, 1, Len(s) - 1) \in Seq(S)
        /\ Len(SubSeq(s, 1, Len(s) - 1)) = Len(s) - 1
        /\ \A i \in 1..(Len(s) - 1) : SubSeq(s, 1, Len(s) - 1)[i] = s[i]
    <3> DEFINE n == Len(s) - 1
    <3>1. n \in Nat
      BY <1>1
    <3> HIDE DEF n
    <3>2. /\ SubSeq(s, 1, n) \in Seq(S)
          /\ Len(SubSeq(s, 1, n)) = IF 1 <= n THEN n - 1 + 1 ELSE 0
          /\ \A i \in 1..(n - 1 + 1) : SubSeq(s, 1, n)[i] = s[1 + i - 1]
      BY <2>1, <3>1, SubSeqProperties DEF n
    <3>3. /\ Len(SubSeq(s, 1, n)) = n
          /\ \A i \in 1..n : SubSeq(s, 1, n)[i] = s[i]
      BY <3>1, <3>2
    <3> QED BY <3>2, <3>3 DEF n
  <2> QED BY <2>2 DEF Blob!Front
<1>3. Blob!Last(s) \in S /\ Blob!Last(s) = s[Len(s)]
  BY <1>1 DEF Blob!Last
<1>4. s = Append(Blob!Front(s), Blob!Last(s))
  <2>1. /\ Append(Blob!Front(s), Blob!Last(s)) \in Seq(S)
        /\ Len(Append(Blob!Front(s), Blob!Last(s))) = Len(s)
        /\ \A i \in 1..(Len(s) - 1) : Append(Blob!Front(s), Blob!Last(s))[i] = s[i]
        /\ Append(Blob!Front(s), Blob!Last(s))[Len(s)] = s[Len(s)]
    BY <1>1, <1>2, <1>3, AppendProperties
  <2>2. ASSUME NEW i \in 1..Len(s)
        PROVE  Append(Blob!Front(s), Blob!Last(s))[i] = s[i]
    <3>1. i \in 1..(Len(s) - 1) \/ i = Len(s)
      BY <1>1
    <3> QED BY <2>1, <3>1, Zenon
  <2> QED BY <2>1, <2>2, SeqEqual
<1> QED BY <1>1, <1>2, <1>3, <1>4

LEMMA Encoded ==
  ASSUME NEW a \in Entries
  PROVE  /\ Blob!Encode(a) \in Seq(Units) /\ Blob!Encode(a) # <<>>
         /\ Len(Blob!Encode(a)) = Len(a) + 1
         /\ \A i \in 1..Len(a) : Blob!Encode(a)[i] \in Blob!Entry
         /\ Blob!Encode(a)[Len(a) + 1] = Blob!Hash(a)
         /\ Blob!Decode(Blob!Encode(a)) = a
<1>1. a \in Seq(Units) /\ Blob!Hash(a) \in Units /\ Len(a) \in Nat
  <2>1. Blob!Entry \subseteq Units /\ Blob!Hash(a) \in Units
    BY DEF Units
  <2> QED BY <2>1, SeqMonotonic DEF Entries
<1>2. /\ Blob!Encode(a) \in Seq(Units) /\ Blob!Encode(a) # <<>>
      /\ Len(Blob!Encode(a)) = Len(a) + 1
      /\ \A i \in 1..Len(a) : Blob!Encode(a)[i] = a[i]
      /\ Blob!Encode(a)[Len(a) + 1] = Blob!Hash(a)
  BY <1>1, AppendProperties DEF Blob!Encode
<1>3. \A i \in 1..Len(a) : a[i] \in Blob!Entry
  BY DEF Entries
<1>4. Blob!Front(Blob!Encode(a)) = a /\ Blob!Last(Blob!Encode(a)) = Blob!Hash(a)
  <2>1. /\ Blob!Front(Blob!Encode(a)) \in Seq(Units)
        /\ Len(Blob!Front(Blob!Encode(a))) = Len(a)
        /\ \A i \in 1..Len(a) : Blob!Front(Blob!Encode(a))[i] = Blob!Encode(a)[i]
    <3> DEFINE s == Blob!Encode(a)
    <3>1. /\ Blob!Front(s) \in Seq(Units) /\ Len(Blob!Front(s)) = Len(s) - 1
          /\ \A i \in 1..(Len(s) - 1) : Blob!Front(s)[i] = s[i]
      BY <1>2, FrontAndLast, Zenon
    <3>2. Len(s) - 1 = Len(a)
      BY <1>1, <1>2
    <3> HIDE DEF s
    <3>3. /\ Blob!Front(s) \in Seq(Units) /\ Len(Blob!Front(s)) = Len(a)
          /\ \A i \in 1..Len(a) : Blob!Front(s)[i] = s[i]
      BY <3>1, <3>2, Zenon
    <3> QED BY <3>3 DEF s
  <2>2. Blob!Front(Blob!Encode(a)) = a
    BY <1>1, <1>2, <2>1, SeqEqual
  <2> QED BY <1>2, <2>2 DEF Blob!Last
<1> QED BY <1>2, <1>3, <1>4 DEF Blob!Decode

\* What passes the comparison of the hash is an array whose hash is among the
\* units; what does not is an empty array.
LEMMA Decoded ==
  ASSUME NEW A \in SUBSET Entries, NEW units \in Seq(Units),
         \A i \in 1..Len(units) :
           units[i] \in Blob!Entry \cup {Blob!Hash(a) : a \in A}
  PROVE  /\ Blob!Decode(units) \in A \cup {<<>>}
         /\ units # <<>> /\ Blob!Last(units) = Blob!Hash(Blob!Front(units))
              => /\ Blob!Front(units) \in A
                 /\ units = Blob!Encode(Blob!Front(units))
<1>1. ASSUME units # <<>>, Blob!Last(units) = Blob!Hash(Blob!Front(units))
      PROVE  /\ Blob!Front(units) \in A
             /\ units = Blob!Encode(Blob!Front(units))
  <2>1. Len(units) \in 1..Len(units) /\ units = Append(Blob!Front(units), Blob!Last(units))
    BY <1>1, FrontAndLast
  <2>2. Blob!Last(units) \in Blob!Entry \cup {Blob!Hash(a) : a \in A}
    BY <2>1 DEF Blob!Last
  <2>3. PICK a \in A : Blob!Last(units) = Blob!Hash(a)
    BY <1>1, <2>2, HashIsNoEntry
  <2>4. Blob!Front(units) = a
    BY <1>1, <2>3, HashIsInjective
  <2> QED BY <1>1, <2>1, <2>4 DEF Blob!Encode
<1> QED BY <1>1 DEF Blob!Decode

LEMMA ReplacedEntries ==
  ASSUME NEW a \in Entries, NEW o \in Blob!Operations
  PROVE  Blob!Replaced(a, o) \in Entries
<1>1. Blob!Kept(a, o.key) \in Entries
  BY KeptEntries
<1>2. CASE o.val = NoValue
  BY <1>1, <1>2, ConcatEmptySeq DEF Blob!Replaced, Entries
<1>3. CASE o.val # NoValue
  <2>1. [key |-> o.key, val |-> o.val, kind |-> "good"] \in Blob!Entry
    BY <1>3 DEF Blob!Operations, Blob!Entry
  <2>2. <<[key |-> o.key, val |-> o.val, kind |-> "good"]>> \in Entries
    BY <2>1 DEF Entries
  <2> QED BY <1>1, <1>3, <2>2, ConcatProperties DEF Blob!Replaced, Entries
<1> QED BY <1>2, <1>3

-------------------------------------------------------------------------------
(* The inductive invariant                                                 *)

Results == {"none", "done", "raised", NoValue} \cup Blobs

BlobType ==
  /\ pc \in [Platforms -> {"idle", "read", "write"}]
  /\ op \in [Platforms -> Blob!Operations] /\ offset \in [Platforms -> Nat]
  /\ buf \in [Platforms -> Seq(Units)] /\ data \in [Platforms -> Seq(Units)]
  /\ result \in [Platforms -> Results]
  /\ seen \in [Platforms -> SUBSET Entries]
  /\ pending \in Seq(Units) /\ size \in Nat

\* The array is whole whatever the fragments of a write were.
ArrayIsWhole == \E a \in Entries : blobArray = Blob!Encode(a)

\* What a platform has read of it: entries, and hashes of arrays stored while
\* it was reading. If there was one only, what it has read is the start of it.
Reading(p) ==
  pc[p] = "read" =>
    /\ Blob!Decode(blobArray) \in seen[p]
    /\ \A i \in 1..Len(buf[p]) :
         buf[p][i] \in Blob!Entry \cup {Blob!Hash(a) : a \in seen[p]}
    /\ \A b : seen[p] = {b} => /\ offset[p] <= Len(blobArray)
                               /\ buf[p] = SubSeq(blobArray, 1, offset[p])

\* What it writes was made of one of those arrays, or of the empty one if the
\* hash did not match; if there was one only, of that.
MadeFrom(p, a) ==
  /\ data[p] = Blob!Encode(Blob!Replaced(a, op[p]))
  /\ \A i \in 1..Len(a) : a[i].kind # "odd"
  /\ \A b : seen[p] = {b} => a = b

Writing(p) ==
  pc[p] = "write" => /\ offset[p] < Len(data[p])
                     /\ \E a \in seen[p] \cup {<<>>} : MadeFrom(p, a)

Honest(p) ==
  pc[p] = "idle" /\ op[p].kind = "get" /\ result[p] \in Blobs
    => \E a \in seen[p] : Blob!BlobOf(a, op[p].key) = result[p]

BlobInv ==
  /\ BlobType /\ ArrayIsWhole
  /\ \A p \in Platforms : Reading(p) /\ Writing(p) /\ Honest(p)

\* What any platform's step may do to the others: the array, where it changes,
\* changes to a whole one, and whoever is reading may see it.
SeenByOthers(p) ==
  /\ ArrayIsWhole'
  /\ \A q \in Platforms \ {p} :
       /\ pc'[q] = pc[q] /\ op'[q] = op[q] /\ offset'[q] = offset[q]
       /\ buf'[q] = buf[q] /\ data'[q] = data[q] /\ result'[q] = result[q]
       /\ \/ seen'[q] = seen[q] /\ (pc[q] = "read" => blobArray' = blobArray)
          \/ /\ pc[q] = "read"
             /\ seen'[q] = seen[q] \cup {Blob!Decode(blobArray')}

LEMMA OthersKept ==
  ASSUME BlobInv, NEW p \in Platforms, SeenByOthers(p), NEW q \in Platforms \ {p}
  PROVE  Reading(q)' /\ Writing(q)' /\ Honest(q)'
<1>1. /\ pc'[q] = pc[q] /\ op'[q] = op[q] /\ offset'[q] = offset[q]
      /\ buf'[q] = buf[q] /\ data'[q] = data[q] /\ result'[q] = result[q]
      /\ Reading(q) /\ Writing(q) /\ Honest(q)
  BY DEF SeenByOthers, BlobInv
<1>2. CASE seen'[q] = seen[q] /\ (pc[q] = "read" => blobArray' = blobArray)
  BY <1>1, <1>2 DEF Reading, Writing, MadeFrom, Honest
<1>3. CASE pc[q] = "read" /\ seen'[q] = seen[q] \cup {Blob!Decode(blobArray')}
  <2>1. Writing(q)' /\ Honest(q)'
    BY <1>1, <1>3 DEF Writing, Honest
  <2>2. /\ Blob!Decode(blobArray) \in seen[q]
        /\ \A i \in 1..Len(buf[q]) :
             buf[q][i] \in Blob!Entry \cup {Blob!Hash(a) : a \in seen[q]}
        /\ \A b : seen[q] = {b} => /\ offset[q] <= Len(blobArray)
                                   /\ buf[q] = SubSeq(blobArray, 1, offset[q])
    BY <1>1, <1>3 DEF Reading
  <2>3. \A i \in 1..Len(buf[q]) :
          buf[q][i] \in Blob!Entry \cup {Blob!Hash(a) : a \in seen'[q]}
    BY <1>3, <2>2
  <2>4. ASSUME NEW b, seen'[q] = {b}
        PROVE  /\ offset[q] <= Len(blobArray')
               /\ buf[q] = SubSeq(blobArray', 1, offset[q])
    <3>1. seen[q] = {b} /\ Blob!Decode(blobArray) = b /\ Blob!Decode(blobArray') = b
      BY <1>3, <2>2, <2>4
    <3>2. blobArray' = blobArray
      <4>1. PICK a \in Entries : blobArray = Blob!Encode(a)
        BY DEF BlobInv, ArrayIsWhole
      <4>2. PICK c \in Entries : blobArray' = Blob!Encode(c)
        BY DEF SeenByOthers, ArrayIsWhole
      <4> QED BY <3>1, <4>1, <4>2, Encoded
    <3> QED BY <2>2, <3>1, <3>2
  <2> QED BY <1>1, <1>3, <2>1, <2>3, <2>4 DEF Reading
<1> QED BY <1>2, <1>3 DEF SeenByOthers

\* A platform that returns or raises is none that reads or writes.
LEMMA FinishKept ==
  ASSUME BlobInv, NEW p \in Platforms, NEW r \in Results, Blob!Finish(p, r),
         op' = op, SeenByOthers(p),
         seen' \in [Platforms -> SUBSET Entries],
         pending' \in Seq(Units), size' \in Nat,
         op[p].kind = "get" /\ r \in Blobs
           => \E a \in seen'[p] : Blob!BlobOf(a, op[p].key) = r
  PROVE  BlobInv'
<1> USE DEF Blob!Finish, Blob!Set
<1>1. <<>> \in Seq(Units)
  OBVIOUS
<1>2. BlobType'
  BY <1>1 DEF BlobInv, BlobType
<1>3. pc'[p] = "idle" /\ result'[p] = r
  BY DEF BlobInv, BlobType
<1>4. Reading(p)' /\ Writing(p)' /\ Honest(p)'
  BY <1>3 DEF Reading, Writing, Honest
<1>5. \A q \in Platforms : (Reading(q) /\ Writing(q) /\ Honest(q))'
  BY <1>4, OthersKept
<1> QED BY <1>2, <1>5 DEF BlobInv, SeenByOthers

-------------------------------------------------------------------------------
(* Reading                                                                 *)

LEMMA LesserOf ==
  ASSUME NEW m \in Nat, NEW n \in Nat
  PROVE  Blob!Min({m, n}) = IF m <= n THEN m ELSE n
<1> DEFINE least == IF m <= n THEN m ELSE n
           IsLeast(x) == \A y \in {m, n} : x <= y
<1>1. least \in {m, n} /\ IsLeast(least)
  OBVIOUS
<1>2. Blob!Min({m, n}) = CHOOSE x \in {m, n} : IsLeast(x)
  BY DEF Blob!Min
<1>3. (CHOOSE x \in {m, n} : IsLeast(x)) \in {m, n}
      /\ IsLeast(CHOOSE x \in {m, n} : IsLeast(x))
  <2> HIDE DEF IsLeast
  <2> QED BY <1>1
<1> QED BY <1>2, <1>3

\* The next fragment of a sequence, and how far it goes.
LEMMA NextPiece ==
  ASSUME NEW S, NEW s \in Seq(S), NEW o \in Nat, o <= Len(s)
  PROVE  LET upTo == Blob!Min({o + FragmentLen, Len(s)})
             piece == SubSeq(s, o + 1, upTo)
         IN  /\ upTo \in o..Len(s) /\ piece \in Seq(S) /\ Len(piece) = upTo - o
             /\ \A i \in 1..Len(piece) : piece[i] = s[o + i]
             /\ o < Len(s) => upTo > o
             /\ IF Len(piece) = FragmentLen THEN upTo = o + FragmentLen
                                            ELSE upTo = Len(s)
<1> DEFINE upTo == Blob!Min({o + FragmentLen, Len(s)})
           piece == SubSeq(s, o + 1, upTo)
<1>1. FragmentLen \in Nat \ {0} /\ Len(s) \in Nat
  BY BlobGiven DEF Blob!BlobAssumption
<1>2. upTo = IF o + FragmentLen <= Len(s) THEN o + FragmentLen ELSE Len(s)
  BY <1>1, LesserOf
<1> HIDE DEF upTo
<1>3. upTo \in o..Len(s) /\ (o < Len(s) => upTo > o)
  BY <1>1, <1>2
<1>4. \A i \in (o + 1)..upTo : s[i] \in S
  BY <1>1, <1>3
<1>5. /\ piece \in Seq(S) /\ Len(piece) = upTo - o
      /\ \A i \in 1..(upTo - o) : piece[i] = s[o + i]
  <2>1. o + 1 \in Int /\ upTo \in Int
    BY <1>1, <1>3
  <2>2. /\ piece \in Seq(S)
        /\ Len(piece) = IF o + 1 <= upTo THEN upTo - (o + 1) + 1 ELSE 0
        /\ \A i \in 1..(upTo - (o + 1) + 1) : piece[i] = s[o + 1 + i - 1]
    BY <1>4, <2>1, SubSeqProperties
  <2>3. Len(piece) = upTo - o /\ upTo - (o + 1) + 1 = upTo - o
    BY <1>1, <1>3, <2>2
  <2>4. \A i \in 1..(upTo - o) : o + 1 + i - 1 = o + i
    BY <1>1, <1>3
  <2> QED BY <2>2, <2>3, <2>4
<1>6. IF Len(piece) = FragmentLen THEN upTo = o + FragmentLen ELSE upTo = Len(s)
  <2>1. Len(piece) = upTo - o
    BY <1>5
  <2> HIDE DEF piece
  <2> QED BY <1>1, <1>2, <1>3, <2>1
<1> QED BY <1>3, <1>5, <1>6 DEF upTo

LEMMA StartKept ==
  ASSUME BlobInv, NEW p \in Platforms, NEW o \in Blob!Operations, Blob!Start(p, o)
  PROVE  BlobInv'
<1> USE DEF Blob!Start, Blob!Set, Blob!deviceVars
<1>1. PICK a \in Entries : blobArray = Blob!Encode(a) /\ blobArray \in Seq(Units)
  BY Encoded DEF BlobInv, ArrayIsWhole
<1>2. Blob!Decode(blobArray) \in Entries
  BY <1>1, Encoded
<1>3. BlobType'
  <2>1. <<>> \in Seq(Units) /\ {Blob!Decode(blobArray)} \in SUBSET Entries
    BY <1>2
  <2> QED BY <2>1 DEF BlobInv, BlobType, Results
<1>4. SeenByOthers(p)
  BY DEF BlobInv, BlobType, SeenByOthers, ArrayIsWhole
<1>5. pc'[p] = "read" /\ offset'[p] = 0 /\ buf'[p] = <<>> /\ blobArray' = blobArray
      /\ seen'[p] = {Blob!Decode(blobArray)}
  BY DEF BlobInv, BlobType
<1>6. SubSeq(blobArray, 1, 0) = <<>> /\ 0 <= Len(blobArray)
  BY <1>1, SubSeqEmpty
<1>7. Reading(p)' /\ Writing(p)' /\ Honest(p)'
  <2>1. Len(buf'[p]) = 0
    BY <1>5
  <2>2. Reading(p)'
    <3>1. \A i \in 1..Len(buf'[p]) :
            buf'[p][i] \in Blob!Entry \cup {Blob!Hash(x) : x \in seen'[p]}
      BY <2>1
    <3>2. offset'[p] <= Len(blobArray') /\ buf'[p] = SubSeq(blobArray', 1, offset'[p])
      BY <1>5, <1>6
    <3>3. Blob!Decode(blobArray') \in seen'[p]
      BY <1>5
    <3> QED BY <3>1, <3>2, <3>3 DEF Reading
  <2> QED BY <1>5, <2>2 DEF Writing, Honest
<1>8. \A q \in Platforms : (Reading(q) /\ Writing(q) /\ Honest(q))'
  BY <1>4, <1>7, OthersKept
<1> QED BY <1>3, <1>4, <1>8 DEF BlobInv, SeenByOthers

FirstOf(T) == IF T # {} THEN Blob!Min(T) ELSE 0

\* Where get_blob stops.
StopsAt(array, k) ==
  {j \in 1..Len(array) : array[j].kind = "odd"
                           \/ (array[j].key = k /\ array[j].kind = "good")}

\* What get_blob finds first among the entries it can open, or cannot bear, is
\* the blob of the key.
LEMMA FoundFirst ==
  ASSUME NEW array \in Entries, NEW k,
         NEW i, i = FirstOf(StopsAt(array, k)),
         i # 0, array[i].kind # "odd"
  PROVE  /\ i \in 1..Len(array)
         /\ Blob!BlobOf(array, k) = array[i].val
<1> DEFINE I == StopsAt(array, k)
           J == {j \in 1..Len(array) : array[j].key = k /\ array[j].kind = "good"}
           LeastOf(T, x) == \A y \in T : x <= y
<1>0. Len(array) \in Nat
  BY DEF Entries
<1>1. ASSUME NEW T \in SUBSET (1..Len(array)), T # {}
      PROVE  /\ Blob!Min(T) \in T /\ LeastOf(T, Blob!Min(T))
             /\ \A x \in T : LeastOf(T, x) => x = Blob!Min(T)
  <2>1. T \in SUBSET Nat
    BY <1>0
  <2>2. \E x \in T : LeastOf(T, x)
    BY <1>1, <2>1, LeastNumber
  <2>3. Blob!Min(T) = CHOOSE x \in T : LeastOf(T, x)
    BY DEF Blob!Min
  <2>4. Blob!Min(T) \in T /\ LeastOf(T, Blob!Min(T))
    <3> HIDE DEF LeastOf
    <3> QED BY <2>2, <2>3
  <2>5. ASSUME NEW x \in T, LeastOf(T, x)
        PROVE  x = Blob!Min(T)
    <3> DEFINE m == Blob!Min(T)
    <3>1. x \in Nat /\ m \in Nat
      BY <2>1, <2>4
    <3>2. x <= m /\ m <= x
      BY <2>4, <2>5
    <3> HIDE DEF m
    <3>3. x = m
      BY <3>1, <3>2
    <3> QED BY <3>3 DEF m
  <2> QED BY <2>4, <2>5
<1>2. i = IF I # {} THEN Blob!Min(I) ELSE 0
  BY DEF FirstOf
<1>3. I \in SUBSET (1..Len(array)) /\ J \in SUBSET (1..Len(array)) /\ J \subseteq I
  BY DEF StopsAt
<1>4. i \in I /\ LeastOf(I, i)
  <2> HIDE DEF I, LeastOf
  <2> QED BY <1>1, <1>2, <1>3
<1>5. i \in J
  BY <1>4 DEF StopsAt
<1>6. LeastOf(J, i)
  BY <1>3, <1>4
<1>7. Blob!BlobOf(array, k) = IF J # {} THEN array[Blob!Min(J)].val ELSE NoValue
  <2>1. Blob!SelectInSeq(array, LAMBDA e : e.key = k /\ e.kind = "good")
          = IF J # {} THEN Blob!Min(J) ELSE 0
    BY DEF Blob!SelectInSeq
  <2>2. J # {} => Blob!Min(J) # 0
    <3> HIDE DEF J, LeastOf
    <3> QED BY <1>0, <1>1, <1>3
  <2> HIDE DEF J
  <2> QED BY <2>1, <2>2 DEF Blob!BlobOf
<1>8. i = Blob!Min(J)
  <2> HIDE DEF J, LeastOf
  <2> QED BY <1>1, <1>3, <1>5, <1>6
<1> QED BY <1>4, <1>5, <1>7, <1>8

\* What a platform has with one more fragment, and when it has all.
LEMMA GotFragment ==
  ASSUME BlobInv, NEW p \in Platforms, pc[p] = "read", offset[p] <= Len(blobArray)
  PROVE  LET fragment == Blob!FragmentAt(offset[p])
             got == buf[p] \o fragment
         IN  /\ got \in Seq(Units)
             /\ \A i \in 1..Len(got) :
                  got[i] \in Blob!Entry \cup {Blob!Hash(a) : a \in seen[p]}
             /\ \A b : seen[p] = {b} =>
                  IF Len(fragment) = FragmentLen
                  THEN /\ offset[p] + FragmentLen <= Len(blobArray)
                       /\ got = SubSeq(blobArray, 1, offset[p] + FragmentLen)
                  ELSE Blob!Decode(got) = b
<1> DEFINE o == offset[p]
           upTo == Blob!Min({o + FragmentLen, Len(blobArray)})
           fragment == Blob!FragmentAt(offset[p])
           got == buf[p] \o fragment
           Fits(u) == u \in Blob!Entry \cup {Blob!Hash(a) : a \in seen[p]}
<1>1. /\ o \in Nat /\ buf[p] \in Seq(Units)
      /\ Blob!Decode(blobArray) \in seen[p]
      /\ \A i \in 1..Len(buf[p]) : Fits(buf[p][i])
      /\ \A b : seen[p] = {b} => buf[p] = SubSeq(blobArray, 1, o)
  BY DEF BlobInv, BlobType, Reading
<1>2. PICK a \in Entries : blobArray = Blob!Encode(a)
  BY DEF BlobInv, ArrayIsWhole
<1>3. /\ blobArray \in Seq(Units) /\ Len(blobArray) \in Nat /\ a \in seen[p]
      /\ \A i \in 1..Len(blobArray) : Fits(blobArray[i])
  <2>1. /\ blobArray \in Seq(Units) /\ Len(a) \in Nat /\ Len(blobArray) = Len(a) + 1
        /\ a \in seen[p]
    BY <1>1, <1>2, Encoded DEF Entries
  <2>2. ASSUME NEW i \in 1..Len(blobArray)
        PROVE  Fits(blobArray[i])
    <3>1. i \in 1..Len(a) \/ i = Len(a) + 1
      BY <2>1
    <3> QED BY <1>2, <2>1, <3>1, Encoded
  <2> QED BY <2>1, <2>2
<1>4. fragment = SubSeq(blobArray, o + 1, upTo)
  BY DEF Blob!FragmentAt
<1> HIDE DEF Fits, fragment, upTo, o
<1>5. o <= Len(blobArray)
  BY DEF o
<1>6. /\ upTo \in o..Len(blobArray) /\ fragment \in Seq(Units)
      /\ Len(fragment) = upTo - o
      /\ \A i \in 1..Len(fragment) : fragment[i] = blobArray[o + i]
      /\ IF Len(fragment) = FragmentLen THEN upTo = o + FragmentLen
                                        ELSE upTo = Len(blobArray)
  <2>1. /\ upTo \in o..Len(blobArray)
        /\ SubSeq(blobArray, o + 1, upTo) \in Seq(Units)
        /\ Len(SubSeq(blobArray, o + 1, upTo)) = upTo - o
        /\ \A i \in 1..Len(SubSeq(blobArray, o + 1, upTo)) :
             SubSeq(blobArray, o + 1, upTo)[i] = blobArray[o + i]
        /\ IF Len(SubSeq(blobArray, o + 1, upTo)) = FragmentLen
           THEN upTo = o + FragmentLen ELSE upTo = Len(blobArray)
    BY <1>1, <1>3, <1>5, NextPiece, Zenon DEF upTo
  <2> QED BY <1>4, <2>1, Zenon
<1>7. /\ got \in Seq(Units) /\ Len(got) = Len(buf[p]) + Len(fragment)
      /\ \A i \in 1..(Len(buf[p]) + Len(fragment)) :
           got[i] = IF i <= Len(buf[p]) THEN buf[p][i] ELSE fragment[i - Len(buf[p])]
  <2>1. buf[p] \in Seq(Units) /\ fragment \in Seq(Units)
    BY <1>1, <1>6
  <2> QED BY <2>1, ConcatProperties
<1>8. Len(buf[p]) \in Nat /\ Len(fragment) \in Nat
  BY <1>1, <1>6
<1>9. ASSUME NEW i \in 1..Len(got)
      PROVE  Fits(got[i])
  <2>1. CASE i <= Len(buf[p])
    <3>1. i \in 1..Len(buf[p])
      BY <1>7, <1>8, <2>1
    <3> QED BY <1>1, <1>7, <1>9, <2>1
  <2>2. CASE ~(i <= Len(buf[p]))
    <3> DEFINE j == i - Len(buf[p])
    <3>1. j \in 1..Len(fragment) /\ o + j \in 1..Len(blobArray)
      <4>1. i \in Nat /\ i <= Len(buf[p]) + Len(fragment) /\ i > Len(buf[p])
        BY <1>7, <1>8, <1>9, <2>2
      <4>2. o + Len(fragment) <= Len(blobArray)
        BY <1>1, <1>3, <1>6
      <4>3. j \in 1..Len(fragment)
        BY <1>8, <4>1
      <4>4. o \in Nat /\ Len(blobArray) \in Nat
        BY <1>1, <1>3
      <4> HIDE DEF j
      <4> QED BY <1>8, <4>2, <4>3, <4>4
    <3>2. got[i] = fragment[j]
      BY <1>7, <2>2
    <3> HIDE DEF j
    <3> QED BY <1>3, <1>6, <3>1, <3>2
  <2> QED BY <2>1, <2>2
<1>10. ASSUME NEW b, seen[p] = {b}
       PROVE  IF Len(fragment) = FragmentLen
              THEN o + FragmentLen <= Len(blobArray)
                   /\ got = SubSeq(blobArray, 1, o + FragmentLen)
              ELSE Blob!Decode(got) = b
  <2>1. got = SubSeq(blobArray, 1, upTo)
    <3>1. /\ 1 \in 1..(Len(blobArray) + 1) /\ o \in (1 - 1)..Len(blobArray)
      BY <1>1, <1>3, <1>5
    <3>2. SubSeq(blobArray, 1, o) \o SubSeq(blobArray, o + 1, upTo)
            = SubSeq(blobArray, 1, upTo)
      BY <1>3, <1>6, <3>1, ConcatAdjacentSubSeq
    <3> QED BY <1>1, <1>4, <1>10, <3>2
  <2>2. CASE Len(fragment) = FragmentLen
    BY <1>6, <2>1, <2>2
  <2>3. CASE Len(fragment) # FragmentLen
    <3>1. got = blobArray
      BY <1>3, <1>6, <2>1, <2>3, SubSeqFull
    <3>2. a = b
      BY <1>3, <1>10
    <3> QED BY <1>2, <2>3, <3>1, <3>2, Encoded
  <2> QED BY <2>2, <2>3
<1> QED BY <1>7, <1>9, <1>10 DEF Fits, fragment, o

\* The platform's own step leaves the authenticator and the others alone.
LEMMA AloneIsUnseen ==
  ASSUME BlobInv, NEW p \in Platforms, UNCHANGED <<blobArray, pending, size, op>>,
         \A q \in Platforms \ {p} :
           /\ pc'[q] = pc[q] /\ offset'[q] = offset[q] /\ buf'[q] = buf[q]
           /\ data'[q] = data[q] /\ result'[q] = result[q] /\ seen'[q] = seen[q]
  PROVE  SeenByOthers(p)
BY DEF BlobInv, SeenByOthers, ArrayIsWhole

LEMMA FinishOfOthers ==
  ASSUME BlobInv, NEW p \in Platforms, NEW r, Blob!Finish(p, r)
  PROVE  /\ pc'[p] = "idle" /\ result'[p] = r
         /\ \A q \in Platforms \ {p} :
              /\ pc'[q] = pc[q] /\ offset'[q] = offset[q] /\ buf'[q] = buf[q]
              /\ data'[q] = data[q] /\ result'[q] = result[q]
BY DEF Blob!Finish, Blob!Set, BlobInv, BlobType

LEMMA GetKept ==
  ASSUME BlobInv, NEW p \in Platforms, NEW array \in seen[p] \cup {<<>>},
         Blob!Get(p, array), UNCHANGED <<op, blobArray, pending, size, seen>>
  PROVE  BlobInv'
<1> DEFINE i == Blob!SelectInSeq(array,
                  LAMBDA e : e.kind = "odd" \/ (e.key = op[p].key /\ e.kind = "good"))
           r == IF i = 0 THEN NoValue
                ELSE IF array[i].kind = "odd" THEN "raised" ELSE array[i].val
<1>1. array \in Entries
  <2>1. <<>> \in Entries
    BY DEF Entries
  <2> QED BY <2>1 DEF BlobInv, BlobType
<1>2. Blob!Finish(p, r)
  BY DEF Blob!Get
<1> HIDE DEF i
<1>3. i # 0 /\ array[i].kind # "odd" =>
        /\ i \in 1..Len(array) /\ Blob!BlobOf(array, op[p].key) = array[i].val
  <2>1. i = FirstOf(StopsAt(array, op[p].key))
    BY DEF i, Blob!SelectInSeq, FirstOf, StopsAt
  <2> QED BY <1>1, <2>1, FoundFirst
<1>4. i # 0 /\ array[i].kind # "odd" => array[i].val \in Blobs
  <2>1. i \in 1..Len(array) => array[i] \in Blob!Entry
    BY <1>1 DEF Entries
  <2> QED BY <1>3, <2>1 DEF Blob!Entry
<1>5. r \in Results
  BY <1>4 DEF Results
<1>6. r \in Blobs => \E a \in seen[p] : Blob!BlobOf(a, op[p].key) = r
  <2>1. SUFFICES ASSUME r \in Blobs PROVE \E a \in seen[p] : Blob!BlobOf(a, op[p].key) = r
    OBVIOUS
  <2>2. i # 0 /\ array[i].kind # "odd"
    BY <2>1, BlobGiven DEF Blob!BlobAssumption
  <2>3. array # <<>>
    BY <1>3, <2>2
  <2> QED BY <1>3, <2>2, <2>3
<1>7. SeenByOthers(p)
  BY <1>2, FinishOfOthers, AloneIsUnseen
<1> HIDE DEF r
<1> QED BY <1>2, <1>5, <1>6, <1>7, FinishKept DEF BlobInv, BlobType

LEMMA ModifyKept ==
  ASSUME BlobInv, NEW p \in Platforms, NEW array \in seen[p] \cup {<<>>},
         \A b : seen[p] = {b} => array = b,
         Blob!Modify(p, array), UNCHANGED <<op, blobArray, pending, size, seen>>
  PROVE  BlobInv'
<1> DEFINE new == Blob!Replaced(array, op[p])
           odd == \E e \in Blob!ToSet(array) : e.kind = "odd"
<1>1. array \in Entries
  <2>1. <<>> \in Entries
    BY DEF Entries
  <2> QED BY <2>1 DEF BlobInv, BlobType
<1>2. ASSUME NEW r \in {"raised", "done"}, Blob!Finish(p, r)
      PROVE  BlobInv'
  <2>1. SeenByOthers(p)
    BY <1>2, FinishOfOthers, AloneIsUnseen
  <2>2. r \in Results /\ r \notin Blobs
    BY BlobGiven DEF Results, Blob!BlobAssumption
  <2> QED BY <1>2, <2>1, <2>2, FinishKept DEF BlobInv, BlobType
<1>3. CASE odd \/ (op[p].val = NoValue /\ new = array)
  BY <1>2, <1>3 DEF Blob!Modify
<1>4. CASE ~(odd \/ (op[p].val = NoValue /\ new = array))
  <2>1. /\ pc' = [pc EXCEPT ![p] = "write"]
        /\ data' = [data EXCEPT ![p] = Blob!Encode(new)]
        /\ offset' = [offset EXCEPT ![p] = 0] /\ buf' = [buf EXCEPT ![p] = <<>>]
        /\ result' = result
    BY <1>4 DEF Blob!Modify, Blob!Set
  <2>2. new \in Entries
    BY <1>1, ReplacedEntries DEF BlobInv, BlobType
  <2>3. /\ Blob!Encode(new) \in Seq(Units) /\ 0 < Len(Blob!Encode(new))
    <3>1. Len(new) \in Nat
      BY <2>2 DEF Entries
    <3> HIDE DEF new
    <3> QED BY <2>2, <3>1, Encoded
  <2>4. \A i \in 1..Len(array) : array[i].kind # "odd"
    <3>1. DOMAIN array = 1..Len(array)
      BY <1>1 DEF Entries
    <3> QED BY <1>4, <3>1 DEF Blob!ToSet
  <2>5. SeenByOthers(p)
    <3>1. \A q \in Platforms \ {p} :
            /\ pc'[q] = pc[q] /\ offset'[q] = offset[q] /\ buf'[q] = buf[q]
            /\ data'[q] = data[q] /\ result'[q] = result[q] /\ seen'[q] = seen[q]
      BY <2>1 DEF BlobInv, BlobType
    <3> QED BY <3>1, AloneIsUnseen
  <2>6. BlobType'
    <3>1. <<>> \in Seq(Units)
      OBVIOUS
    <3> HIDE DEF new
    <3> QED BY <2>1, <2>3, <3>1 DEF BlobInv, BlobType
  <2>7. pc'[p] = "write" /\ offset'[p] = 0 /\ data'[p] = Blob!Encode(new)
    BY <2>1 DEF BlobInv, BlobType
  <2>8. MadeFrom(p, array)'
    BY <2>4, <2>7 DEF MadeFrom
  <2>9. Reading(p)' /\ Writing(p)' /\ Honest(p)'
    BY <2>3, <2>7, <2>8 DEF Reading, Writing, Honest
  <2>10. \A q \in Platforms : (Reading(q) /\ Writing(q) /\ Honest(q))'
    BY <2>5, <2>9, OthersKept
  <2> QED BY <2>5, <2>6, <2>10 DEF BlobInv, SeenByOthers
<1> QED BY <1>3, <1>4

LEMMA ReadFragmentKept ==
  ASSUME BlobInv, NEW p \in Platforms, Blob!ReadFragment(p)
  PROVE  BlobInv'
<1> DEFINE fragment == Blob!FragmentAt(offset[p])
           got == buf[p] \o fragment
<1>1. /\ pc[p] = "read" /\ offset[p] <= Len(blobArray)
      /\ UNCHANGED <<op, blobArray, pending, size, seen>>
  BY DEF Blob!ReadFragment, Blob!deviceVars
<1>2. /\ got \in Seq(Units)
      /\ \A i \in 1..Len(got) :
           got[i] \in Blob!Entry \cup {Blob!Hash(a) : a \in seen[p]}
      /\ \A b : seen[p] = {b} =>
           IF Len(fragment) = FragmentLen
           THEN /\ offset[p] + FragmentLen <= Len(blobArray)
                /\ got = SubSeq(blobArray, 1, offset[p] + FragmentLen)
           ELSE Blob!Decode(got) = b
  BY <1>1, GotFragment
<1>3. CASE Len(fragment) = FragmentLen
  <2>1. /\ offset' = [offset EXCEPT ![p] = offset[p] + FragmentLen]
        /\ buf' = [buf EXCEPT ![p] = got]
        /\ UNCHANGED <<pc, data, result>>
    BY <1>3 DEF Blob!ReadFragment, Blob!Set
  <2> HIDE DEF got, fragment
  <2>2. SeenByOthers(p)
    <3>1. \A q \in Platforms \ {p} :
            /\ pc'[q] = pc[q] /\ offset'[q] = offset[q] /\ buf'[q] = buf[q]
            /\ data'[q] = data[q] /\ result'[q] = result[q] /\ seen'[q] = seen[q]
      BY <1>1, <2>1 DEF BlobInv, BlobType
    <3> QED BY <1>1, <3>1, AloneIsUnseen
  <2>3. FragmentLen \in Nat
    BY BlobGiven DEF Blob!BlobAssumption
  <2>4. BlobType'
    <3>1. offset[p] + FragmentLen \in Nat
      BY <2>3 DEF BlobInv, BlobType
    <3> QED BY <1>1, <1>2, <2>1, <3>1 DEF BlobInv, BlobType
  <2>5. /\ pc'[p] = "read" /\ offset'[p] = offset[p] + FragmentLen /\ buf'[p] = got
        /\ Blob!Decode(blobArray) \in seen[p]
    BY <1>1, <2>1 DEF BlobInv, BlobType, Reading
  <2>6. Reading(p)'
    <3>1. \A i \in 1..Len(buf'[p]) :
            buf'[p][i] \in Blob!Entry \cup {Blob!Hash(a) : a \in seen'[p]}
      BY <1>1, <1>2, <2>5
    <3>2. \A b : seen'[p] = {b} => /\ offset'[p] <= Len(blobArray')
                                   /\ buf'[p] = SubSeq(blobArray', 1, offset'[p])
      BY <1>1, <1>2, <1>3, <2>5
    <3> QED BY <1>1, <2>5, <3>1, <3>2 DEF Reading
  <2>7. Writing(p)' /\ Honest(p)'
    BY <2>5 DEF Writing, Honest
  <2>8. \A q \in Platforms : (Reading(q) /\ Writing(q) /\ Honest(q))'
    BY <2>2, <2>6, <2>7, OthersKept
  <2> QED BY <2>2, <2>4, <2>8 DEF BlobInv, SeenByOthers
<1>4. CASE Len(fragment) # FragmentLen
  <2> DEFINE array == Blob!Decode(got)
  <2>1. IF op[p].kind = "get" THEN Blob!Get(p, array) ELSE Blob!Modify(p, array)
    BY <1>4 DEF Blob!ReadFragment, Blob!ArrayOf
  <2>2. seen[p] \in SUBSET Entries
    BY DEF BlobInv, BlobType
  <2> HIDE DEF got, fragment
  <2>3. array \in seen[p] \cup {<<>>}
    BY <1>2, <2>2, Decoded
  <2>4. \A b : seen[p] = {b} => array = b
    BY <1>2, <1>4
  <2> HIDE DEF array
  <2> QED BY <1>1, <2>1, <2>3, <2>4, GetKept, ModifyKept
<1> QED BY <1>3, <1>4

LEMMA ReadPastEndKept ==
  ASSUME BlobInv, NEW p \in Platforms, Blob!ReadPastEnd(p)
  PROVE  BlobInv'
<1>1. Blob!Finish(p, "raised") /\ UNCHANGED <<op, blobArray, pending, size, seen>>
  BY DEF Blob!ReadPastEnd, Blob!deviceVars
<1>2. SeenByOthers(p)
  BY <1>1, FinishOfOthers, AloneIsUnseen
<1>3. "raised" \in Results /\ "raised" \notin Blobs
  BY BlobGiven DEF Results, Blob!BlobAssumption
<1> QED BY <1>1, <1>2, <1>3, FinishKept DEF BlobInv, BlobType

-------------------------------------------------------------------------------
(* Writing                                                                 *)

LEMMA PieceSent ==
  ASSUME BlobInv, NEW p \in Platforms, pc[p] = "write"
  PROVE  /\ Blob!Sent(p) \in Nat /\ offset[p] < Blob!Sent(p)
         /\ Blob!Sent(p) <= Len(data[p])
         /\ Blob!NextFragment(p) \in Seq(Units) /\ Blob!NextFragment(p) # <<>>
         /\ Blob!Last(Blob!NextFragment(p)) = data[p][Blob!Sent(p)]
<1> DEFINE piece == Blob!NextFragment(p)
           upTo == Blob!Min({offset[p] + FragmentLen, Len(data[p])})
<1>1. /\ data[p] \in Seq(Units) /\ offset[p] \in Nat /\ offset[p] < Len(data[p])
      /\ Len(data[p]) \in Nat
  BY DEF BlobInv, BlobType, Writing
<1>2. piece = SubSeq(data[p], offset[p] + 1, upTo)
  BY DEF Blob!NextFragment
<1>3. /\ upTo \in offset[p]..Len(data[p])
      /\ SubSeq(data[p], offset[p] + 1, upTo) \in Seq(Units)
      /\ Len(SubSeq(data[p], offset[p] + 1, upTo)) = upTo - offset[p]
      /\ \A i \in 1..Len(SubSeq(data[p], offset[p] + 1, upTo)) :
           SubSeq(data[p], offset[p] + 1, upTo)[i] = data[p][offset[p] + i]
      /\ upTo > offset[p]
  <2>1. offset[p] <= Len(data[p])
    BY <1>1
  <2> QED BY <1>1, <2>1, NextPiece, Zenon
<1> HIDE DEF upTo
<1>4. piece \in Seq(Units) /\ Len(piece) = upTo - offset[p]
      /\ \A i \in 1..Len(piece) : piece[i] = data[p][offset[p] + i]
  BY <1>2, <1>3, Zenon
<1>5. Blob!Sent(p) = offset[p] + Len(piece)
  BY DEF Blob!Sent
<1> HIDE DEF piece
<1>6. Blob!Sent(p) = upTo /\ Len(piece) \in 1..Len(piece) /\ piece # <<>>
  <2>1. upTo \in Int /\ upTo > offset[p] /\ offset[p] \in Nat
        /\ Len(piece) = upTo - offset[p]
    BY <1>1, <1>3, <1>4
  <2>2. Blob!Sent(p) = upTo /\ Len(piece) \in 1..Len(piece) /\ Len(piece) # 0
    BY <1>5, <2>1
  <2>3. piece = <<>> => Len(piece) = 0
    OBVIOUS
  <2> QED BY <2>2, <2>3
<1>7. Blob!Last(piece) = data[p][Blob!Sent(p)]
  BY <1>4, <1>5, <1>6 DEF Blob!Last
<1> QED BY <1>1, <1>3, <1>4, <1>6, <1>7 DEF piece

\* The authenticator accepts the last fragment only if it ends with the hash
\* of what came before it: then it is all that its platform has to write.
LEMMA AcceptedIsWhole ==
  ASSUME BlobInv, NEW p \in Platforms, pc[p] = "write",
         NEW a \in Entries, MadeFrom(p, a),
         Blob!Last(Blob!Received(p)) = Blob!Hash(Blob!Front(Blob!Received(p)))
  PROVE  Blob!Received(p) = Blob!Encode(Blob!Replaced(a, op[p]))
<1> DEFINE new == Blob!Replaced(a, op[p])
           received == Blob!Received(p)
           before == IF offset[p] = 0 THEN <<>> ELSE pending
           piece == Blob!NextFragment(p)
           sent == Blob!Sent(p)
<1>1. new \in Entries /\ data[p] = Blob!Encode(new)
  BY ReplacedEntries DEF BlobInv, BlobType, MadeFrom
<1>2. /\ sent \in Nat /\ offset[p] < sent /\ sent <= Len(data[p])
      /\ piece \in Seq(Units) /\ piece # <<>> /\ Blob!Last(piece) = data[p][sent]
  BY PieceSent
<1>3. before \in Seq(Units) /\ received = before \o piece
  BY DEF Blob!Received, BlobInv, BlobType
<1>4. offset[p] \in Nat
  BY DEF BlobInv, BlobType
<1>5. Blob!Last(received) = Blob!Hash(Blob!Front(received))
  OBVIOUS
<1> HIDE DEF new, received, before, piece, sent
<1>6. /\ received \in Seq(Units) /\ received # <<>>
      /\ Blob!Last(received) = Blob!Last(piece)
  <2>1. Len(before) \in Nat /\ Len(piece) \in Nat \ {0}
    BY <1>2, <1>3, EmptySeq
  <2>2. /\ received \in Seq(Units) /\ Len(received) = Len(before) + Len(piece)
        /\ \A i \in 1..(Len(before) + Len(piece)) :
             received[i] = IF i <= Len(before) THEN before[i]
                           ELSE piece[i - Len(before)]
    BY <1>2, <1>3, ConcatProperties
  <2>3. received[Len(before) + Len(piece)] = piece[Len(piece)]
    <3> DEFINE i == Len(before) + Len(piece)
    <3>1. i \in 1..(Len(before) + Len(piece)) /\ ~(i <= Len(before))
          /\ i - Len(before) = Len(piece)
      BY <2>1
    <3> QED BY <2>2, <3>1
  <2>4. Len(received) # 0
    BY <2>1, <2>2
  <2> QED BY <2>2, <2>3, <2>4 DEF Blob!Last
<1>7. Len(new) \in Nat /\ Len(data[p]) = Len(new) + 1
  BY <1>1, Encoded DEF Entries
<1>8. sent = Len(new) + 1
  <2>1. SUFFICES ASSUME sent # Len(new) + 1 PROVE FALSE
    OBVIOUS
  <2>2. sent \in 1..Len(new)
    BY <1>2, <1>4, <1>7, <2>1
  <2>3. data[p][sent] \in Blob!Entry
    BY <1>1, <2>2, Encoded
  <2> QED BY <1>2, <1>5, <1>6, <2>3, HashIsNoEntry
<1>9. Blob!Last(received) = Blob!Hash(new)
  BY <1>1, <1>2, <1>6, <1>8, Encoded
<1>10. Blob!Front(received) = new
  BY <1>5, <1>9, HashIsInjective
<1>11. received = Append(Blob!Front(received), Blob!Last(received))
  BY <1>6, FrontAndLast
<1>12. received = Blob!Encode(new)
  BY <1>9, <1>10, <1>11 DEF Blob!Encode
<1> QED BY <1>12 DEF received, new

CommitsOf(p, a) ==
  MadeFrom(p, a) /\ blobArray' = Blob!Encode(Blob!Replaced(a, op[p]))

LEMMA PerformKept ==
  ASSUME BlobInv, NEW p \in Platforms, pc[p] = "write", NEW ok \in BOOLEAN,
         Blob!Perform(p, ok)
  PROVE  /\ pending' \in Seq(Units) /\ size' \in Nat
         /\ seen' \in [Platforms -> SUBSET Entries] /\ seen'[p] = seen[p]
         /\ ArrayIsWhole'
         /\ \A q \in Platforms :
              \/ seen'[q] = seen[q] /\ (pc[q] = "read" => blobArray' = blobArray)
              \/ /\ pc[q] = "read"
                 /\ seen'[q] = seen[q] \cup {Blob!Decode(blobArray')}
         /\ blobArray' # blobArray
              => \E a \in seen[p] \cup {<<>>} : CommitsOf(p, a)
<1> USE DEF Blob!deviceVars
<1>1. BlobType /\ ArrayIsWhole
  BY DEF BlobInv
<1>2. CASE UNCHANGED <<blobArray, pending, size, seen>>
  BY <1>1, <1>2 DEF BlobType, ArrayIsWhole
<1>3. CASE Blob!InSequence(p) /\ Len(Blob!Received(p)) < Blob!Announced(p)
  <2>1. /\ pending' = Blob!Received(p) /\ size' = Blob!Announced(p)
        /\ UNCHANGED <<blobArray, seen>>
    BY <1>3 DEF Blob!Perform
  <2>2. pending' \in Seq(Units)
    <3>1. (IF offset[p] = 0 THEN <<>> ELSE pending) \in Seq(Units)
      BY <1>1 DEF BlobType
    <3>2. Blob!NextFragment(p) \in Seq(Units)
      BY PieceSent
    <3> QED BY <2>1, <3>1, <3>2, ConcatProperties DEF Blob!Received
  <2>3. size' \in Nat
    <3>1. Len(data[p]) \in Nat /\ size \in Nat
      BY <1>1 DEF BlobType
    <3> QED BY <2>1, <3>1 DEF Blob!Announced
  <2> QED BY <1>1, <2>1, <2>2, <2>3 DEF BlobType, ArrayIsWhole
<1>4. CASE Blob!InSequence(p) /\ ~(Len(Blob!Received(p)) < Blob!Announced(p))
  <2>1. /\ pending' = <<>> /\ size' = 0
        /\ ok <=> Blob!Last(Blob!Received(p)) = Blob!Hash(Blob!Front(Blob!Received(p)))
        /\ blobArray' = IF ok THEN Blob!Received(p) ELSE blobArray
        /\ seen' = [q \in Platforms |->
                      IF pc[q] = "read" THEN seen[q] \cup {Blob!Decode(blobArray')}
                      ELSE seen[q]]
    BY <1>4 DEF Blob!Perform
  <2>2. ok => \E a \in seen[p] \cup {<<>>} :
                a \in Entries /\ CommitsOf(p, a)
    <3>1. SUFFICES ASSUME ok
                   PROVE  \E a \in seen[p] \cup {<<>>} : a \in Entries /\ CommitsOf(p, a)
      OBVIOUS
    <3>2. PICK a \in seen[p] \cup {<<>>} : MadeFrom(p, a)
      BY DEF BlobInv, Writing
    <3>3. a \in Entries
      <4>1. <<>> \in Entries
        BY DEF Entries
      <4> QED BY <1>1, <3>2, <4>1 DEF BlobType
    <3>4. Blob!Received(p) = Blob!Encode(Blob!Replaced(a, op[p]))
      BY <2>1, <3>1, <3>2, <3>3, AcceptedIsWhole
    <3> QED BY <2>1, <3>1, <3>2, <3>3, <3>4 DEF CommitsOf
  <2>3. ArrayIsWhole'
    <3>1. ASSUME NEW a \in Entries, CommitsOf(p, a)
          PROVE  ArrayIsWhole'
      BY <1>1, <3>1, ReplacedEntries DEF CommitsOf, BlobType, ArrayIsWhole
    <3>2. CASE ~ok
      BY <1>1, <2>1, <3>2 DEF ArrayIsWhole
    <3> QED BY <2>2, <3>1, <3>2
  <2>4. Blob!Decode(blobArray') \in Entries
    BY <2>3, Encoded DEF ArrayIsWhole
  <2>5. seen' \in [Platforms -> SUBSET Entries] /\ seen'[p] = seen[p]
    BY <1>1, <2>1, <2>4 DEF BlobType
  <2>6. pending' \in Seq(Units) /\ size' \in Nat
    BY <2>1
  <2>7. ASSUME NEW q \in Platforms
        PROVE  \/ seen'[q] = seen[q] /\ (pc[q] = "read" => blobArray' = blobArray)
               \/ /\ pc[q] = "read"
                  /\ seen'[q] = seen[q] \cup {Blob!Decode(blobArray')}
    BY <2>1
  <2>8. blobArray' # blobArray => ok
    BY <2>1
  <2> QED BY <2>2, <2>3, <2>5, <2>6, <2>7, <2>8
<1>5. CASE ~Blob!InSequence(p)
  BY <1>2, <1>5 DEF Blob!Perform
<1> QED BY <1>3, <1>4, <1>5

\* Where the array changes, it is a platform's last fragment that changes it.
Commits ==
  blobArray' # blobArray =>
    \E p \in Platforms :
      /\ pc[p] = "write" /\ \A q \in Platforms \ {p} : pc'[q] = pc[q]
      /\ \E a \in seen[p] \cup {<<>>} : CommitsOf(p, a)

\* An operation ends after a fragment, whatever the answer was.
LEMMA FinishWriteKept ==
  ASSUME BlobInv, NEW p \in Platforms, pc[p] = "write", NEW ok \in BOOLEAN,
         Blob!Perform(p, ok), op' = op,
         NEW r \in {"done", "raised"}, Blob!Finish(p, r)
  PROVE  BlobInv' /\ Commits
<1>1. /\ pending' \in Seq(Units) /\ size' \in Nat
      /\ seen' \in [Platforms -> SUBSET Entries] /\ ArrayIsWhole'
      /\ \A q \in Platforms :
           \/ seen'[q] = seen[q] /\ (pc[q] = "read" => blobArray' = blobArray)
           \/ /\ pc[q] = "read"
              /\ seen'[q] = seen[q] \cup {Blob!Decode(blobArray')}
      /\ blobArray' # blobArray => \E a \in seen[p] \cup {<<>>} : CommitsOf(p, a)
  BY PerformKept
<1>2. \A q \in Platforms \ {p} :
        /\ pc'[q] = pc[q] /\ offset'[q] = offset[q] /\ buf'[q] = buf[q]
        /\ data'[q] = data[q] /\ result'[q] = result[q]
  BY FinishOfOthers
<1>3. SeenByOthers(p)
  BY <1>1, <1>2 DEF SeenByOthers
<1>4. r \in Results /\ r \notin Blobs
  BY BlobGiven DEF Results, Blob!BlobAssumption
<1>5. BlobInv'
  BY <1>1, <1>3, <1>4, FinishKept
<1> QED BY <1>1, <1>2, <1>5 DEF Commits

LEMMA WriteFragmentKept ==
  ASSUME BlobInv, NEW p \in Platforms, Blob!WriteFragment(p)
  PROVE  BlobInv' /\ Commits
<1>1. pc[p] = "write" /\ op' = op
  BY DEF Blob!WriteFragment
<1>2. PICK ok \in BOOLEAN :
        /\ Blob!Perform(p, ok)
        /\ IF ~ok THEN Blob!Finish(p, "raised")
           ELSE IF Blob!Sent(p) >= Len(data[p]) THEN Blob!Finish(p, "done")
           ELSE /\ offset' = Blob!Set(offset, p, Blob!Sent(p))
                /\ UNCHANGED <<pc, result, buf, data>>
  BY DEF Blob!WriteFragment
<1>3. CASE ~ok \/ Blob!Sent(p) >= Len(data[p])
  BY <1>1, <1>2, <1>3, FinishWriteKept
<1>4. CASE ~(~ok \/ Blob!Sent(p) >= Len(data[p]))
  <2>1. /\ offset' = [offset EXCEPT ![p] = Blob!Sent(p)]
        /\ UNCHANGED <<pc, result, buf, data>>
    BY <1>2, <1>4 DEF Blob!Set
  <2>2. /\ pending' \in Seq(Units) /\ size' \in Nat
        /\ seen' \in [Platforms -> SUBSET Entries] /\ seen'[p] = seen[p]
        /\ ArrayIsWhole'
        /\ \A q \in Platforms :
             \/ seen'[q] = seen[q] /\ (pc[q] = "read" => blobArray' = blobArray)
             \/ /\ pc[q] = "read"
                /\ seen'[q] = seen[q] \cup {Blob!Decode(blobArray')}
        /\ blobArray' # blobArray => \E a \in seen[p] \cup {<<>>} : CommitsOf(p, a)
    BY <1>1, <1>2, PerformKept
  <2>3. Blob!Sent(p) \in Nat /\ Blob!Sent(p) < Len(data[p])
    <3>1. Blob!Sent(p) \in Nat
      BY <1>1, PieceSent
    <3>2. Len(data[p]) \in Nat
      BY DEF BlobInv, BlobType
    <3> QED BY <1>4, <3>1, <3>2
  <2>4. BlobType'
    BY <1>1, <2>1, <2>2, <2>3 DEF BlobInv, BlobType
  <2>5. SeenByOthers(p)
    <3>1. \A q \in Platforms \ {p} : offset'[q] = offset[q]
      BY <2>1 DEF BlobInv, BlobType
    <3> QED BY <1>1, <2>1, <2>2, <3>1 DEF SeenByOthers
  <2>6. Writing(p)'
    <3>1. PICK a \in seen[p] \cup {<<>>} : MadeFrom(p, a)
      BY <1>1 DEF BlobInv, Writing
    <3>2. MadeFrom(p, a)'
      BY <1>1, <2>1, <2>2, <3>1 DEF MadeFrom
    <3>3. offset'[p] = Blob!Sent(p)
      BY <2>1 DEF BlobInv, BlobType
    <3> QED BY <2>1, <2>2, <2>3, <3>2, <3>3 DEF Writing
  <2>7. Reading(p)' /\ Honest(p)'
    BY <1>1, <2>1 DEF Reading, Honest
  <2>8. \A q \in Platforms : (Reading(q) /\ Writing(q) /\ Honest(q))'
    BY <2>5, <2>6, <2>7, OthersKept
  <2>9. BlobInv'
    BY <2>2, <2>4, <2>8 DEF BlobInv
  <2> QED BY <1>1, <2>1, <2>2, <2>9 DEF Commits
<1> QED BY <1>3, <1>4

LEMMA FailKept ==
  ASSUME BlobInv, NEW p \in Platforms, Blob!Fail(p)
  PROVE  BlobInv' /\ Commits
<1>1. Blob!Finish(p, "raised") /\ op' = op
  BY DEF Blob!Fail
<1>2. CASE UNCHANGED <<blobArray, pending, size, seen>>
  <2>1. SeenByOthers(p)
    BY <1>1, <1>2, FinishOfOthers, AloneIsUnseen
  <2>2. "raised" \in Results /\ "raised" \notin Blobs
    BY BlobGiven DEF Results, Blob!BlobAssumption
  <2>3. BlobInv'
    BY <1>1, <1>2, <2>1, <2>2, FinishKept DEF BlobInv, BlobType
  <2> QED BY <1>2, <2>3 DEF Commits
<1>3. CASE pc[p] = "write" /\ \E ok \in BOOLEAN : Blob!Perform(p, ok)
  BY <1>1, <1>3, FinishWriteKept
<1> QED BY <1>2, <1>3 DEF Blob!Fail, Blob!deviceVars

LEMMA ForgetKept ==
  ASSUME BlobInv, Blob!Forget
  PROVE  BlobInv'
<1>1. /\ pending' = <<>> /\ size' = 0
      /\ UNCHANGED <<pc, op, offset, buf, data, result, blobArray, seen>>
  BY DEF Blob!Forget, Blob!platformVars
<1>2. BlobType' /\ ArrayIsWhole'
  BY <1>1 DEF BlobInv, BlobType, ArrayIsWhole
<1>3. ASSUME NEW p \in Platforms
      PROVE  (Reading(p) /\ Writing(p) /\ Honest(p))'
  BY <1>1 DEF BlobInv, Reading, Writing, MadeFrom, Honest
<1> QED BY <1>2, <1>3 DEF BlobInv

LEMMA BlobKept ==
  ASSUME BlobInv, [Blob!Next]_blobVars
  PROVE  BlobInv' /\ Commits
<1>1. CASE UNCHANGED blobVars
  <2>1. UNCHANGED <<pc, op, offset, buf, data, result, blobArray, pending, size, seen>>
    BY <1>1 DEF blobVars
  <2>2. BlobType' /\ ArrayIsWhole'
    BY <2>1 DEF BlobInv, BlobType, ArrayIsWhole
  <2>3. ASSUME NEW p \in Platforms
        PROVE  (Reading(p) /\ Writing(p) /\ Honest(p))'
    BY <2>1 DEF BlobInv, Reading, Writing, MadeFrom, Honest
  <2> QED BY <2>1, <2>2, <2>3 DEF BlobInv, Commits
<1>2. ASSUME NEW p \in Platforms, NEW o \in Blob!Operations, Blob!Start(p, o)
      PROVE  BlobInv' /\ blobArray' = blobArray
  BY <1>2, StartKept DEF Blob!Start, Blob!deviceVars
<1>3. ASSUME NEW p \in Platforms, Blob!ReadFragment(p) \/ Blob!ReadPastEnd(p)
      PROVE  BlobInv' /\ blobArray' = blobArray
  BY <1>3, ReadFragmentKept, ReadPastEndKept
     DEF Blob!ReadFragment, Blob!ReadPastEnd, Blob!deviceVars
<1>4. ASSUME NEW p \in Platforms, Blob!WriteFragment(p) \/ Blob!Fail(p)
      PROVE  BlobInv' /\ Commits
  BY <1>4, WriteFragmentKept, FailKept
<1>5. CASE Blob!Forget
  BY <1>5, ForgetKept DEF Blob!Forget, Commits
<1> QED BY <1>1, <1>2, <1>3, <1>4, <1>5 DEF Blob!Next, Commits

-------------------------------------------------------------------------------
(* The array that is written                                               *)

\* What get_blob returns from the array that put_blob or delete_blob made.
LEMMA ReplacedIsRead ==
  ASSUME NEW a \in Entries, NEW o \in Blob!Operations
  PROVE  Blob!BlobOf(Blob!Replaced(a, o), o.key) = o.val
<1> DEFINE new == Blob!Replaced(a, o)
           kept == Blob!Kept(a, o.key)
           J == {j \in 1..Len(new) : new[j].key = o.key /\ new[j].kind = "good"}
<1>1. /\ kept \in Entries /\ Len(kept) \in Nat
      /\ \A i \in 1..Len(kept) : ~(kept[i].key = o.key /\ kept[i].kind = "good")
  <2>1. kept \in Entries /\ \A i \in 1..Len(kept) : ~Blob!Opens(o.key, kept[i])
    BY KeptEntries
  <2> QED BY <2>1 DEF Blob!Opens, Entries
<1>2. Blob!BlobOf(new, o.key)
        = LET i == IF J # {} THEN Blob!Min(J) ELSE 0
          IN  IF i = 0 THEN NoValue ELSE new[i].val
  BY DEF Blob!BlobOf, Blob!SelectInSeq
<1>3. CASE o.val = NoValue
  <2>1. new = kept
    BY <1>1, <1>3, ConcatEmptySeq DEF Blob!Replaced, Entries
  <2>2. J = {}
    BY <1>1, <2>1
  <2> HIDE DEF J, new
  <2>3. Blob!BlobOf(new, o.key) = o.val
    BY <1>2, <1>3, <2>2
  <2> QED BY <2>3 DEF new
<1>4. CASE o.val # NoValue
  <2> DEFINE e == [key |-> o.key, val |-> o.val, kind |-> "good"]
  <2>1. e \in Blob!Entry
    BY <1>4 DEF Blob!Operations, Blob!Entry
  <2>2. new = Append(kept, e)
    <3>1. new = kept \o <<e>>
      BY <1>4 DEF Blob!Replaced
    <3> HIDE DEF new, kept, e
    <3> QED BY <1>1, <2>1, <3>1, AppendIsConcat DEF Entries
  <2>3. /\ Len(new) = Len(kept) + 1 /\ new[Len(kept) + 1] = e
        /\ \A i \in 1..Len(kept) : new[i] = kept[i]
    <3> HIDE DEF new, kept, e
    <3> QED BY <1>1, <2>1, <2>2, AppendProperties DEF Entries
  <2>4. J = {Len(kept) + 1}
    <3>1. \A j \in 1..Len(new) : j \in 1..Len(kept) \/ j = Len(kept) + 1
      <4> HIDE DEF new, kept
      <4> QED BY <1>1, <2>3
    <3>2. Len(kept) + 1 \in J
      <4>1. Len(kept) + 1 \in 1..Len(new)
        <5> HIDE DEF new, kept
        <5> QED BY <1>1, <2>3
      <4>2. e.key = o.key /\ e.kind = "good"
        OBVIOUS
      <4> HIDE DEF new, kept, e
      <4> QED BY <2>3, <4>1, <4>2
    <3>3. ASSUME NEW j \in J PROVE j = Len(kept) + 1
      <4> HIDE DEF new, kept, e
      <4> QED BY <1>1, <2>3, <3>1, <3>3
    <3> HIDE DEF J
    <3> QED BY <3>2, <3>3
  <2> HIDE DEF J, kept
  <2>5. Blob!Min(J) = Len(kept) + 1
    BY <1>1, <2>4 DEF Blob!Min
  <2>6. new[Len(kept) + 1].val = o.val
    BY <2>3
  <2> HIDE DEF new
  <2>7. J # {} /\ Blob!Min(J) # 0
    BY <1>1, <2>4, <2>5
  <2>8. Blob!BlobOf(new, o.key) = o.val
    BY <1>2, <2>5, <2>6, <2>7
  <2> QED BY <2>8 DEF new
<1> QED BY <1>3, <1>4

\* Without odd entries, it is what BlobArray promises of one of its steps.
LEMMA ReplacedAsPromised ==
  ASSUME NEW a \in Entries, NEW o \in Blob!Operations,
         \A i \in 1..Len(a) : a[i].kind # "odd"
  PROVE  \/ Blob!Replaced(a, o) = Blob!Array!Without(a, o.key)
         \/ /\ o.val \in Blobs
            /\ Blob!Replaced(a, o) = Append(Blob!Array!Without(a, o.key),
                 [key |-> o.key, val |-> o.val, kind |-> "good"])
<1>1. Blob!Kept(a, o.key) \in Entries
      /\ Blob!Kept(a, o.key) = Blob!Array!Without(a, o.key)
  BY KeptEntries
<1>2. CASE o.val = NoValue
  BY <1>1, <1>2, ConcatEmptySeq DEF Blob!Replaced, Entries
<1>3. CASE o.val # NoValue
  <2> DEFINE e == [key |-> o.key, val |-> o.val, kind |-> "good"]
  <2>1. e \in Blob!Entry /\ o.val \in Blobs
    BY <1>3 DEF Blob!Operations, Blob!Entry
  <2>2. Blob!Replaced(a, o) = Blob!Kept(a, o.key) \o <<e>>
    BY <1>3 DEF Blob!Replaced
  <2> HIDE DEF e
  <2>3. Blob!Replaced(a, o) = Append(Blob!Kept(a, o.key), e)
    BY <1>1, <2>1, <2>2, AppendIsConcat DEF Entries
  <2> QED BY <1>1, <2>1, <2>3 DEF e
<1> QED BY <1>2, <1>3

-------------------------------------------------------------------------------
(* The theorems                                                            *)

\* What a step of a platform may do to the array.
CommitStep ==
  blobArray' # blobArray =>
    \E p \in Platforms : pc[p] = "write" /\
      \E a \in seen[p] \cup {<<>>} :
        Blob!Decode(blobArray') = Blob!Replaced(a, op[p])

EffectStep ==
  \A p \in Platforms :
    pc[p] = "write" /\ pc'[p] = "idle" /\ blobArray' # blobArray
      => Blob!BlobOf(Blob!Decode(blobArray'), op[p].key) = op[p].val

ContractStep ==
  \A p \in Platforms :
    pc[p] = "write" /\ pc'[p] = "idle" /\ seen[p] = {Blob!Decode(blobArray)}
      => [Blob!Array!ArrayNext]_(Blob!Decode(blobArray))

LEMMA StepsFollow ==
  ASSUME BlobInv, Commits
  PROVE  CommitStep /\ EffectStep /\ ContractStep
<1>1. ASSUME NEW p \in Platforms, NEW a \in seen[p] \cup {<<>>}, CommitsOf(p, a)
      PROVE  /\ a \in Entries /\ op[p] \in Blob!Operations
             /\ Blob!Decode(blobArray') = Blob!Replaced(a, op[p])
  <2>1. <<>> \in Entries
    BY DEF Entries
  <2>2. a \in Entries /\ op[p] \in Blob!Operations
    BY <2>1 DEF BlobInv, BlobType
  <2> QED BY <1>1, <2>2, ReplacedEntries, Encoded DEF CommitsOf
<1>2. CommitStep
  BY <1>1 DEF Commits, CommitStep
<1>3. ASSUME NEW p \in Platforms, pc[p] = "write", pc'[p] = "idle",
             blobArray' # blobArray
      PROVE  \E a \in seen[p] \cup {<<>>} : CommitsOf(p, a)
  BY <1>3 DEF Commits
<1>4. EffectStep
  BY <1>1, <1>3, ReplacedIsRead DEF EffectStep
<1>5. ContractStep
  <2>1. SUFFICES ASSUME NEW p \in Platforms, pc[p] = "write", pc'[p] = "idle",
                        seen[p] = {Blob!Decode(blobArray)}, blobArray' # blobArray
                 PROVE  Blob!Array!ArrayNext
    BY DEF ContractStep
  <2>2. PICK a \in seen[p] \cup {<<>>} : CommitsOf(p, a)
    BY <1>3, <2>1
  <2>3. /\ a \in Entries /\ op[p] \in Blob!Operations
        /\ Blob!Decode(blobArray') = Blob!Replaced(a, op[p])
        /\ a = Blob!Decode(blobArray) /\ \A i \in 1..Len(a) : a[i].kind # "odd"
    BY <1>1, <2>1, <2>2 DEF CommitsOf, MadeFrom
  <2>4. op[p].key \in BlobKeys
    BY <2>3 DEF Blob!Operations
  <2>5. \/ Blob!Decode(blobArray')
             = Blob!Array!Without(Blob!Decode(blobArray), op[p].key)
        \/ /\ op[p].val \in Blobs
           /\ Blob!Decode(blobArray')
                = Append(Blob!Array!Without(Blob!Decode(blobArray), op[p].key),
                    [key |-> op[p].key, val |-> op[p].val, kind |-> "good"])
    BY <2>3, ReplacedAsPromised
  <2> QED BY <2>4, <2>5 DEF Blob!Array!ArrayNext, Blob!Array!Put, Blob!Array!Delete
<1> QED BY <1>2, <1>4, <1>5

LEMMA BlobInitially == Blob!Init => BlobInv
<1> SUFFICES ASSUME Blob!Init PROVE BlobInv
  OBVIOUS
<1> USE DEF Blob!Init
<1>1. PICK a \in FirstArrays : blobArray = Blob!Encode(a)
  OBVIOUS
<1>2. a \in Entries
  BY <1>1, BlobGiven DEF Blob!BlobAssumption, Entries
<1>3. op \in [Platforms -> Blob!Operations]
  <2>1. Blob!Operations # {}
    <3>1. PICK k \in BlobKeys : TRUE
      BY BlobGiven DEF Blob!BlobAssumption
    <3>2. [kind |-> "get", key |-> k, val |-> NoValue] \in Blob!Operations
      BY <3>1 DEF Blob!Operations
    <3> QED BY <3>2
  <2> QED BY <2>1
<1>4. BlobType
  <2>1. <<>> \in Seq(Units)
    OBVIOUS
  <2> QED BY <1>3, <2>1 DEF BlobType, Results
<1>5. \A p \in Platforms : Reading(p) /\ Writing(p) /\ Honest(p)
  BY BlobGiven DEF Reading, Writing, Honest, Blob!BlobAssumption
<1> QED BY <1>1, <1>2, <1>4, <1>5 DEF BlobInv, ArrayIsWhole

LEMMA BlobRuns == [MCNext]_<<subject, vars, managerVars, blobVars>>
                    => [Blob!Next]_blobVars
BY DEF MCNext

LEMMA BlobStarts == MCInit => Blob!Init
BY DEF MCInit

LEMMA BlobAlways == MCSpec => []BlobInv /\ [][Commits]_(Blob!vars)
<1>1. MCInit => BlobInv
  BY BlobStarts, BlobInitially
<1>2. BlobInv /\ [MCNext]_<<subject, vars, managerVars, blobVars>>
        => BlobInv' /\ Commits
  BY BlobRuns, BlobKept
<1> QED BY <1>1, <1>2, PTL DEF MCSpec

\* What a get returns was the blob of its key in one whole array that was stored
\* while it was reading, whatever other platforms wrote between its fragments:
\* an array that mixes two does not end with its own hash (blob.py:117-134).
THEOREM ReturnsWhatWasStored == MCSpec => []GetIsHonest
<1>1. BlobInv => GetIsHonest
  BY DEF BlobInv, Honest, GetIsHonest, Blob!GetIsHonest
<1> QED BY <1>1, BlobAlways, PTL

\* Nothing is ever stored that mixes the fragments of two reads or of two
\* writes: a write replaces the array by one that was stored while its platform
\* was reading, or by the empty one, with the entries of its key replaced
\* (blob.py:203-214).
THEOREM StoresWhatItRead == MCSpec => CommitFromOneArray
<1>1. BlobInv /\ Commits => CommitStep
  BY StepsFollow
<1>2. MCSpec => [][CommitStep]_(Blob!vars)
  BY <1>1, BlobAlways, PTL
<1> QED BY <1>2 DEF CommitStep, CommitFromOneArray, Blob!CommitFromOneArray

\* Once a write has changed the array, a get of its key returns what was put, or
\* nothing after a delete, whatever entries the array had (blob.py:192-214).
THEOREM PutIsRead == MCSpec => EffectIsRead
<1>1. BlobInv /\ Commits => EffectStep
  BY StepsFollow
<1>2. MCSpec => [][EffectStep]_(Blob!vars)
  BY <1>1, BlobAlways, PTL
<1> QED BY <1>2 DEF EffectStep, EffectIsRead, Blob!EffectIsRead

\* A write that nothing came between implements one step of BlobArray, which
\* keeps all that other credentials have stored (blob.py:192-221).
THEOREM ImplementsTheArray == MCSpec => UndisturbedContract
<1>1. BlobInv /\ Commits => ContractStep
  BY StepsFollow
<1>2. MCSpec => [][ContractStep]_(Blob!vars)
  BY <1>1, BlobAlways, PTL
<1> QED BY <1>2 DEF ContractStep, UndisturbedContract, Blob!UndisturbedContract
===============================================================================
