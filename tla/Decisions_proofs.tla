-------------------------- MODULE Decisions_proofs --------------------------
(***************************************************************************)
(* Theorems of the decisions, for every input that a caller, an            *)
(* authenticator, a device or a server can give: names, paths and          *)
(* descriptors of any length, any options, tables of metadata of any size. *)
(***************************************************************************)
EXTENDS Decisions, SequenceTheorems, WellFoundedInduction, TLAPS

-------------------------------------------------------------------------------
(* Numbers and sequences                                                   *)

\* Every set of numbers that is not empty has a least one.
LEMMA LeastNumber ==
  ASSUME NEW T \in SUBSET Nat, T # {}
  PROVE  \E n \in T : \A m \in T : n <= m
<1>1. PICK n \in T : \A m \in T : ~(<<m, n>> \in OpToRel(<, Nat))
  BY NatLessThanWellFounded, WFMin, Zenon
<1>2. ASSUME NEW m \in T PROVE n <= m
  <2>1. m < n => <<m, n>> \in {ss \in Nat \X Nat : ss[1] < ss[2]}
    OBVIOUS
  <2>2. m < n => <<m, n>> \in OpToRel(<, Nat)
    BY <2>1 DEF OpToRel
  <2>3. ~(m < n)
    BY <1>1, <2>2, Zenon
  <2> QED BY <2>3
<1> QED BY <1>2

LEMMA MinIsLeast ==
  ASSUME NEW T \in SUBSET Nat, T # {}
  PROVE  Min(T) \in T /\ \A m \in T : Min(T) <= m
<1>1. \E n \in T : \A m \in T : n =< m
  BY LeastNumber
<1> QED BY <1>1, Zenon DEF Min

\* A bounded set of numbers has a greatest one.
LEMMA MaxIsGreatest ==
  ASSUME NEW N \in Nat, NEW T \in SUBSET (1..N), T # {}
  PROVE  Max(T) \in T /\ \A m \in T : Max(T) >= m
<1> DEFINE U == {N - m : m \in T}
<1>1. U \in SUBSET Nat /\ U # {}
  OBVIOUS
<1>2. PICK u \in U : \A v \in U : u <= v
  BY <1>1, LeastNumber
<1>3. PICK n \in T : u = N - n
  OBVIOUS
<1>4. ASSUME NEW m \in T PROVE n >= m
  <2>1. N - m \in U
    OBVIOUS
  <2>2. N - n <= N - m
    BY <1>2, <1>3, <2>1
  <2> QED BY <2>2
<1>5. \E x \in T : \A y \in T : x >= y
  BY <1>4
<1> QED BY <1>5, Zenon DEF Max

\* What Sequence gives: a function on 1..Len.
LEMMA SequenceShape ==
  ASSUME NEW s, Sequence(s)
  PROVE  Len(s) \in Nat /\ DOMAIN s = 1..Len(s) /\ s \in Seq({s[i] : i \in DOMAIN s})
BY DEF Sequence

\* Two sequences are sequences over one set.
LEMMA OneRange ==
  ASSUME NEW s, NEW t, Sequence(s), Sequence(t)
  PROVE  \E S : s \in Seq(S) /\ t \in Seq(S)
<1> DEFINE A == {s[i] : i \in DOMAIN s}
           B == {t[i] : i \in DOMAIN t}
<1>1. s \in Seq(A) /\ t \in Seq(B)
  BY DEF Sequence
<1> HIDE DEF A, B
<1>2. s \in Seq(A \cup B) /\ t \in Seq(A \cup B)
  BY <1>1, SeqMonotonic
<1> QED BY <1>2

LEMMA SuffixMeans ==
  ASSUME NEW S, NEW s \in Seq(S), NEW t \in Seq(S)
  PROVE  IsSuffix(s, t) <=>
           /\ Len(s) <= Len(t)
           /\ \A i \in 1..Len(s) : s[i] = t[Len(t) - Len(s) + i]
<1> DEFINE n == Len(s)
           m == Len(t)
           p == Reverse(s)
           q == Reverse(t)
<1>1. n \in Nat /\ m \in Nat
  OBVIOUS
<1>2. p \in Seq(S) /\ Len(p) = n /\ \A i \in 1..n : p[i] = s[n - i + 1]
  BY DEF Reverse
<1>3. q \in Seq(S) /\ Len(q) = m /\ \A i \in 1..m : q[i] = t[m - i + 1]
  BY DEF Reverse
<1>4. IsSuffix(s, t) <=> n <= m /\ SubSeq(p, 1, n) = SubSeq(q, 1, n)
  BY <1>2, <1>3 DEF IsSuffix, IsPrefix
<1> HIDE DEF p, q
<1>5. ASSUME n <= m PROVE SubSeq(p, 1, n) = SubSeq(q, 1, n) <=> \A i \in 1..n : p[i] = q[i]
  <2>1. SubSeq(p, 1, n) \in Seq(S) /\ Len(SubSeq(p, 1, n)) = n
        /\ \A i \in 1..n : SubSeq(p, 1, n)[i] = p[i]
    BY <1>1, <1>2
  <2>2. SubSeq(q, 1, n) \in Seq(S) /\ Len(SubSeq(q, 1, n)) = n
        /\ \A i \in 1..n : SubSeq(q, 1, n)[i] = q[i]
    BY <1>1, <1>3, <1>5
  <2> HIDE DEF n, m
  <2> QED BY <2>1, <2>2, SeqEqual
<1>6. ASSUME n <= m
      PROVE  (\A i \in 1..n : p[i] = q[i]) <=> (\A i \in 1..n : s[i] = t[m - n + i])
  <2>1. ASSUME \A i \in 1..n : p[i] = q[i], NEW i \in 1..n
        PROVE  s[i] = t[m - n + i]
    <3>1. n - i + 1 \in 1..n /\ n - i + 1 \in 1..m
      BY <1>1, <1>6
    <3>2. p[n - i + 1] = s[n - (n - i + 1) + 1] /\ q[n - i + 1] = t[m - (n - i + 1) + 1]
      BY <1>2, <1>3, <3>1
    <3>3. n - (n - i + 1) + 1 = i /\ m - (n - i + 1) + 1 = m - n + i
      BY <1>1
    <3> QED BY <2>1, <3>1, <3>2, <3>3
  <2>2. ASSUME \A i \in 1..n : s[i] = t[m - n + i], NEW i \in 1..n
        PROVE  p[i] = q[i]
    <3>1. n - i + 1 \in 1..n /\ i \in 1..m /\ m - n + (n - i + 1) = m - i + 1
      BY <1>1, <1>6
    <3>2. s[n - i + 1] = t[m - n + (n - i + 1)]
      BY <2>2, <3>1
    <3>3. p[i] = s[n - i + 1] /\ q[i] = t[m - i + 1]
      BY <1>2, <1>3, <3>1
    <3> QED BY <3>1, <3>2, <3>3
  <2> QED BY <2>1, <2>2
<1> QED BY <1>4, <1>5, <1>6

-------------------------------------------------------------------------------
(* RP IDs                                                                  *)

LabelLists(S) == Seq(Seq(S)) \ {<<>>}

LEMMA ExtendedIsList ==
  ASSUME NEW S, NEW l \in LabelLists(S), NEW x \in S
  PROVE  Extended(l, x) \in LabelLists(S)
<1>1. l \in Seq(Seq(S)) /\ Len(l) \in Nat /\ Len(l) # 0
  BY DEF LabelLists
<1>2. <<>> \in Seq(S)
  OBVIOUS
<1>3. Append(l, <<>>) \in LabelLists(S)
  BY <1>1, <1>2, AppendProperties DEF LabelLists
<1>4. Last(l) \in Seq(S)
  BY <1>1 DEF Last
<1>5. Append(Last(l), x) \in Seq(S)
  BY <1>4, AppendProperties
<1>6. Front(l) \in Seq(Seq(S))
  BY <1>1 DEF Front
<1>7. Append(Front(l), Append(Last(l), x)) \in LabelLists(S)
  <2> DEFINE T == Seq(S)
  <2>1. Append(Last(l), x) \in T /\ Front(l) \in Seq(T)
    BY <1>5, <1>6
  <2> HIDE DEF T
  <2>2. Append(Front(l), Append(Last(l), x)) \in Seq(T) /\ Append(Front(l), Append(Last(l), x)) # <<>>
    BY <2>1, AppendProperties
  <2> QED BY <2>2 DEF LabelLists, T
<1> QED BY <1>3, <1>7 DEF Extended

\* Whatever labels come before, the last one is extended in the same way.
LEMMA ExtendedAfter ==
  ASSUME NEW S, NEW b \in Seq(Seq(S)), NEW l \in LabelLists(S), NEW x \in S
  PROVE  Extended(b \o l, x) = b \o Extended(l, x)
<1> DEFINE n == Len(b)
           m == Len(l)
           T == Seq(S)
<1>1. l \in Seq(T) /\ m \in Nat /\ m # 0 /\ b \in Seq(T) /\ n \in Nat
  BY DEF LabelLists
<1>2. <<>> \in T
  OBVIOUS
<1> HIDE DEF T
<1>3. b \o l \in Seq(T) /\ Len(b \o l) = n + m
      /\ \A i \in 1..(n + m) : (b \o l)[i] = IF i <= n THEN b[i] ELSE l[i - n]
  BY <1>1, ConcatProperties
<1>4. Last(b \o l) = Last(l)
  BY <1>1, <1>3 DEF Last
<1>5. Front(b \o l) \in Seq(T) /\ Len(Front(b \o l)) = n + m - 1
      /\ \A i \in 1..(n + m - 1) : Front(b \o l)[i] = (b \o l)[i]
  <2> DEFINE c == b \o l
             k == n + m - 1
  <2>1. c \in Seq(T) /\ Len(c) = k + 1 /\ k \in Nat
    BY <1>1, <1>3
  <2> HIDE DEF c, k
  <2>2. SubSeq(c, 1, k) \in Seq(T) /\ Len(SubSeq(c, 1, k)) = k
        /\ \A i \in 1..k : SubSeq(c, 1, k)[i] = c[i]
    BY <2>1
  <2>3. Front(c) = SubSeq(c, 1, k)
    BY <2>1 DEF Front
  <2> QED BY <2>2, <2>3 DEF c, k
<1>6. Front(l) \in Seq(T) /\ Len(Front(l)) = m - 1
      /\ \A i \in 1..(m - 1) : Front(l)[i] = l[i]
  <2>1. \A i \in 1..(m - 1) : l[i] \in T
    BY <1>1
  <2> HIDE DEF m
  <2>2. Front(l) = SubSeq(l, 1, m - 1)
    BY DEF Front, m
  <2> QED BY <1>1, <2>1, <2>2, SubSeqProperties
<1>7. Front(b \o l) = b \o Front(l)
  <2>1. b \o Front(l) \in Seq(T) /\ Len(b \o Front(l)) = n + m - 1
        /\ \A i \in 1..(n + m - 1) : (b \o Front(l))[i] = IF i <= n THEN b[i] ELSE Front(l)[i - n]
    <3>1. /\ b \o Front(l) \in Seq(T) /\ Len(b \o Front(l)) = n + (m - 1)
          /\ \A i \in 1..(n + (m - 1)) : (b \o Front(l))[i] = IF i <= n THEN b[i] ELSE Front(l)[i - n]
      <4> DEFINE c == Front(l)
      <4>1. c \in Seq(T) /\ Len(c) = m - 1
        BY <1>6
      <4> HIDE DEF c
      <4>2. /\ b \o c \in Seq(T) /\ Len(b \o c) = Len(b) + Len(c)
            /\ \A i \in 1..(Len(b) + Len(c)) : (b \o c)[i] = IF i <= Len(b) THEN b[i] ELSE c[i - Len(b)]
        BY <1>1, <4>1, ConcatProperties
      <4>3. Len(b) = n
        OBVIOUS
      <4> HIDE DEF n, m
      <4> QED BY <4>1, <4>2, <4>3 DEF c
    <3>2. n + (m - 1) = n + m - 1
      BY <1>1
    <3> QED BY <3>1, <3>2
  <2>2. ASSUME NEW i \in 1..(n + m - 1)
        PROVE  Front(b \o l)[i] = (b \o Front(l))[i]
    <3>1. i \in 1..(n + m) /\ (i > n => i - n \in 1..(m - 1))
      BY <1>1
    <3> HIDE DEF n, m
    <3> QED BY <1>1, <1>3, <1>5, <1>6, <2>1, <3>1
  <2> HIDE DEF n, m
  <2> QED BY <1>5, <2>1, <2>2, SeqEqual
<1>8. \A y \in T, c \in Seq(T) : Append(b \o c, y) = b \o Append(c, y)
  <2> SUFFICES ASSUME NEW y \in T, NEW c \in Seq(T)
               PROVE  Append(b \o c, y) = b \o Append(c, y)
    OBVIOUS
  <2>1. Append(b \o c, y) = (b \o c) \o <<y>> /\ Append(c, y) = c \o <<y>> /\ <<y>> \in Seq(T)
    BY <1>1, AppendIsConcat, ConcatProperties
  <2> QED BY <1>1, <2>1, ConcatAssociative
<1>9. Append(Last(l), x) \in T
  <2>1. Last(l) \in Seq(S)
    BY <1>1 DEF Last, T
  <2> QED BY <2>1, AppendProperties DEF T
<1> QED BY <1>1, <1>2, <1>4, <1>6, <1>7, <1>8, <1>9 DEF Extended

\* f[i] are the labels of the first i characters.
Builds(f, s) ==
  /\ f[0] = << <<>> >>
  /\ \A i \in 1..Len(s) : f[i] = Extended(f[i - 1], s[i])

LEMMA BuildsExist ==
  ASSUME NEW S, NEW s \in Seq(S)
  PROVE  \E f \in [0..Len(s) -> LabelLists(S)] : Builds(f, s)
<1> DEFINE L == LabelLists(S)
           Some(f, n) == f[0] = << <<>> >> /\ \A i \in 1..n : f[i] = Extended(f[i - 1], s[i])
           T == {n \in 0..Len(s) : ~\E f \in [0..n -> L] : Some(f, n)}
<1>1. Len(s) \in Nat
  OBVIOUS
<1>2. SUFFICES ASSUME T # {} PROVE FALSE
  <2>1. CASE Len(s) \notin T
    <3>1. PICK f \in [0..Len(s) -> L] : Some(f, Len(s))
      BY <1>1, <2>1
    <3> HIDE DEF L
    <3>2. Builds(f, s)
      BY <3>1 DEF Builds
    <3> QED BY <3>1, <3>2 DEF L
  <2>2. CASE Len(s) \in T
    BY <2>2
  <2> QED BY <2>1, <2>2
<1>3. PICK n \in T : \A m \in T : n <= m
  <2>1. T \in SUBSET Nat
    BY <1>1
  <2> HIDE DEF T
  <2> QED BY <1>2, <2>1, LeastNumber
<1>4. n # 0
  <2>1. << <<>> >> \in L
    BY DEF LabelLists
  <2>2. [i \in 0..0 |-> << <<>> >>] \in [0..0 -> L]
    BY <2>1
  <2>3. Some([i \in 0..0 |-> << <<>> >>], 0)
    OBVIOUS
  <2> QED BY <2>2, <2>3
<1>5. n \in 1..Len(s) /\ n - 1 \in 0..Len(s) /\ n - 1 \notin T
  <2>1. n \in 0..Len(s)
    BY <1>3
  <2>2. n - 1 \notin T
    <3> HIDE DEF T
    <3> QED BY <1>1, <1>3, <2>1
  <2> HIDE DEF T
  <2> QED BY <1>1, <1>4, <2>1, <2>2
<1>6. PICK f \in [0..(n - 1) -> L] : Some(f, n - 1)
  BY <1>5
<1> DEFINE g == [i \in 0..n |-> IF i < n THEN f[i] ELSE Extended(f[n - 1], s[n])]
<1>7. Extended(f[n - 1], s[n]) \in L
  <2>1. f[n - 1] \in L /\ s[n] \in S
    BY <1>5
  <2> QED BY <2>1, ExtendedIsList
<1> HIDE DEF L
<1>8. g \in [0..n -> L]
  BY <1>5, <1>7
<1>9. Some(g, n)
  <2>1. g[0] = << <<>> >>
    BY <1>5, <1>6
  <2>2. ASSUME NEW i \in 1..n
        PROVE  g[i] = Extended(g[i - 1], s[i])
    <3>1. g[i - 1] = f[i - 1]
      BY <1>1, <1>5
    <3>2. CASE i = n
      BY <1>1, <1>5, <3>1, <3>2
    <3>3. CASE i < n
      <4>1. g[i] = f[i] /\ i \in 1..(n - 1)
        BY <1>1, <1>5, <3>3
      <4> QED BY <1>6, <3>1, <4>1
    <3> QED BY <1>1, <1>5, <3>2, <3>3
  <2> QED BY <2>1, <2>2
<1> QED BY <1>8, <1>9 DEF L

LEMMA LabelsAreBuilt ==
  ASSUME NEW S, NEW s \in Seq(S)
  PROVE  \E f \in [0..Len(s) -> LabelLists(S)] : Builds(f, s) /\ Labels(s) = f[Len(s)]
<1> DEFINE body(f) == [i \in 0..Len(s) |-> IF i = 0 THEN << <<>> >> ELSE Extended(f[i - 1], s[i])]
           upTo == CHOOSE f : f = body(f)
<1>1. Len(s) \in Nat
  OBVIOUS
<1>2. PICK g \in [0..Len(s) -> LabelLists(S)] : Builds(g, s)
  BY BuildsExist
<1>3. g = body(g)
  <2>1. ASSUME NEW i \in 0..Len(s)
        PROVE  g[i] = body(g)[i]
    <3>1. CASE i = 0
      BY <1>2, <3>1 DEF Builds
    <3>2. CASE i # 0
      <4>1. i \in 1..Len(s)
        BY <1>1, <3>2
      <4>2. g[i] = Extended(g[i - 1], s[i])
        BY <1>2, <4>1 DEF Builds
      <4>3. body(g)[i] = Extended(g[i - 1], s[i])
        BY <3>2
      <4> QED BY <4>2, <4>3
    <3> QED BY <3>1, <3>2
  <2>2. g = [i \in 0..Len(s) |-> g[i]]
    BY <1>2
  <2> QED BY <2>1, <2>2
<1>4. upTo = body(upTo)
  <2> HIDE DEF body
  <2> QED BY <1>3
<1>5. Labels(s) = upTo[Len(s)]
  BY DEF Labels
<1> HIDE DEF upTo
<1>6. upTo[0] = << <<>> >>
  BY <1>1, <1>4
<1>7. ASSUME NEW i \in 1..Len(s)
      PROVE  upTo[i] = Extended(upTo[i - 1], s[i])
  <2>1. i \in 0..Len(s) /\ i # 0
    BY <1>1
  <2>2. body(upTo)[i] = Extended(upTo[i - 1], s[i])
    BY <2>1
  <2> HIDE DEF body
  <2> QED BY <1>4, <2>2
<1>8. Builds(upTo, s)
  BY <1>6, <1>7 DEF Builds
<1> HIDE DEF body
<1>9. \A n \in 0..Len(s) : g[n] = upTo[n]
  <2> DEFINE T == {n \in 0..Len(s) : g[n] # upTo[n]}
  <2>1. SUFFICES ASSUME T # {} PROVE FALSE
    OBVIOUS
  <2>2. PICK n \in T : \A m \in T : n <= m
    <3>1. T \in SUBSET Nat
      BY <1>1
    <3> HIDE DEF T
    <3> QED BY <2>1, <3>1, LeastNumber
  <2>3. n \in 0..Len(s) /\ g[n] # upTo[n]
    BY <2>2
  <2>4. n # 0
    BY <1>2, <1>6, <2>3 DEF Builds
  <2>5. n \in 1..Len(s) /\ n - 1 \in 0..Len(s) /\ n - 1 \notin T
    <3>1. n - 1 \notin T
      <4> HIDE DEF T
      <4> QED BY <1>1, <2>2, <2>3
    <3> QED BY <1>1, <2>3, <2>4, <3>1
  <2>6. g[n - 1] = upTo[n - 1]
    BY <2>5
  <2>7. g[n] = Extended(g[n - 1], s[n])
    BY <1>2, <2>5 DEF Builds
  <2> QED BY <1>7, <2>3, <2>5, <2>6, <2>7
<1>10. Labels(s) = g[Len(s)]
  BY <1>1, <1>5, <1>9
<1> QED BY <1>2, <1>10

\* name is what follows the dot at position m + 1 of host.
FollowsDot(name, host, m) ==
  /\ m \in Nat
  /\ Len(host) = m + 1 + Len(name)
  /\ host[m + 1] = Dot
  /\ \A i \in 1..Len(name) : host[m + 1 + i] = name[i]

LEMMA EndsWithMeans ==
  ASSUME NEW S, NEW host \in Seq(S), NEW name \in Seq(S), EndsWith(host, <<Dot>> \o name)
  PROVE  FollowsDot(name, host, Len(host) - Len(name) - 1)
<1> DEFINE T == S \cup {Dot}
           tail == <<Dot>> \o name
           n == Len(name)
           h == Len(host)
<1>1. host \in Seq(T) /\ name \in Seq(T) /\ <<Dot>> \in Seq(T)
  BY SeqMonotonic
<1>2. n \in Nat /\ h \in Nat
  OBVIOUS
<1> HIDE DEF T
<1>3. tail \in Seq(T) /\ Len(tail) = n + 1 /\ tail[1] = Dot
      /\ \A i \in 1..n : tail[i + 1] = name[i]
  BY <1>1
<1> HIDE DEF tail
<1>4. IsSuffix(tail, host)
  BY DEF EndsWith, tail
<1>5. n + 1 <= h /\ \A i \in 1..(n + 1) : tail[i] = host[h - (n + 1) + i]
  BY <1>1, <1>3, <1>4, SuffixMeans
<1> DEFINE m == h - n - 1
<1>6. m \in Nat /\ h = m + 1 + n
  BY <1>2, <1>5
<1>7. host[m + 1] = Dot
  <2>1. 1 \in 1..(n + 1) /\ h - (n + 1) + 1 = m + 1
    BY <1>2
  <2> QED BY <1>3, <1>5, <2>1
<1>8. ASSUME NEW i \in 1..n
      PROVE  host[m + 1 + i] = name[i]
  <2>1. i + 1 \in 1..(n + 1) /\ h - (n + 1) + (i + 1) = m + 1 + i
    BY <1>2
  <2> QED BY <1>3, <1>5, <2>1
<1> QED BY <1>6, <1>7, <1>8 DEF FollowsDot

\* What follows a dot has the last labels.
LEMMA LabelsAfterDot ==
  ASSUME NEW S, NEW host \in Seq(S), NEW name \in Seq(S), NEW m, FollowsDot(name, host, m)
  PROVE  IsSuffix(Labels(name), Labels(host))
<1>1. PICK f \in [0..Len(host) -> LabelLists(S)] : Builds(f, host) /\ Labels(host) = f[Len(host)]
  BY LabelsAreBuilt
<1>2. PICK g \in [0..Len(name) -> LabelLists(S)] : Builds(g, name) /\ Labels(name) = g[Len(name)]
  BY LabelsAreBuilt
<1> DEFINE n == Len(name)
           h == Len(host)
           L == LabelLists(S)
           b == f[m]
<1>3. n \in Nat /\ h \in Nat /\ m \in Nat /\ h = m + 1 + n
  BY DEF FollowsDot
<1>4. b \in Seq(Seq(S)) /\ b \in L
  <2>1. m \in 0..Len(host)
    BY <1>3
  <2> QED BY <1>1, <2>1 DEF LabelLists
<1>5. \A i \in 0..n : g[i] \in L
  BY <1>2
<1>6. \A i \in 1..n : name[i] \in S
  OBVIOUS
<1>7. f[m + 1] = b \o g[0]
  <2>1. m + 1 \in 1..Len(host) /\ m + 1 - 1 = m
    BY <1>3
  <2>2. f[m + 1] = Extended(b, Dot)
    BY <1>1, <2>1 DEF Builds, FollowsDot
  <2>3. <<>> \in Seq(S)
    OBVIOUS
  <2>4. Extended(b, Dot) = b \o << <<>> >>
    BY <1>4, <2>3, AppendIsConcat DEF Extended
  <2> QED BY <1>2, <2>2, <2>4 DEF Builds
<1>8. ASSUME NEW i \in 1..n, f[m + 1 + (i - 1)] = b \o g[i - 1]
      PROVE  f[m + 1 + i] = b \o g[i]
  <2>1. m + 1 + i \in 1..Len(host) /\ (m + 1 + i) - 1 = m + 1 + (i - 1) /\ i - 1 \in 0..n
    BY <1>3
  <2>2. f[m + 1 + i] = Extended(b \o g[i - 1], name[i])
    <3>1. f[m + 1 + i] = Extended(f[(m + 1 + i) - 1], host[m + 1 + i])
      <4>1. \A k \in 1..Len(host) : f[k] = Extended(f[k - 1], host[k])
        BY <1>1 DEF Builds
      <4> DEFINE k == m + 1 + i
      <4>2. k \in 1..Len(host)
        BY <2>1
      <4> HIDE DEF k, b
      <4>3. f[k] = Extended(f[k - 1], host[k])
        BY <4>1, <4>2
      <4> QED BY <4>3 DEF k
    <3>2. host[m + 1 + i] = name[i]
      BY DEF FollowsDot
    <3>3. f[(m + 1 + i) - 1] = b \o g[i - 1]
      BY <1>8, <2>1, Zenon
    <3> QED BY <3>1, <3>2, <3>3, Zenon
  <2>3. g[i] = Extended(g[i - 1], name[i])
    BY <1>2 DEF Builds
  <2>4. g[i - 1] \in L /\ name[i] \in S
    BY <1>5, <1>6, <2>1
  <2>5. Extended(b \o g[i - 1], name[i]) = b \o Extended(g[i - 1], name[i])
    <3> DEFINE l == g[i - 1]
               x == name[i]
    <3>1. b \in Seq(Seq(S)) /\ l \in LabelLists(S) /\ x \in S
      BY <1>4, <2>4
    <3> HIDE DEF b, l, x
    <3>2. Extended(b \o l, x) = b \o Extended(l, x)
      BY <3>1, ExtendedAfter
    <3> QED BY <3>2 DEF l, x
  <2> QED BY <2>2, <2>3, <2>5, Zenon
<1>9. \A i \in 0..n : f[m + 1 + i] = b \o g[i]
  <2> HIDE DEF n, h, L, b
  <2> DEFINE T == {i \in 0..n : f[m + 1 + i] # b \o g[i]}
  <2>1. SUFFICES ASSUME T # {} PROVE FALSE
    OBVIOUS
  <2>2. PICK k \in T : \A j \in T : k <= j
    <3>1. T \in SUBSET Nat
      BY <1>3
    <3> HIDE DEF T
    <3> QED BY <2>1, <3>1, LeastNumber
  <2>3. k \in 0..n /\ f[m + 1 + k] # b \o g[k]
    BY <2>2
  <2>4. k # 0
    BY <1>3, <1>7, <2>3
  <2>5. k \in 1..n /\ k - 1 \in 0..n /\ k - 1 \notin T
    <3>1. k - 1 \notin T
      <4> HIDE DEF T
      <4> QED BY <1>3, <2>2, <2>3
    <3> QED BY <1>3, <2>3, <2>4, <3>1
  <2>6. f[m + 1 + (k - 1)] = b \o g[k - 1]
    BY <2>5
  <2> QED BY <1>8, <2>3, <2>5, <2>6
<1>10. Labels(host) = b \o Labels(name)
  <2>1. n \in 0..n /\ m + 1 + n = Len(host)
    BY <1>3
  <2> QED BY <1>1, <1>2, <1>9, <2>1
<1> DEFINE c == Labels(name)
           T == Seq(S)
<1>11. c \in Seq(T)
  <2>1. n \in 0..n
    BY <1>3
  <2>2. g[n] \in L
    BY <1>5, <2>1
  <2> QED BY <1>2, <2>2 DEF LabelLists
<1>12. b \in Seq(T)
  BY <1>4
<1> HIDE DEF b, c, T
<1>13. b \o c \in Seq(T) /\ Len(b \o c) = Len(b) + Len(c) /\ Len(b) \in Nat /\ Len(c) \in Nat
       /\ \A i \in 1..(Len(b) + Len(c)) : (b \o c)[i] = IF i <= Len(b) THEN b[i] ELSE c[i - Len(b)]
  BY <1>11, <1>12, ConcatProperties
<1>14. ASSUME NEW i \in 1..Len(c)
       PROVE  c[i] = (b \o c)[Len(b \o c) - Len(c) + i]
  <2>1. Len(b \o c) - Len(c) + i = Len(b) + i /\ Len(b) + i \in 1..(Len(b) + Len(c))
        /\ ~(Len(b) + i <= Len(b)) /\ Len(b) + i - Len(b) = i
    BY <1>13
  <2> QED BY <1>13, <2>1
<1>15. IsSuffix(c, b \o c)
  <2>1. Len(c) <= Len(b \o c)
    BY <1>13
  <2> QED BY <1>11, <1>13, <1>14, <2>1, SuffixMeans
<1> QED BY <1>10, <1>15 DEF c

LEMMA SuffixOfItself ==
  ASSUME NEW S, NEW s \in Seq(S)
  PROVE  IsSuffix(s, s)
<1>1. Len(s) \in Nat
  OBVIOUS
<1>2. \A i \in 1..Len(s) : s[i] = s[Len(s) - Len(s) + i]
  BY <1>1
<1> QED BY <1>1, <1>2, SuffixMeans

LEMMA RpIdsAreScoped ==
  ASSUME NEW rpId, NEW origin,
         Sequence(rpId), Sequence(origin.host), Sequence(origin.port)
  PROVE  Scoped(rpId, origin)
<1>1. ASSUME VerifyRpId(rpId, origin)
      PROVE  IsSuffix(Labels(rpId), Labels(origin.host))
  <2>1. PICK S : rpId \in Seq(S) /\ origin.host \in Seq(S)
    BY OneRange
  <2>2. CASE origin.host = rpId
    <3>1. PICK f \in [0..Len(rpId) -> LabelLists(S)] : Labels(rpId) = f[Len(rpId)]
      BY <2>1, LabelsAreBuilt
    <3>2. Len(rpId) \in 0..Len(rpId)
      BY <2>1
    <3>3. Labels(rpId) \in Seq(Seq(S))
      BY <3>1, <3>2 DEF LabelLists
    <3> QED BY <2>2, <3>3, SuffixOfItself
  <2>3. CASE EndsWith(origin.host, <<Dot>> \o rpId)
    BY <2>1, <2>3, EndsWithMeans, LabelsAfterDot
  <2> QED BY <1>1, <2>2, <2>3 DEF VerifyRpId, Under
<1>2. VerifyRpId(rpId, origin) /\ rpId \in PublicSuffixes => Labels(rpId) = Labels(origin.host)
  BY DEF VerifyRpId, Under
<1>3. ASSUME Secure(origin), origin.scheme # "https"
      PROVE  Last(origin.host) = "localhost"
  <2>1. CASE origin.host = Localhost
    BY <2>1 DEF Localhost, Last
  <2>2. CASE EndsWith(origin.host, <<Dot>> \o Localhost)
    <3> DEFINE S == {origin.host[i] : i \in DOMAIN origin.host} \cup {"localhost"}
               host == origin.host
    <3>1. host \in Seq(S) /\ Localhost \in Seq(S) /\ Len(Localhost) = 1 /\ Localhost[1] = "localhost"
      <4>1. host \in Seq({host[i] : i \in DOMAIN host})
        BY DEF Sequence
      <4> QED BY <4>1, SeqMonotonic DEF Localhost
    <3> HIDE DEF S, host
    <3>2. FollowsDot(Localhost, host, Len(host) - Len(Localhost) - 1)
      BY <2>2, <3>1, EndsWithMeans DEF host
    <3>3. Len(host) \in Nat /\ Len(host) - 1 - 1 + 1 + 1 = Len(host)
      BY <3>1
    <3>4. host[Len(host)] = "localhost"
      BY <3>1, <3>2, <3>3 DEF FollowsDot
    <3> QED BY <3>4 DEF Last, host
  <2> QED BY <1>3, <2>1, <2>2 DEF Secure
<1>4. ASSUME GetRpId(origin) # NoName
      PROVE  VerifyRpId(GetRpId(origin), origin) <=> origin.port = NoName
  <2> DEFINE host == origin.host
             port == origin.port
             default == host \o port
  <2>1. PICK S : host \in Seq(S) /\ port \in Seq(S)
    BY OneRange
  <2>2. GetRpId(origin) = default /\ origin.scheme = "https" /\ host # <<>>
    BY <1>4 DEF GetRpId, NoName
  <2> HIDE DEF host, port
  <2>3. default \in Seq(S) /\ Len(default) = Len(host) + Len(port) /\ Len(host) \in Nat /\ Len(port) \in Nat
    BY <2>1
  <2>4. CASE port = <<>>
    <3>1. default = host
      BY <2>1, <2>4
    <3> QED BY <2>2, <2>4, <3>1 DEF VerifyRpId, Under, Secure, NoName, host, port
  <2>5. CASE port # <<>>
    <3>1. Len(port) > 0
      BY <2>1, <2>3, <2>5
    <3>2. host # default
      BY <2>3, <3>1
    <3>3. ~EndsWith(host, <<Dot>> \o default)
      <4>1. SUFFICES ASSUME EndsWith(host, <<Dot>> \o default) PROVE FALSE
        OBVIOUS
      <4> HIDE DEF default
      <4>2. FollowsDot(default, host, Len(host) - Len(default) - 1)
        BY <2>1, <2>3, <4>1, EndsWithMeans
      <4>3. Len(host) - Len(default) - 1 \in Nat
        BY <4>2 DEF FollowsDot
      <4> QED BY <2>3, <4>3
    <3> QED BY <2>2, <2>5, <3>2, <3>3 DEF VerifyRpId, Under, NoName, host, port
  <2> QED BY <2>4, <2>5
<1> QED BY <1>1, <1>2, <1>3, <1>4 DEF Scoped, VerifyRpId

-------------------------------------------------------------------------------
(* Extensions with an authenticator                                        *)

LEMMA SingleKey ==
  ASSUME NEW k, NEW v
  PROVE  DOMAIN Dict(k, v) = {k} /\ Dict(k, v)[k] = v
BY DEF Dict

LEMMA NothingHasNoKeys == DOMAIN Nothing = {}
BY DEF Nothing

\* The keys that are joined, and the value of one that is in a single part.
LEMMA JoinedKeys ==
  ASSUME NEW parts, NEW k
  PROVE  k \in DOMAIN Joined(parts) <=> \E p \in parts : k \in DOMAIN p
BY DEF Joined

LEMMA JoinedValue ==
  ASSUME NEW parts, NEW p \in parts, NEW k \in DOMAIN p,
         \A q \in parts : k \in DOMAIN q => q = p
  PROVE  Joined(parts)[k] = p[k]
<1>1. (CHOOSE q \in parts : k \in DOMAIN q) = p
  OBVIOUS
<1>2. k \in UNION {DOMAIN q : q \in parts}
  OBVIOUS
<1> QED BY <1>1, <1>2 DEF Joined

LEMMA RegistrationsAreHonest ==
  ASSUME NEW o, NEW info
  PROVE  RegistrationIsHonest(o, info)
<1> DEFINE inputs == CreateInputs(o, info)
           hmac == HmacCreateInput(o, info)
           blob == BlobCreateInput(o, info)
           cred == CredBlobCreateInput(o, info)
           protect == CredProtectInput(o, info)
           pin == MinPinLengthInput(o, info)
           parts == {hmac, blob, cred, protect, pin}
           made == CreatedWith(inputs, info, RkOption(o, info))
           out == CreateOutputs(o, info, made)
<1>1. SUFFICES ASSUME inputs # Invalid
               PROVE  /\ o.policy # None /\ (o.enforce \/ "credProtect" \in info) => made.protect = o.policy
                      /\ "credProps" \in DOMAIN out => out["credProps"] = made.rk
                      /\ RequireResidentKey(o) => made.rk
                      /\ "largeBlob" \in DOMAIN out => out["largeBlob"] = made.blobKey
                      /\ "prf" \in DOMAIN out => o.prf # None /\ out["prf"] = ("hmac-secret" \in DOMAIN made.ext)
                      /\ "hmacCreateSecret" \in DOMAIN out => o.allowHmac /\ o.hmacCreate
  BY Zenon DEF RegistrationIsHonest
<1>2. inputs = Joined(parts) /\ Invalid \notin parts
  BY <1>1 DEF CreateInputs, Merged
<1>3. /\ made.rk = RkOption(o, info)
      /\ made.blobKey = ("largeBlobKey" \in DOMAIN inputs /\ LargeBlobs(info) /\ RkOption(o, info))
      /\ made.ext = IF "hmac-secret" \in DOMAIN inputs THEN Dict("hmac-secret", TRUE) ELSE Nothing
      /\ made.protect = IF "credProtect" \in DOMAIN inputs /\ "credProtect" \in info
                        THEN inputs["credProtect"] ELSE 1
  BY DEF CreatedWith
<1>4. /\ hmac = Dict("hmac-secret", TRUE) \/ hmac = Nothing
      /\ HmacAsked(o) /\ "hmac-secret" \in info => hmac = Dict("hmac-secret", TRUE)
  BY Zenon DEF HmacCreateInput
<1>5. blob = IF BlobAsked(o) THEN Dict("largeBlobKey", TRUE) ELSE Nothing
  BY <1>2 DEF BlobCreateInput
<1>6. cred \in {Dict("credBlob", o.credBlob), Nothing} /\ pin \in {Dict("minPinLength", TRUE), Nothing}
  BY DEF CredBlobCreateInput, MinPinLengthInput
<1>7. /\ o.policy # None => /\ o.policy \in 1..3
                            /\ ~(o.enforce /\ "credProtect" \notin info /\ o.policy > 1)
      /\ protect = IF o.policy = None THEN Nothing ELSE Dict("credProtect", o.policy)
  BY <1>2 DEF CredProtectInput
<1> HIDE DEF hmac, blob, cred, protect, pin
<1>8. /\ DOMAIN hmac \subseteq {"hmac-secret"} /\ DOMAIN blob \subseteq {"largeBlobKey"}
      /\ DOMAIN cred \subseteq {"credBlob"} /\ DOMAIN protect \subseteq {"credProtect"}
      /\ DOMAIN pin \subseteq {"minPinLength"}
  BY <1>4, <1>5, <1>6, <1>7, SingleKey, NothingHasNoKeys
<1>9. /\ "hmac-secret" \in DOMAIN inputs <=> "hmac-secret" \in DOMAIN hmac
      /\ "largeBlobKey" \in DOMAIN inputs <=> "largeBlobKey" \in DOMAIN blob
      /\ "credProtect" \in DOMAIN inputs <=> "credProtect" \in DOMAIN protect
  BY <1>2, <1>8, JoinedKeys
<1>10. "credProtect" \in DOMAIN protect => inputs["credProtect"] = protect["credProtect"]
  <2>1. SUFFICES ASSUME "credProtect" \in DOMAIN protect PROVE inputs["credProtect"] = protect["credProtect"]
    OBVIOUS
  <2>2. \A q \in parts : "credProtect" \in DOMAIN q => q = protect
    BY <1>8
  <2>3. protect \in parts
    OBVIOUS
  <2> HIDE DEF parts, inputs
  <2> QED BY <1>2, <2>1, <2>2, <2>3, JoinedValue
<1> DEFINE hmacOut == HmacCreateOutput(o, info, made)
           blobOut == BlobCreateOutput(o, made)
           propsOut == CredPropsOutput(o, info)
           outs == {hmacOut, blobOut, propsOut}
<1>11. out = Joined(outs)
  BY DEF CreateOutputs
<1> HIDE DEF inputs, made, parts
<1>12. \/ hmacOut = Nothing
       \/ /\ "hmac-secret" \in info /\ HmacAsked(o)
          /\ hmacOut = Dict(IF o.prf # None THEN "prf" ELSE "hmacCreateSecret",
                         "hmac-secret" \in DOMAIN made.ext /\ made.ext["hmac-secret"])
  BY DEF HmacCreateOutput
<1>13. blobOut = IF BlobAsked(o) THEN Dict("largeBlob", made.blobKey) ELSE Nothing
  BY DEF BlobCreateOutput
<1>14. propsOut \in {Dict("credProps", RkOption(o, info)), Nothing}
  BY DEF CredPropsOutput, RkOption
<1> HIDE DEF hmacOut, blobOut, propsOut
<1>15. /\ DOMAIN hmacOut = {} \/ DOMAIN hmacOut = {IF o.prf # None THEN "prf" ELSE "hmacCreateSecret"}
       /\ DOMAIN blobOut \subseteq {"largeBlob"}
       /\ DOMAIN propsOut \subseteq {"credProps"}
  <2>1. DOMAIN hmacOut = {} \/ DOMAIN hmacOut = {IF o.prf # None THEN "prf" ELSE "hmacCreateSecret"}
    BY <1>12, SingleKey, NothingHasNoKeys, Zenon
  <2> QED BY <1>13, <1>14, <2>1, SingleKey, NothingHasNoKeys
<1>16. ASSUME NEW k, NEW p \in outs, k \in DOMAIN p
       PROVE  out[k] = p[k]
  <2>1. \A q \in outs : k \in DOMAIN q => q = p
    BY <1>15, <1>16
  <2> HIDE DEF outs, out
  <2> QED BY <1>11, <1>16, <2>1, JoinedValue
<1>17. \A k : k \in DOMAIN out <=> \E p \in outs : k \in DOMAIN p
  BY <1>11, JoinedKeys
<1> HIDE DEF out
<1>18. ASSUME o.policy # None, o.enforce \/ "credProtect" \in info
       PROVE  made.protect = o.policy
  <2>1. DOMAIN protect = {"credProtect"} /\ protect["credProtect"] = o.policy
    BY <1>7, <1>18, SingleKey
  <2> QED BY <1>3, <1>7, <1>9, <1>10, <1>18, <2>1
<1>19. ASSUME "credProps" \in DOMAIN out
       PROVE  out["credProps"] = made.rk
  <2>1. "credProps" \in DOMAIN propsOut /\ propsOut \in outs
    BY <1>15, <1>17, <1>19
  <2>2. out["credProps"] = propsOut["credProps"]
    BY <1>16, <2>1
  <2>3. propsOut["credProps"] = RkOption(o, info)
    BY <1>14, <2>1, SingleKey, NothingHasNoKeys
  <2> QED BY <1>3, <2>2, <2>3
<1>20. RequireResidentKey(o) => made.rk
  BY <1>3 DEF RequireResidentKey, RkOption
<1>21. ASSUME "largeBlob" \in DOMAIN out
       PROVE  out["largeBlob"] = made.blobKey
  <2>1. "largeBlob" \in DOMAIN blobOut /\ blobOut \in outs
    BY <1>15, <1>17, <1>21
  <2>2. out["largeBlob"] = blobOut["largeBlob"]
    BY <1>16, <2>1
  <2>3. blobOut["largeBlob"] = made.blobKey
    BY <1>13, <2>1, SingleKey, NothingHasNoKeys
  <2> QED BY <2>2, <2>3
<1>22. ASSUME "prf" \in DOMAIN out
       PROVE  o.prf # None /\ out["prf"] = ("hmac-secret" \in DOMAIN made.ext)
  <2>1. "prf" \in DOMAIN hmacOut /\ hmacOut \in outs
    BY <1>15, <1>17, <1>22
  <2>2. out["prf"] = hmacOut["prf"]
    BY <1>16, <2>1
  <2>3. o.prf # None
    BY <1>15, <2>1
  <2>4. "hmac-secret" \in info /\ HmacAsked(o)
        /\ hmacOut = Dict("prf", "hmac-secret" \in DOMAIN made.ext /\ made.ext["hmac-secret"])
    BY <1>12, <2>1, <2>3, NothingHasNoKeys
  <2>5. "hmac-secret" \in DOMAIN inputs
    <3>1. hmac = Dict("hmac-secret", TRUE)
      BY <1>4, <2>4, Zenon
    <3>2. "hmac-secret" \in DOMAIN hmac
      BY <3>1, SingleKey, Zenon
    <3> QED BY <1>9, <3>2, Zenon
  <2>6. "hmac-secret" \in DOMAIN made.ext /\ made.ext["hmac-secret"]
    <3>1. made.ext = Dict("hmac-secret", TRUE)
      BY <1>3, <2>5, Zenon
    <3>2. DOMAIN made.ext = {"hmac-secret"} /\ made.ext["hmac-secret"] = TRUE
      BY <3>1, SingleKey
    <3> QED BY <3>2
  <2>7. hmacOut["prf"] = TRUE
    BY <2>4, <2>6, SingleKey
  <2> QED BY <2>2, <2>3, <2>6, <2>7
<1>23. ASSUME "hmacCreateSecret" \in DOMAIN out
       PROVE  o.allowHmac /\ o.hmacCreate
  <2>1. "hmacCreateSecret" \in DOMAIN hmacOut
    BY <1>15, <1>17, <1>23
  <2>2. HmacAsked(o) /\ o.prf = None
    BY <1>12, <1>15, <2>1, NothingHasNoKeys
  <2> QED BY <2>2 DEF HmacAsked
<1> QED BY <1>18, <1>19, <1>20, <1>21, <1>22, <1>23
\* Also for the salts: the inputs meant for the credential are those selected.
LEMMA AssertionsAreHonest ==
  ASSUME NEW o, NEW info, NEW pinProtocol, NEW selected, NEW cred \in Creds, NEW hasKey,
         selected = IF o.allow = {} THEN None ELSE cred
  PROVE  AssertionIsHonest(o, info, pinProtocol, selected, cred, hasKey)
<1> DEFINE inputs == GetInputs(o, info, pinProtocol, selected)
           hmac == HmacGetInput(o, info, pinProtocol, selected)
           blob == BlobGetInput(o, info)
           credBlob == CredBlobGetInput(o, info)
           parts == {hmac, blob, credBlob}
           got == AssertedWith(inputs, cred, hasKey)
           out == GetOutputs(o, info, pinProtocol, got)
           meant == IF cred \in DOMAIN o.prf.byCred THEN o.prf.byCred[cred] ELSE o.prf.eval
           salts == Salts(o, selected)
<1>1. SUFFICES ASSUME inputs # Invalid
               PROVE  /\ "prf" \in DOMAIN out =>
                           out["prf"] = <<Secret(cred, PrfSalt(meant[1])),
                                          IF meant[2] = None THEN None ELSE Secret(cred, PrfSalt(meant[2]))>>
                      /\ "hmacGetSecret" \in DOMAIN out =>
                           out["hmacGetSecret"] = <<Secret(cred, o.hmacGet[1]), Secret(cred, o.hmacGet[2])>>
                      /\ "largeBlob" \in DOMAIN out =>
                           /\ out["largeBlob"][2] = cred
                           /\ out["largeBlob"][1] = "put_blob" <=> "LARGE_BLOB_WRITE" \in GetPermissions(o)
  BY Zenon DEF AssertionIsHonest
<1>2. inputs = Joined(parts) /\ Invalid \notin parts
  BY <1>1 DEF GetInputs, Merged
<1>3. /\ got.cred = cred
      /\ got.ext = IF "hmac-secret" \in DOMAIN inputs
                   THEN Dict("hmac-secret", <<Secret(cred, inputs["hmac-secret"][1]),
                                              Secret(cred, inputs["hmac-secret"][2])>>)
                   ELSE Nothing
  BY DEF AssertedWith
<1>4. \/ hmac = Nothing
      \/ /\ HmacGets(o, info, pinProtocol)
         /\ o.prf # None => PrfKeysAllowed(o) /\ SecretsFor(o, selected) # None
         /\ hmac = Dict("hmac-secret", salts)
  BY <1>2 DEF HmacGetInput
<1>5. /\ blob = IF BlobAsked(o) THEN Dict("largeBlobKey", TRUE) ELSE Nothing
      /\ BlobAsked(o) => ~(o.blob.read /\ o.blob.write # None)
  BY <1>2 DEF BlobGetInput
<1>6. credBlob = Dict("credBlob", TRUE) \/ credBlob = Nothing
  BY Zenon DEF CredBlobGetInput
<1> HIDE DEF hmac, blob, credBlob, salts
<1>7. /\ DOMAIN hmac \subseteq {"hmac-secret"}
      /\ DOMAIN blob \subseteq {"largeBlobKey"}
      /\ DOMAIN credBlob \subseteq {"credBlob"}
  <2>1. DOMAIN hmac \subseteq {"hmac-secret"}
    <3>1. hmac = Nothing \/ hmac = Dict("hmac-secret", salts)
      BY <1>4, Zenon
    <3> QED BY <3>1, SingleKey, NothingHasNoKeys, Zenon
  <2>2. DOMAIN blob \subseteq {"largeBlobKey"}
    BY <1>5, SingleKey, NothingHasNoKeys
  <2>3. DOMAIN credBlob \subseteq {"credBlob"}
    BY <1>6, SingleKey, NothingHasNoKeys, Zenon
  <2> QED BY <2>1, <2>2, <2>3
<1>8. ASSUME "hmac-secret" \in DOMAIN inputs
      PROVE  hmac # Nothing /\ inputs["hmac-secret"] = salts
  <2>1. "hmac-secret" \in DOMAIN hmac
    BY <1>2, <1>7, <1>8, JoinedKeys
  <2>2. \A q \in parts : "hmac-secret" \in DOMAIN q => q = hmac
    BY <1>7
  <2>3. hmac \in parts
    OBVIOUS
  <2>4. inputs["hmac-secret"] = hmac["hmac-secret"]
    <3> HIDE DEF parts, inputs
    <3> QED BY <1>2, <2>1, <2>2, <2>3, JoinedValue
  <2>5. hmac # Nothing
    BY <2>1, NothingHasNoKeys
  <2> HIDE DEF inputs
  <2> QED BY <1>4, <2>4, <2>5, SingleKey
<1> DEFINE hmacOut == HmacGetOutput(o, info, pinProtocol, got)
           blobOut == BlobGetOutput(o, got)
           outs == {hmacOut, blobOut}
<1>9. out = Joined(outs)
  BY DEF GetOutputs
<1> HIDE DEF inputs, got, parts
<1>10. \/ hmacOut = Nothing
       \/ /\ "hmac-secret" \in DOMAIN got.ext
          /\ hmacOut = Dict(IF o.prf # None THEN "prf" ELSE "hmacGetSecret", got.ext["hmac-secret"])
  BY DEF HmacGetOutput
<1>11. \/ blobOut = Nothing
       \/ BlobAsked(o) /\ o.blob.read /\ blobOut = Dict("largeBlob", <<"get_blob", cred>>)
       \/ /\ BlobAsked(o) /\ ~o.blob.read /\ o.blob.write # None
          /\ blobOut = Dict("largeBlob", <<"put_blob", cred, o.blob.write>>)
  BY <1>3 DEF BlobGetOutput
<1> HIDE DEF hmacOut, blobOut
<1>12. /\ DOMAIN hmacOut = {} \/ DOMAIN hmacOut = {IF o.prf # None THEN "prf" ELSE "hmacGetSecret"}
       /\ DOMAIN blobOut \subseteq {"largeBlob"}
  <2>1. DOMAIN hmacOut = {} \/ DOMAIN hmacOut = {IF o.prf # None THEN "prf" ELSE "hmacGetSecret"}
    BY <1>10, SingleKey, NothingHasNoKeys, Zenon
  <2>2. blobOut = Nothing \/ \E v : blobOut = Dict("largeBlob", v)
    BY <1>11, Zenon
  <2>3. DOMAIN blobOut \subseteq {"largeBlob"}
    BY <2>2, SingleKey, NothingHasNoKeys, Zenon
  <2> QED BY <2>1, <2>3
<1>13. ASSUME NEW k, NEW p \in outs, k \in DOMAIN p
       PROVE  out[k] = p[k]
  <2>1. \A q \in outs : k \in DOMAIN q => q = p
    BY <1>12, <1>13
  <2> HIDE DEF outs, out
  <2> QED BY <1>9, <1>13, <2>1, JoinedValue
<1>14. \A k : k \in DOMAIN out <=> \E p \in outs : k \in DOMAIN p
  BY <1>9, JoinedKeys
<1> HIDE DEF out
<1>15. ASSUME NEW k \in {"prf", "hmacGetSecret"}, k \in DOMAIN out
       PROVE  /\ k = "prf" <=> o.prf # None
              /\ out[k] = <<Secret(cred, salts[1]), Secret(cred, salts[2])>>
              /\ hmac # Nothing
  <2>1. k \in DOMAIN hmacOut /\ hmacOut \in outs
    BY <1>12, <1>14, <1>15
  <2>2. out[k] = hmacOut[k]
    BY <1>13, <2>1
  <2>3. k = "prf" <=> o.prf # None
    BY <1>12, <2>1
  <2>4. "hmac-secret" \in DOMAIN got.ext /\ hmacOut = Dict(k, got.ext["hmac-secret"])
    BY <1>10, <2>1, <2>3, NothingHasNoKeys
  <2>5. hmacOut[k] = got.ext["hmac-secret"]
    BY <2>4, SingleKey
  <2>6. "hmac-secret" \in DOMAIN inputs
    BY <1>3, <2>4, NothingHasNoKeys
  <2>7. got.ext["hmac-secret"] = <<Secret(cred, inputs["hmac-secret"][1]), Secret(cred, inputs["hmac-secret"][2])>>
    BY <1>3, <2>6, SingleKey
  <2> QED BY <1>8, <2>2, <2>3, <2>5, <2>6, <2>7
<1>16. ASSUME "prf" \in DOMAIN out
       PROVE  out["prf"] = <<Secret(cred, PrfSalt(meant[1])),
                             IF meant[2] = None THEN None ELSE Secret(cred, PrfSalt(meant[2]))>>
  <2>1. /\ o.prf # None
        /\ out["prf"] = <<Secret(cred, salts[1]), Secret(cred, salts[2])>>
        /\ hmac # Nothing
    BY <1>15, <1>16
  <2>2. PrfKeysAllowed(o)
    BY <1>4, <2>1
  <2>3. SecretsFor(o, selected) = meant
    <3>1. CASE o.allow = {}
      <4>1. DOMAIN o.prf.byCred = {}
        BY <2>2, <3>1 DEF PrfKeysAllowed
      <4> QED BY <4>1 DEF SecretsFor
    <3>2. CASE o.allow # {}
      <4>1. selected = cred /\ cred # None
        BY <3>2, ExtensionsAssumption
      <4> QED BY <4>1 DEF SecretsFor
    <3> QED BY <3>1, <3>2
  <2> HIDE DEF meant
  <2>4. salts = <<PrfSalt(meant[1]), IF meant[2] = None THEN None ELSE PrfSalt(meant[2])>>
    BY <2>1, <2>3 DEF salts, Salts
  <2>5. salts[1] = PrfSalt(meant[1]) /\ salts[2] = IF meant[2] = None THEN None ELSE PrfSalt(meant[2])
    BY <2>4
  <2>6. Secret(cred, salts[2]) = IF meant[2] = None THEN None ELSE Secret(cred, PrfSalt(meant[2]))
    BY <2>5 DEF Secret
  <2> QED BY <2>1, <2>5, <2>6
<1>17. ASSUME "hmacGetSecret" \in DOMAIN out
       PROVE  out["hmacGetSecret"] = <<Secret(cred, o.hmacGet[1]), Secret(cred, o.hmacGet[2])>>
  <2>1. o.prf = None /\ out["hmacGetSecret"] = <<Secret(cred, salts[1]), Secret(cred, salts[2])>>
    BY <1>15, <1>17
  <2>2. salts = o.hmacGet
    BY <2>1 DEF salts, Salts
  <2> QED BY <2>1, <2>2
<1>18. ASSUME "largeBlob" \in DOMAIN out
       PROVE  /\ out["largeBlob"][2] = cred
              /\ out["largeBlob"][1] = "put_blob" <=> "LARGE_BLOB_WRITE" \in GetPermissions(o)
  <2>1. "largeBlob" \in DOMAIN blobOut /\ blobOut \in outs
    BY <1>12, <1>14, <1>18
  <2>2. out["largeBlob"] = blobOut["largeBlob"]
    BY <1>13, <2>1
  <2>3. CASE o.blob.read
    <3>1. BlobAsked(o) /\ out["largeBlob"] = <<"get_blob", cred>>
      <4>1. BlobAsked(o) /\ blobOut = Dict("largeBlob", <<"get_blob", cred>>)
        BY <1>11, <2>1, <2>3, NothingHasNoKeys, Zenon
      <4> QED BY <2>2, <4>1, SingleKey, Zenon
    <3>2. "LARGE_BLOB_WRITE" \notin GetPermissions(o)
      BY <1>5, <2>3, <3>1 DEF GetPermissions, BlobPermission
    <3> QED BY <3>1, <3>2
  <2>4. CASE ~o.blob.read
    <3>1. BlobAsked(o) /\ o.blob.write # None /\ out["largeBlob"] = <<"put_blob", cred, o.blob.write>>
      <4>1. BlobAsked(o) /\ o.blob.write # None /\ blobOut = Dict("largeBlob", <<"put_blob", cred, o.blob.write>>)
        BY <1>11, <2>1, <2>4, NothingHasNoKeys, Zenon
      <4> QED BY <2>2, <4>1, SingleKey, Zenon
    <3>2. "LARGE_BLOB_WRITE" \in GetPermissions(o)
      BY <3>1 DEF GetPermissions, BlobPermission
    <3> QED BY <3>1, <3>2
  <2> QED BY <2>3, <2>4
<1> QED BY <1>16, <1>17, <1>18

-------------------------------------------------------------------------------
(* Options of the native API                                               *)

\* The version of a structure is that of the last API that lists it.
LEMMA ListedVersion ==
  ASSUME NEW struct \in {"make", "get", "assertion"}, NEW api \in Nat \ {0}
  PROVE  \E n \in 1..7 : /\ GetVersion(struct, api) = StructVersions[struct][n]
                         /\ StructVersions[struct][n] # 0
                         /\ \A m \in 1..7 : m <= api /\ StructVersions[struct][m] # 0 => m <= n
<1> DEFINE T == ListedUpTo(struct, api)
<1>1. StructVersions[struct][1] # 0
  BY DEF StructVersions
<1>2. T \in SUBSET (1..7) /\ T # {}
  BY <1>1 DEF ListedUpTo
<1>3. Max(T) \in T /\ \A m \in T : Max(T) >= m
  <2> HIDE DEF T
  <2> QED BY <1>2, MaxIsGreatest
<1>4. Max(T) \in 1..7 /\ StructVersions[struct][Max(T)] # 0
  BY <1>3 DEF ListedUpTo
<1>5. ASSUME NEW m \in 1..7, m <= api, StructVersions[struct][m] # 0
      PROVE  m <= Max(T)
  <2>1. m \in T
    BY <1>5 DEF ListedUpTo
  <2> HIDE DEF T
  <2> QED BY <1>3, <1>4, <2>1
<1> QED BY <1>4, <1>5, Zenon DEF GetVersion

LEMMA MakeVersion ==
  ASSUME NEW api \in Nat \ {0}
  PROVE  /\ GetVersion("make", api) \in Nat /\ GetVersion("make", api) >= 3
         /\ api >= 3 => GetVersion("make", api) >= 4
         /\ api >= 6 => GetVersion("make", api) >= 6
<1> DEFINE s == <<3, 0, 4, 5, 0, 6, 7>>
<1>1. StructVersions["make"] = s
  BY DEF StructVersions
<1>2. PICK n \in 1..7 : /\ GetVersion("make", api) = s[n] /\ s[n] # 0
                        /\ \A m \in 1..7 : m <= api /\ s[m] # 0 => m <= n
  BY <1>1, ListedVersion
<1>3. n \in {1, 3, 4, 6, 7}
  BY <1>2
<1>4. api >= 3 => n >= 3
  BY <1>2
<1>5. api >= 6 => n >= 6
  BY <1>2
<1> QED BY <1>2, <1>3, <1>4, <1>5

LEMMA GetAssertionVersion ==
  ASSUME NEW api \in Nat \ {0}
  PROVE  GetVersion("get", api) \in Nat /\ GetVersion("get", api) >= 4
<1> DEFINE s == <<4, 0, 5, 6, 0, 0, 7>>
<1>1. StructVersions["get"] = s
  BY DEF StructVersions
<1>2. PICK n \in 1..7 : GetVersion("get", api) = s[n] /\ s[n] # 0
  BY <1>1, ListedVersion
<1> QED BY <1>2

LEMMA AssertionVersion ==
  ASSUME NEW api \in Nat \ {0}
  PROVE  /\ GetVersion("assertion", api) \in Nat
         /\ api >= 4 => GetVersion("assertion", api) >= 3
<1> DEFINE s == <<1, 0, 2, 3, 0, 4, 5>>
<1>1. StructVersions["assertion"] = s
  BY DEF StructVersions
<1>2. PICK n \in 1..7 : /\ GetVersion("assertion", api) = s[n] /\ s[n] # 0
                        /\ \A m \in 1..7 : m <= api /\ s[m] # 0 => m <= n
  BY <1>1, ListedVersion
<1>3. n \in {1, 3, 4, 6, 7}
  BY <1>2
<1>4. api >= 4 => n >= 4
  BY <1>2
<1> QED BY <1>2, <1>3, <1>4

LEMMA NativeMakesAreAsAsked ==
  ASSUME NEW o, NEW api \in Nat \ {0}, NEW capable
  PROVE  NativeMakesAsAsked(o, api, capable)
<1> DEFINE native == MakeNative(o, api)
           v == GetVersion("make", api)
           made == Makes(native, capable)
           out == MakeOutputs(o, made)
<1>1. SUFFICES ASSUME native # Invalid
               PROVE  /\ o.uv = "required" => native.uv = "required"
                      /\ o.attachment \in Attachments => native.attachment = o.attachment
                      /\ RequireResidentKey(o) => native.requireRk
                      /\ native.exclude = o.exclude
                      /\ o.event => native.cancellable
                      /\ api >= 3 =>
                           /\ native.blob = "required" <=> (o.extensions /\ o.blob # None /\ o.blob.support = "required")
                           /\ native.preferRk <=> ResidentKey(o) = "preferred"
                           /\ o.attestation = "enterprise" /\ o.rpids = None => native.enterprise = "vendor"
                      /\ api >= 6 /\ o.extensions /\ o.prf => native.prf
                      /\ \A e \in out : e[1] \in {"prf", "hmacCreateSecret"} => o.prf \/ (o.hmacCreate /\ o.allowHmac)
  BY Zenon DEF NativeMakesAsAsked
<1>2. v \in Nat /\ v >= 3 /\ (api >= 3 => v >= 4) /\ (api >= 6 => v >= 6)
  BY MakeVersion
<1>3. WinBlobSupport(o) # Invalid
  BY <1>1 DEF MakeNative
<1>4. /\ native.uv = Known(o.uv, Levels, "discouraged")
      /\ native.attachment = Known(o.attachment, Attachments, "any")
      /\ native.requireRk = (ResidentKey(o) = "required")
      /\ native.exclude = o.exclude
      /\ native.ext = WinExtensions(o)
      /\ native.cancellable = (v >= 2 /\ o.event)
      /\ native.enterprise = Since(v, 4, WinEnterprise(o), "none")
      /\ native.blob = Since(v, 4, WinBlobSupport(o), "none")
      /\ native.preferRk = Since(v, 4, ResidentKey(o) = "preferred", FALSE)
      /\ native.prf = Since(v, 6, o.extensions /\ o.prf, FALSE)
  BY <1>1 DEF MakeNative
<1> HIDE DEF native, v
<1>5. o.uv = "required" => native.uv = "required"
  BY <1>4 DEF Known, Levels
<1>6. o.attachment \in Attachments => native.attachment = o.attachment
  BY <1>4 DEF Known
<1>7. (RequireResidentKey(o) => native.requireRk) /\ native.exclude = o.exclude
  BY <1>4 DEF RequireResidentKey
<1>8. o.event => native.cancellable
  <2>1. v >= 2
    BY <1>2
  <2> QED BY <1>4, <2>1, Zenon
<1>9. ASSUME api >= 3
      PROVE  /\ native.blob = "required" <=> (o.extensions /\ o.blob # None /\ o.blob.support = "required")
             /\ native.preferRk <=> ResidentKey(o) = "preferred"
             /\ o.attestation = "enterprise" /\ o.rpids = None => native.enterprise = "vendor"
  <2>1. v >= 4
    BY <1>2, <1>9
  <2>2. /\ native.blob = WinBlobSupport(o)
        /\ native.preferRk = (ResidentKey(o) = "preferred")
        /\ native.enterprise = WinEnterprise(o)
    BY <1>4, <2>1, Zenon DEF Since
  <2>3. native.blob = "required" <=> (o.extensions /\ o.blob # None /\ o.blob.support = "required")
    <3>1. None # "required"
      BY WindowsAssumption DEF BlobSupports
    <3>2. CASE ~o.extensions \/ o.blob = None
      BY <2>2, <3>2 DEF WinBlobSupport
    <3>3. CASE o.extensions /\ o.blob # None /\ o.blob.support = None
      BY <2>2, <3>1, <3>3 DEF WinBlobSupport
    <3>4. CASE o.extensions /\ o.blob # None /\ o.blob.support # None
      <4>1. WinBlobSupport(o) = o.blob.support
        BY <1>3, <3>4 DEF WinBlobSupport, FromString
      <4> QED BY <2>2, <3>4, <4>1
    <3> QED BY <3>2, <3>3, <3>4
  <2>4. o.attestation = "enterprise" /\ o.rpids = None => native.enterprise = "vendor"
    BY <2>2 DEF WinEnterprise
  <2> QED BY <2>2, <2>3, <2>4, Zenon
<1>10. ASSUME api >= 6, o.extensions, o.prf
       PROVE  native.prf
  <2>1. v >= 6
    BY <1>2, <1>10
  <2> QED BY <1>4, <1>10, <2>1, Zenon DEF Since
<1>11. ASSUME NEW e \in out, e[1] \in {"prf", "hmacCreateSecret"}
       PROVE  o.prf \/ (o.hmacCreate /\ o.allowHmac)
  <2>1. made.hmac # None
    <3>1. "prf" # "credProps" /\ "prf" # "largeBlob"
      OBVIOUS
    <3> HIDE DEF made
    <3> QED BY <1>11, <3>1 DEF MakeOutputs
  <2>2. <<"hmac-secret">> \in WinExtensions(o)
    BY <1>4, <2>1 DEF Makes
  <2>3. <<"hmac-secret">> \notin WinCredProtect(o)
    BY DEF WinCredProtect
  <2>4. <<"hmac-secret">> # <<"credBlob", o.credBlob>> /\ <<"hmac-secret">> # <<"minPinLength">>
    OBVIOUS
  <2> QED BY <2>2, <2>3, <2>4 DEF WinExtensions
<1> QED BY <1>5, <1>6, <1>7, <1>8, <1>9, <1>10, <1>11

LEMMA NativeGetsAreAsAsked ==
  ASSUME NEW o, NEW api \in Nat \ {0}, NEW cred,
         o.prf = None \/ HasInputs(o.prf)
  PROVE  NativeGetsAsAsked(o, api, cred)
<1> DEFINE native == GetNative(o, api)
           v == GetVersion("get", api)
           version == GetVersion("assertion", api)
           got == Gets(native, cred, TRUE)
           out == AssertionOutputs(o, api, got)
           meant == IF cred \in DOMAIN o.prf.byCred THEN o.prf.byCred[cred] ELSE o.prf.eval
           salted == o.extensions /\ HmacSalts(o) # None /\ version >= 3
           salts == IF salted THEN {<<IF o.prf # None THEN "prf" ELSE "hmacGetSecret", got.secrets>>} ELSE {}
           appids == IF o.extensions /\ o.appid /\ version >= 2 THEN {<<"appid", got.appid>>} ELSE {}
           blobs == IF got.blob = None THEN {} ELSE {<<"largeBlob", got.blob>>}
<1>1. v \in Nat /\ v >= 4 /\ version \in Nat /\ (api >= 4 => version >= 3)
  BY GetAssertionVersion, AssertionVersion
<1>2. /\ native.uv = Known(o.uv, Levels, "discouraged")
      /\ native.allow = o.allow
      /\ native.cancellable = (v >= 3 /\ o.event)
      /\ native.raw = (o.extensions /\ o.prf = None /\ HmacSalts(o) # None)
      /\ native.blob = Since(v, 5, IF o.extensions THEN BlobOperation(o) ELSE <<"none", None>>, <<"none", None>>)
      /\ native.salts = Since(v, 6, IF o.extensions THEN HmacSalts(o) ELSE None, None)
  BY DEF GetNative
<1> HIDE DEF native, v, version, meant
<1>3. o.uv = "required" => native.uv = "required"
  BY <1>2 DEF Known, Levels
<1>4. o.event => native.cancellable
  <2>1. v >= 3
    BY <1>1
  <2> QED BY <1>2, <2>1, Zenon
<1>5. /\ got.secrets = IF native.salts = None THEN None
                       ELSE LET s == IF cred \in DOMAIN native.salts.byCred
                                     THEN native.salts.byCred[cred] ELSE native.salts.eval
                            IN IF s = None THEN None
                               ELSE <<Secret(cred, Salted(native, s[1])), Secret(cred, Salted(native, s[2]))>>
      /\ got.blob = IF native.blob[1] = "none" THEN None ELSE native.blob
  BY DEF Gets
<1> HIDE DEF got
<1>6. ASSUME out # Invalid
      PROVE  /\ out = salts \cup appids \cup blobs
             /\ salted => got.secrets # None
  BY <1>6 DEF AssertionOutputs, version
<1> HIDE DEF out
<1>7. ASSUME out # Invalid, NEW e \in out, e[1] = "prf"
      PROVE  e[2] = <<Secret(cred, PrfSalt(meant[1])),
                      IF meant[2] = None THEN None ELSE Secret(cred, PrfSalt(meant[2]))>>
  <2>1. e \in salts
    BY <1>6, <1>7
  <2>2. salted /\ o.prf # None /\ e[2] = got.secrets /\ got.secrets # None
    BY <1>6, <1>7, <2>1
  <2>3. native.salts = o.prf
    BY <1>2, <1>5, <2>2 DEF Since, HmacSalts
  <2>4. ~native.raw
    BY <1>2, <2>2, Zenon
  <2>5. got.secrets = <<Secret(cred, Salted(native, meant[1])), Secret(cred, Salted(native, meant[2]))>>
        /\ meant # None
    BY <1>5, <2>2, <2>3 DEF meant
  <2>6. meant[1] # None
    <3>1. HasInputs(o.prf)
      BY <2>2
    <3>2. meant[1] \in Secrets
      BY <2>5, <3>1 DEF meant, HasInputs
    <3> QED BY <3>2, ExtensionsAssumption
  <2>7. Salted(native, meant[1]) = PrfSalt(meant[1])
    BY <2>4, <2>6 DEF Salted
  <2>8. Secret(cred, Salted(native, meant[2])) = IF meant[2] = None THEN None ELSE Secret(cred, PrfSalt(meant[2]))
    BY <2>4 DEF Salted, Secret
  <2> QED BY <2>2, <2>5, <2>7, <2>8
<1>8. ASSUME out # Invalid, NEW e \in out, e[1] = "largeBlob"
      PROVE  /\ o.blob.read => e[2][1] = "get"
             /\ ~o.blob.read /\ o.blob.write # None => e[2] = <<"set", o.blob.write>>
  <2>1. e \in blobs
    BY <1>6, <1>8
  <2>2. e[2] = native.blob /\ native.blob[1] # "none"
    BY <1>5, <2>1
  <2>3. native.blob = BlobOperation(o)
    BY <1>2, <2>2 DEF Since
  <2>4. o.blob # None
    BY <2>2, <2>3 DEF BlobOperation
  <2> QED BY <2>2, <2>3, <2>4 DEF BlobOperation
<1>9. ASSUME out # Invalid, api >= 4, o.extensions, o.prf # None
      PROVE  \E e \in out : e[1] = "prf"
  <2>1. salted
    <3>1. HmacSalts(o) # None
      BY <1>9 DEF HmacSalts
    <3>2. version >= 3
      BY <1>1, <1>9
    <3> QED BY <1>9, <3>1, <3>2
  <2>2. <<"prf", got.secrets>> \in out
    BY <1>6, <1>9, <2>1
  <2> QED BY <2>2
<1> QED
  <2>1. /\ o.uv = "required" => native.uv = "required"
        /\ native.allow = o.allow
        /\ o.event => native.cancellable
    BY <1>2, <1>3, <1>4, Zenon
  <2>2. out # Invalid =>
          /\ \A e \in out : e[1] = "prf" =>
               e[2] = <<Secret(cred, PrfSalt(meant[1])),
                        IF meant[2] = None THEN None ELSE Secret(cred, PrfSalt(meant[2]))>>
          /\ \A e \in out : e[1] = "largeBlob" =>
               /\ o.blob.read => e[2][1] = "get"
               /\ ~o.blob.read /\ o.blob.write # None => e[2] = <<"set", o.blob.write>>
          /\ api >= 4 /\ o.extensions /\ o.prf # None => \E e \in out : e[1] = "prf"
    BY <1>7, <1>8, <1>9, Zenon
  <2> QED BY <2>1, <2>2, Zenon DEF NativeGetsAsAsked, native, out, got, meant

-------------------------------------------------------------------------------
(* Attestations                                                            *)

\* No error is reported exactly when no check fails.
LEMMA NoFirstError ==
  ASSUME NEW errors, DOMAIN errors \in SUBSET Nat
  PROVE  FirstError(errors) = "none" <=> \A i \in DOMAIN errors : errors[i] = "none"
<1> DEFINE bad == {i \in DOMAIN errors : errors[i] # "none"}
<1>1. FirstError(errors) = IF bad = {} THEN "none" ELSE errors[Min(bad)]
  BY DEF FirstError
<1>2. bad # {} => Min(bad) \in bad
  <2>1. bad \in SUBSET Nat
    OBVIOUS
  <2> HIDE DEF bad
  <2> QED BY <2>1, MinIsLeast
<1>3. CASE bad = {}
  BY <1>1, <1>3
<1>4. CASE bad # {}
  BY <1>1, <1>2, <1>4
<1> QED BY <1>3, <1>4

LEMMA VerdictPasses ==
  ASSUME NEW errors, DOMAIN errors \in SUBSET Nat, NEW type, NEW path,
         Verdict(errors, type, path).error = "none"
  PROVE  /\ Verdict(errors, type, path).path = path
         /\ \A i \in DOMAIN errors : errors[i] = "none"
<1>1. FirstError(errors) = "none"
  BY DEF Verdict, Refused
<1> QED BY <1>1, NoFirstError DEF Verdict

LEMMA CheckPasses ==
  ASSUME NEW passes, NEW error, error # "none", Check(passes, error) = "none"
  PROVE  passes
BY DEF Check

LEMMA SignaturePasses ==
  ASSUME NEW cose, NEW message, NEW sig, SignatureError(cose, message, sig) = "none"
  PROVE  sig = [key |-> cose.point, alg |-> cose.alg, over |-> message]
BY DEF SignatureError, Check

LEMMA LeafPasses ==
  ASSUME NEW alg, NEW leaf, NEW message, NEW sig, LeafSigns(alg, leaf, message, sig) = "none"
  PROVE  sig = [key |-> leaf.key, alg |-> alg, over |-> message]
<1>1. SignatureError(CoseOf(alg, leaf.key), message, sig) = "none"
  BY DEF LeafSigns
<1> QED BY <1>1, SignaturePasses DEF CoseOf

LEMMA TwoErrors ==
  ASSUME NEW a, NEW b
  PROVE  /\ DOMAIN <<a, b>> \in SUBSET Nat
         /\ (\A i \in DOMAIN <<a, b>> : <<a, b>>[i] = "none") => a = "none" /\ b = "none"
OBVIOUS

LEMMA ThreeErrors ==
  ASSUME NEW a, NEW b, NEW c
  PROVE  /\ DOMAIN <<a, b, c>> \in SUBSET Nat
         /\ (\A i \in DOMAIN <<a, b, c>> : <<a, b, c>>[i] = "none") => a = "none" /\ b = "none" /\ c = "none"
OBVIOUS

LEMMA FourErrors ==
  ASSUME NEW a, NEW b, NEW c, NEW d
  PROVE  /\ DOMAIN <<a, b, c, d>> \in SUBSET Nat
         /\ (\A i \in DOMAIN <<a, b, c, d>> : <<a, b, c, d>>[i] = "none") =>
              a = "none" /\ b = "none" /\ c = "none" /\ d = "none"
OBVIOUS

\* What a format accepts is vouched for by the leaf of the path it gives, which is
\* that of the statement.
LEMMA PackedPasses ==
  ASSUME NEW s, NEW auth, NEW cdh, s.fmt = "packed", Packed(s, auth, cdh).error = "none"
  PROVE  Packed(s, auth, cdh).path = s.x5c /\ (s.x5c # <<>> => Vouched(s, auth, cdh))
<1>1. CASE s.x5c = <<>>
  <2> DEFINE a == Check(auth.key.alg = s.alg, "InvalidData")
             b == SignatureError(auth.key, ToBeSigned(auth, cdh), s.sig)
  <2>1. Packed(s, auth, cdh) = Verdict(<<a, b>>, "SELF", <<>>)
    BY <1>1 DEF Packed, Refused
  <2> HIDE DEF a, b
  <2> QED BY <1>1, <2>1, TwoErrors, VerdictPasses
<1>2. CASE s.x5c # <<>>
  <2> DEFINE a == PackedCert(s.x5c[1], auth.aaguid)
             b == LeafSigns(s.alg, s.x5c[1], ToBeSigned(auth, cdh), s.sig)
  <2>1. Packed(s, auth, cdh) = Verdict(<<a, b>>, "BASIC", s.x5c)
    BY <1>2 DEF Packed, Refused
  <2> HIDE DEF a, b
  <2>2. Packed(s, auth, cdh).path = s.x5c /\ b = "none"
    BY <2>1, TwoErrors, VerdictPasses
  <2>3. s.sig = [key |-> s.x5c[1].key, alg |-> s.alg, over |-> ToBeSigned(auth, cdh)]
    BY <2>2, LeafPasses DEF b
  <2> QED BY <2>2, <2>3 DEF Vouched, ToBeSigned
<1> QED BY <1>1, <1>2

LEMMA U2fPasses ==
  ASSUME NEW s, NEW auth, NEW cdh, s.fmt = "fido-u2f", FidoU2f(s, auth, cdh).error = "none"
  PROVE  FidoU2f(s, auth, cdh).path = s.x5c /\ Vouched(s, auth, cdh)
<1> DEFINE a == LeafSigns("ES256", s.x5c[1], U2fMessage(auth, cdh), s.sig)
<1>1. FidoU2f(s, auth, cdh) = Verdict(<<a>>, "BASIC", s.x5c)
  BY DEF FidoU2f, Refused
<1> HIDE DEF a
<1>2. DOMAIN <<a>> \in SUBSET Nat /\ 1 \in DOMAIN <<a>> /\ <<a>>[1] = a
  OBVIOUS
<1>3. FidoU2f(s, auth, cdh).path = s.x5c /\ a = "none"
  BY <1>1, <1>2, VerdictPasses
<1>4. s.sig = [key |-> s.x5c[1].key, alg |-> "ES256", over |-> U2fMessage(auth, cdh)]
  BY <1>3, LeafPasses DEF a
<1> QED BY <1>3, <1>4 DEF Vouched, U2fMessage

LEMMA SafetyNetPasses ==
  ASSUME NEW s, NEW auth, NEW cdh, s.fmt = "android-safetynet", SafetyNet(s, auth, cdh).error = "none"
  PROVE  SafetyNet(s, auth, cdh).path = s.x5c /\ Vouched(s, auth, cdh)
<1> DEFINE a == Check(s.profile, "InvalidData")
           b == Check(s.nonce = ToBeSigned(auth, cdh), "InvalidData")
           c == Check(s.x5c[1].cn = "attest.android.com", "InvalidData")
           signs == LeafSigns(s.alg, s.x5c[1], Token(s), s.sig)
           d == Escaping(signs)
<1>1. SafetyNet(s, auth, cdh) = Verdict(<<a, b, c, d>>, "BASIC", s.x5c)
  BY DEF SafetyNet, Refused
<1> HIDE DEF a, b, c, d, signs
<1>2. SafetyNet(s, auth, cdh).path = s.x5c /\ b = "none" /\ d = "none"
  BY <1>1, FourErrors, VerdictPasses
<1>3. s.nonce = <<auth, cdh>>
  BY <1>2, CheckPasses DEF b, ToBeSigned
<1>4. signs = "none"
  BY <1>2 DEF d, Escaping
<1>5. s.sig = [key |-> s.x5c[1].key, alg |-> s.alg, over |-> Token(s)]
  BY <1>4, LeafPasses DEF signs
<1> QED BY <1>2, <1>3, <1>5 DEF Vouched

LEMMA ApplePasses ==
  ASSUME NEW s, NEW auth, NEW cdh, s.fmt = "apple", Apple(s, auth, cdh).error = "none"
  PROVE  Apple(s, auth, cdh).path = s.x5c /\ Vouched(s, auth, cdh)
<1> DEFINE a == Check(s.x5c[1].nonce # <<>>, "ExtensionNotFound")
           b == Check(s.x5c[1].nonce = ToBeSigned(auth, cdh), "InvalidData")
<1>1. Apple(s, auth, cdh) = Verdict(<<a, b>>, "ANON_CA", s.x5c)
  BY DEF Apple, Refused
<1> HIDE DEF a, b
<1>2. Apple(s, auth, cdh).path = s.x5c /\ b = "none"
  BY <1>1, TwoErrors, VerdictPasses
<1>3. s.x5c[1].nonce = <<auth, cdh>>
  BY <1>2, CheckPasses DEF b, ToBeSigned
<1> QED BY <1>2, <1>3 DEF Vouched

LEMMA TpmPasses ==
  ASSUME NEW s, NEW auth, NEW cdh, s.fmt = "tpm", Tpm(s, auth, cdh).error = "none"
  PROVE  Tpm(s, auth, cdh).path = s.x5c /\ Vouched(s, auth, cdh)
<1> DEFINE a == PublicMatches(s.pubArea, auth.key)
           b == Certifies(s.certInfo, s.pubArea, s.alg, auth, cdh)
           c == LeafSigns(s.alg, s.x5c[1], s.certInfo, s.sig)
           before == FirstError(<<TpmCert(s.x5c[1]), KeyError(s.alg, s.x5c[1].key),
                                  Check(ParsesPublic(s.pubArea), "InvalidData")>>)
<1>1. Tpm(s, auth, cdh) = Verdict(<<a, b, c>>, "ATT_CA", s.x5c)
  <2>1. Tpm(s, auth, cdh) = IF s.ecdaa THEN Refused("NotImplementedError")
          ELSE IF s.x5c = <<>> THEN Refused("InvalidData")
          ELSE IF before # "none" THEN Refused(before)
          ELSE IF ~Supports(auth.key.alg) THEN Refused("NotImplementedError")
          ELSE Verdict(<<a, b, c>>, "ATT_CA", s.x5c)
    BY Zenon DEF Tpm
  <2> HIDE DEF a, b, c, before
  <2> QED BY <2>1 DEF Refused
<1> HIDE DEF a, b, c
<1>2. Tpm(s, auth, cdh).path = s.x5c /\ a = "none" /\ b = "none" /\ c = "none"
  BY <1>1, ThreeErrors, VerdictPasses
<1>3. s.sig = [key |-> s.x5c[1].key, alg |-> s.alg, over |-> s.certInfo]
  BY <1>2, LeafPasses DEF c
<1>4. s.pubArea.unique = auth.key.point.id[1]
  <2> DEFINE p == s.pubArea
             cose == auth.key
             x == Check(p.type = "RSA" \/ p.curve \in TpmCurves, "InvalidData")
             y == KeyError(cose.alg, PublicKey(p))
             z == Check(cose.curve = KeyTypes[cose.alg].curve /\ cose.point = PublicKey(p), "InvalidSignature")
  <2>1. a = FirstError(<<x, y, z>>)
    BY DEF a, PublicMatches
  <2> HIDE DEF x, y, z
  <2>2. z = "none"
    BY <1>2, <2>1, ThreeErrors, NoFirstError
  <2>3. cose.point = PublicKey(p)
    BY <2>2 DEF z, Check
  <2>4. PublicKey(p).id[1] = p.unique
    BY DEF PublicKey
  <2> QED BY <2>3, <2>4
<1>5. s.certInfo.extra[2] = <<auth, cdh>> /\ s.certInfo.name[2] = s.pubArea
  <2> DEFINE i == s.certInfo
             hash == KeyTypes[s.alg].hash
             x == Check(i.magic /\ i.certify /\ i.whole, "InvalidData")
             y == Check(hash # "none", "AttributeError")
             z == Check(i.extra = <<hash, ToBeSigned(auth, cdh)>>, "InvalidSignature")
             u == Check(i.name = TpmName(s.pubArea), "InvalidData")
  <2>1. b = FirstError(<<x, y, z, u>>)
    BY DEF b, Certifies
  <2> HIDE DEF x, y, z, u, hash
  <2>2. z = "none" /\ u = "none"
    BY <1>2, <2>1, FourErrors, NoFirstError
  <2>3. i.extra = <<hash, ToBeSigned(auth, cdh)>> /\ i.name = TpmName(s.pubArea)
    BY <2>2, CheckPasses DEF z, u
  <2> QED BY <2>3 DEF ToBeSigned, TpmName
<1> QED BY <1>2, <1>3, <1>4, <1>5 DEF Vouched

LEMMA StatementPasses ==
  ASSUME NEW s, NEW auth, NEW cdh, VerifyStatement(s, auth, cdh, DefaultTypes).error = "none"
  PROVE  /\ VerifyStatement(s, auth, cdh, DefaultTypes).path = s.x5c
         /\ s.x5c # <<>> => Vouched(s, auth, cdh)
<1>1. s.fmt \in {"packed", "fido-u2f", "android-safetynet", "apple", "tpm"}
  BY DEF VerifyStatement, Refused, DefaultTypes
<1>2. CASE s.fmt = "packed"
  <2>1. VerifyStatement(s, auth, cdh, DefaultTypes) = Packed(s, auth, cdh)
    BY <1>2 DEF VerifyStatement, DefaultTypes
  <2> QED BY <1>2, <2>1, PackedPasses
<1>3. CASE s.fmt = "fido-u2f"
  <2>1. VerifyStatement(s, auth, cdh, DefaultTypes) = FidoU2f(s, auth, cdh)
    BY <1>3 DEF VerifyStatement, DefaultTypes
  <2> QED BY <1>3, <2>1, U2fPasses
<1>4. CASE s.fmt = "android-safetynet"
  <2>1. VerifyStatement(s, auth, cdh, DefaultTypes) = SafetyNet(s, auth, cdh)
    BY <1>4 DEF VerifyStatement, DefaultTypes
  <2> QED BY <1>4, <2>1, SafetyNetPasses
<1>5. CASE s.fmt = "apple"
  <2>1. VerifyStatement(s, auth, cdh, DefaultTypes) = Apple(s, auth, cdh)
    BY <1>5 DEF VerifyStatement, DefaultTypes
  <2> QED BY <1>5, <2>1, ApplePasses
<1>6. CASE s.fmt = "tpm"
  <2>1. VerifyStatement(s, auth, cdh, DefaultTypes) = Tpm(s, auth, cdh)
    BY <1>6 DEF VerifyStatement, DefaultTypes
  <2> QED BY <1>6, <2>1, TpmPasses
<1> QED BY <1>1, <1>2, <1>3, <1>4, <1>5, <1>6

-------------------------------------------------------------------------------
(* Chains of certificates and metadata                                     *)

LinkError(chain, i) ==
  IF chain[i + 1].key.kind \notin {"rsa", "ec"} THEN "InvalidData"
  ELSE Check(chain[i].signer = chain[i + 1].key, "InvalidSignature")

LEMMA ChainPasses ==
  ASSUME NEW chain, Len(chain) \in Nat
  PROVE  ChainError(chain) = "none" <=> \A i \in 1..(Len(chain) - 1) : LinkError(chain, i) = "none"
<1> DEFINE errors == [i \in 1..(Len(chain) - 1) |-> LinkError(chain, i)]
<1>1. ChainError(chain) = FirstError(errors)
  BY DEF ChainError, LinkError
<1>2. DOMAIN errors = 1..(Len(chain) - 1) /\ DOMAIN errors \in SUBSET Nat
  OBVIOUS
<1>3. \A i \in 1..(Len(chain) - 1) : errors[i] = LinkError(chain, i)
  OBVIOUS
<1> HIDE DEF errors
<1> QED BY <1>1, <1>2, <1>3, NoFirstError

\* A path and the root after it.
LEMMA PathAndRoot ==
  ASSUME NEW path, NEW root, Sequence(path)
  PROVE  /\ Len(path) \in Nat /\ DOMAIN path = 1..Len(path)
         /\ Len(path \o <<root>>) = Len(path) + 1
         /\ \A i \in 1..Len(path) : (path \o <<root>>)[i] = path[i]
         /\ (path \o <<root>>)[Len(path) + 1] = root
<1> DEFINE S == {path[i] : i \in DOMAIN path} \cup {root}
<1>1. path \in Seq(S) /\ <<root>> \in Seq(S) /\ Len(<<root>>) = 1 /\ <<root>>[1] = root
  <2>1. path \in Seq({path[i] : i \in DOMAIN path})
    BY DEF Sequence
  <2> QED BY <2>1, SeqMonotonic
<1> HIDE DEF S
<1> DEFINE t == <<root>>
<1>2. t \in Seq(S) /\ Len(t) = 1 /\ t[1] = root
  BY <1>1
<1> HIDE DEF t
<1>3. /\ Len(path \o t) = Len(path) + Len(t)
      /\ \A i \in 1..(Len(path) + Len(t)) :
           (path \o t)[i] = IF i <= Len(path) THEN path[i] ELSE t[i - Len(path)]
  BY <1>1, <1>2, ConcatProperties
<1>4. Len(path) \in Nat /\ DOMAIN path = 1..Len(path)
  BY <1>1
<1>5. ASSUME NEW i \in 1..Len(path) PROVE (path \o t)[i] = path[i]
  <2>1. i \in 1..(Len(path) + Len(t)) /\ i <= Len(path)
    BY <1>2, <1>4
  <2> QED BY <1>3, <2>1
<1>6. (path \o t)[Len(path) + 1] = root
  <2>1. Len(path) + 1 \in 1..(Len(path) + Len(t)) /\ ~(Len(path) + 1 <= Len(path)) /\ Len(path) + 1 - Len(path) = 1
    BY <1>2, <1>4
  <2> QED BY <1>2, <1>3, <2>1
<1>7. Len(path \o t) = Len(path) + 1
  BY <1>2, <1>3
<1> QED BY <1>4, <1>5, <1>6, <1>7 DEF t

\* What verify_x509_chain accepts is a trusted chain, and a trusted chain whose
\* issuers have keys that can sign is accepted.
LEMMA ChainIsTrusted ==
  ASSUME NEW path, NEW root, Sequence(path)
  PROVE  /\ ChainError(path \o <<root>>) = "none" => TrustedChain(path, root)
         /\ TrustedChain(path, root) /\ CanSign(root) /\ (\A j \in DOMAIN path : j # 1 => CanSign(path[j]))
              => ChainError(path \o <<root>>) = "none"
<1> DEFINE chain == path \o <<root>>
           n == Len(path)
           next(i) == IF i = n THEN root ELSE path[i + 1]
<1>1. n \in Nat /\ DOMAIN path = 1..n /\ Len(chain) = n + 1
      /\ (\A i \in 1..n : chain[i] = path[i]) /\ chain[n + 1] = root
  BY PathAndRoot
<1> HIDE DEF n, chain
<1>2. \A i \in 1..n : chain[i + 1] = next(i)
  <2>1. ASSUME NEW i \in 1..n PROVE chain[i + 1] = next(i)
    <3>1. CASE i = n
      BY <1>1, <3>1
    <3>2. CASE i # n
      <4>1. i + 1 \in 1..n
        BY <1>1, <3>2
      <4> QED BY <1>1, <3>2, <4>1
    <3> QED BY <3>1, <3>2
  <2> QED BY <2>1
<1>3. ChainError(chain) = "none" <=> \A i \in 1..n : LinkError(chain, i) = "none"
  <2>1. Len(chain) \in Nat /\ Len(chain) - 1 = n
    BY <1>1
  <2> QED BY <2>1, ChainPasses
<1>4. TrustedChain(path, root) <=> \A i \in 1..n : path[i].signer = next(i).key
  <2>1. \A i : next(i).key = IF i = n THEN root.key ELSE path[i + 1].key
    OBVIOUS
  <2>2. TrustedChain(path, root) <=>
          \A i \in 1..n : path[i].signer = (IF i = n THEN root.key ELSE path[i + 1].key)
    BY <1>1, Zenon DEF TrustedChain, n
  <2> HIDE DEF next
  <2> QED BY <2>1, <2>2, Zenon
<1> HIDE DEF next
<1>5. \A i \in 1..n : LinkError(chain, i) = "none" <=> CanSign(next(i)) /\ path[i].signer = next(i).key
  BY <1>1, <1>2 DEF LinkError, CanSign, Check
<1>6. CanSign(root) /\ (\A j \in 1..n : j # 1 => CanSign(path[j])) => \A i \in 1..n : CanSign(next(i))
  <2>1. SUFFICES ASSUME CanSign(root), \A j \in 1..n : j # 1 => CanSign(path[j]), NEW i \in 1..n
                 PROVE  CanSign(next(i))
    BY Zenon
  <2>2. CASE i = n
    BY <2>1, <2>2 DEF next
  <2>3. CASE i # n
    <3>1. i + 1 \in 1..n /\ i + 1 # 1
      BY <1>1, <2>3
    <3> QED BY <2>1, <2>3, <3>1 DEF next
  <2> QED BY <2>2, <2>3
<1> QED BY <1>1, <1>3, <1>4, <1>5, <1>6, Zenon DEF chain

LEMMA LastIsOne ==
  ASSUME NEW N \in Nat, NEW found \in SUBSET (1..N)
  PROVE  /\ LastOf(found) # 0 => LastOf(found) \in found
         /\ LastOf(found) = 0 <=> found = {}
<1>1. found # {} => Max(found) \in found
  BY MaxIsGreatest
<1>2. 0 \notin found
  OBVIOUS
<1> QED BY <1>1, <1>2 DEF LastOf

\* The entry that is found passes the filter and is of the model.
LEMMA FoundIsOfModel ==
  ASSUME NEW blob, NEW filters, NEW auth, NEW path, Sequence(blob), Sequence(path),
         FoundEntry(blob, filters, auth.aaguid, path) # 0
  PROVE  /\ FoundEntry(blob, filters, auth.aaguid, path) \in Entries(blob, filters)
         /\ NamesModel(blob[FoundEntry(blob, filters, auth.aaguid, path)], auth, path)
<1> DEFINE E == Entries(blob, filters)
           N == Len(blob)
<1>1. N \in Nat /\ DOMAIN blob = 1..N /\ E \in SUBSET (1..N)
  BY SequenceShape DEF Entries
<1>2. Len(path) \in Nat /\ DOMAIN path = 1..Len(path)
  BY SequenceShape
<1> HIDE DEF E, N
<1>3. CASE auth.aaguid # ZeroAaguid
  <2> DEFINE found == {i \in E : blob[i].aaguid = auth.aaguid}
  <2>1. FoundEntry(blob, filters, auth.aaguid, path) = LastOf(found)
    BY <1>3 DEF FoundEntry, EntryByAaguid, E
  <2>2. found \in SUBSET (1..N)
    BY <1>1
  <2>3. LastOf(found) \in found
    <3> HIDE DEF found
    <3> QED BY <1>1, <2>1, <2>2, LastIsOne
  <2> QED BY <1>3, <2>1, <2>3 DEF NamesModel, E
<1>4. CASE auth.aaguid = ZeroAaguid
  <2> DEFINE known == {i \in DOMAIN path : EntryByKey(blob, filters, path[i]) # 0}
             k == Min(known)
             found == {i \in E : path[k].key \in blob[i].skis}
  <2>1. FoundEntry(blob, filters, auth.aaguid, path) = IF known = {} THEN 0 ELSE EntryByKey(blob, filters, path[k])
    BY <1>4 DEF FoundEntry, EntryByChain
  <2>2. known # {} /\ known \in SUBSET Nat
    BY <1>2, <2>1
  <2>3. k \in known
    <3> HIDE DEF known
    <3> QED BY <2>2, MinIsLeast
  <2>4. k \in DOMAIN path
    BY <2>3
  <2>5. EntryByKey(blob, filters, path[k]) = LastOf(found)
    BY DEF EntryByKey, E
  <2>6. FoundEntry(blob, filters, auth.aaguid, path) = LastOf(found)
    BY <2>1, <2>2, <2>5
  <2> HIDE DEF k
  <2>7. found \in SUBSET (1..N)
    BY <1>1
  <2>8. LastOf(found) \in found
    <3> HIDE DEF found, known
    <3> QED BY <1>1, <2>6, <2>7, LastIsOne
  <2>9. path[k].key \in blob[LastOf(found)].skis /\ LastOf(found) \in E
    BY <2>8
  <2> HIDE DEF found
  <2> QED BY <1>4, <2>4, <2>6, <2>9 DEF NamesModel, E
<1> QED BY <1>3, <1>4

\* The root looked up is one of the entry's.
LEMMA RootIsOfEntry ==
  ASSUME NEW e, NEW issuer, Sequence(e.roots), RootFor(e, issuer) # <<>>
  PROVE  \E i \in DOMAIN e.roots : RootFor(e, issuer) = <<e.roots[i]>>
<1> DEFINE named == {i \in DOMAIN e.roots : e.roots[i].subject = issuer}
<1>1. named # {} /\ RootFor(e, issuer) = <<e.roots[Min(named)]>>
  BY DEF RootFor
<1>2. named \in SUBSET Nat
  <2>1. Len(e.roots) \in Nat /\ DOMAIN e.roots = 1..Len(e.roots)
    BY SequenceShape
  <2> QED BY <2>1
<1>3. Min(named) \in named
  <2> HIDE DEF named
  <2> QED BY <1>1, <1>2, MinIsLeast
<1> QED BY <1>1, <1>3

LEMMA EntriesAreTrusted ==
  ASSUME NEW s, NEW auth, NEW cdh, NEW blob, NEW filters,
         Sequence(s.x5c), Sequence(blob), \A n \in DOMAIN blob : Sequence(blob[n].roots)
  PROVE  EntryIsTrusted(s, auth, cdh, blob, filters)
<1> DEFINE result == VerifyStatement(s, auth, cdh, DefaultTypes)
           ca == CaLookup(blob, filters, result, auth)
           v == VerifyAttestation(s, auth, cdh, blob, filters)
           f == FindEntry(s, auth, cdh, blob, filters)
           e == blob[f.entry]
           path == s.x5c
           i == FoundEntry(blob, filters, auth.aaguid, path)
<1>1. SUFFICES ASSUME f.entry # 0
               PROVE  /\ NamesModel(e, auth, path)
                      /\ Vouched(s, auth, cdh)
                      /\ \E n \in DOMAIN e.roots : TrustedChain(path, e.roots[n])
                      /\ "entry" \in filters => \A r \in e.reports : r.status # "REVOKED"
                      /\ "attestation" \in filters =>
                           \A n \in DOMAIN path : [status |-> "ATTESTATION_KEY_COMPROMISE", certificate |-> path[n]] \notin e.reports
  BY Zenon DEF EntryIsTrusted
<1>2. f = v /\ v.entry # 0
  BY <1>1 DEF FindEntry, Untrusting
<1>3. /\ result.error = "none"
      /\ ~NoPath(blob, filters, result, auth)
      /\ ca.root # <<>>
      /\ ChainError(result.path \o ca.root) = "none"
      /\ v.entry = ca.entry
  <2>1. v = IF result.error # "none" THEN Refusal(result.error)
            ELSE IF NoPath(blob, filters, result, auth) THEN Refusal("IndexError")
            ELSE IF ca.root = <<>> THEN Refusal("UntrustedAttestation")
            ELSE IF ChainError(result.path \o ca.root) = "none" THEN [error |-> "none", entry |-> ca.entry]
            ELSE Refusal(IF ChainError(result.path \o ca.root) = "InvalidSignature"
                         THEN "UntrustedAttestation" ELSE ChainError(result.path \o ca.root))
    BY Zenon DEF VerifyAttestation, OfStatement, OfPath
  <2>2. \A error : Refusal(error).entry = 0
    BY DEF Refusal
  <2> HIDE DEF v, result, ca
  <2> QED BY <1>2, <2>1, <2>2
<1>4. result.path = path /\ (path # <<>> => Vouched(s, auth, cdh))
  BY <1>3, StatementPasses
<1> HIDE DEF result, v, f
<1>5. /\ i # 0
      /\ FilteredBy(filters, "attestation", NotCompromised(blob[i], path))
      /\ blob[i].statement
      /\ ca = [entry |-> i, root |-> RootFor(blob[i], path[Len(path)].issuer)]
  BY <1>3, <1>4 DEF CaLookup, NoEntry
<1>6. path # <<>>
  BY <1>3, <1>4, <1>5 DEF NoPath
<1>7. f.entry = i /\ ca.root = RootFor(blob[i], path[Len(path)].issuer)
  BY <1>2, <1>3, <1>5
<1>8. i \in Entries(blob, filters) /\ NamesModel(blob[i], auth, path)
  BY <1>5, FoundIsOfModel
<1> HIDE DEF ca, i
<1>9. i \in DOMAIN blob /\ FilteredBy(filters, "entry", NotRevoked(blob[i]))
  BY <1>8 DEF Entries
<1>10. \E n \in DOMAIN e.roots : TrustedChain(path, e.roots[n])
  <2>1. PICK n \in DOMAIN blob[i].roots : ca.root = <<blob[i].roots[n]>>
    BY <1>3, <1>7, <1>9, RootIsOfEntry
  <2>2. TrustedChain(path, blob[i].roots[n])
    BY <1>3, <1>4, <2>1, ChainIsTrusted
  <2> QED BY <1>7, <2>2
<1>11. "entry" \in filters => \A r \in e.reports : r.status # "REVOKED"
  BY <1>7, <1>9 DEF FilteredBy, NotRevoked
<1>12. "attestation" \in filters =>
         \A n \in DOMAIN path : [status |-> "ATTESTATION_KEY_COMPROMISE", certificate |-> path[n]] \notin e.reports
  BY <1>5, <1>7 DEF FilteredBy, NotCompromised
<1> QED BY <1>4, <1>6, <1>7, <1>8, <1>10, <1>11, <1>12

\* The one entry of the model is the one found.
LEMMA OnlyEntryIsFound ==
  ASSUME NEW blob, NEW filters, NEW auth, NEW path, Sequence(blob), Sequence(path),
         NEW i \in DOMAIN blob, NamesModel(blob[i], auth, path), NotRevoked(blob[i]),
         \A j \in DOMAIN blob : j # i => ~NamesModel(blob[j], auth, path)
  PROVE  FoundEntry(blob, filters, auth.aaguid, path) = i
<1> DEFINE E == Entries(blob, filters)
           N == Len(blob)
<1>1. N \in Nat /\ DOMAIN blob = 1..N /\ E \in SUBSET (1..N)
  BY SequenceShape DEF Entries
<1>2. i \in E /\ i \in 1..N /\ i # 0
  BY <1>1 DEF Entries, FilteredBy
<1>3. Len(path) \in Nat /\ DOMAIN path = 1..Len(path)
  BY SequenceShape
<1> HIDE DEF E, N
<1>4. ASSUME NEW found, found = {i}
      PROVE  LastOf(found) = i
  <2>1. found \in SUBSET (1..N) /\ found # {}
    BY <1>2, <1>4
  <2>2. LastOf(found) \in found
    BY <1>1, <2>1, LastIsOne
  <2> QED BY <1>4, <2>2
<1>5. CASE auth.aaguid # ZeroAaguid
  <2> DEFINE found == {j \in E : blob[j].aaguid = auth.aaguid}
  <2>1. FoundEntry(blob, filters, auth.aaguid, path) = LastOf(found)
    BY <1>5 DEF FoundEntry, EntryByAaguid, E
  <2>2. found = {i}
    BY <1>1, <1>2, <1>5 DEF NamesModel
  <2> QED BY <1>4, <2>1, <2>2
<1>6. CASE auth.aaguid = ZeroAaguid
  <2> DEFINE known == {k \in DOMAIN path : EntryByKey(blob, filters, path[k]) # 0}
             found(k) == {j \in E : path[k].key \in blob[j].skis}
  <2>1. FoundEntry(blob, filters, auth.aaguid, path)
          = IF known = {} THEN 0 ELSE EntryByKey(blob, filters, path[Min(known)])
    BY <1>6 DEF FoundEntry, EntryByChain
  <2>2. \A k \in DOMAIN path : EntryByKey(blob, filters, path[k]) = LastOf(found(k))
    BY DEF EntryByKey, E
  <2>3. \A k \in DOMAIN path : found(k) = IF path[k].key \in blob[i].skis THEN {i} ELSE {}
    BY <1>1, <1>2, <1>6 DEF NamesModel
  <2> HIDE DEF found
  <2>4. ASSUME NEW k \in DOMAIN path
        PROVE  EntryByKey(blob, filters, path[k]) = IF path[k].key \in blob[i].skis THEN i ELSE 0
    <3>1. CASE path[k].key \in blob[i].skis
      BY <1>4, <2>2, <2>3, <3>1
    <3>2. CASE path[k].key \notin blob[i].skis
      BY <2>2, <2>3, <3>2 DEF LastOf
    <3> QED BY <3>1, <3>2
  <2>5. known # {}
    <3>1. PICK k \in DOMAIN path : path[k].key \in blob[i].skis
      BY <1>6 DEF NamesModel
    <3>2. EntryByKey(blob, filters, path[k]) # 0
      BY <1>2, <2>4, <3>1
    <3> QED BY <3>2
  <2>6. Min(known) \in known
    <3>1. known \in SUBSET Nat
      BY <1>3
    <3> HIDE DEF known
    <3> QED BY <2>5, <3>1, MinIsLeast
  <2>7. Min(known) \in DOMAIN path /\ EntryByKey(blob, filters, path[Min(known)]) # 0
    BY <2>6
  <2>8. EntryByKey(blob, filters, path[Min(known)]) = i
    <3> HIDE DEF known
    <3> QED BY <2>4, <2>7
  <2> QED BY <2>1, <2>5, <2>8
<1> QED BY <1>5, <1>6

LEMMA TrustedAreFound ==
  ASSUME NEW s, NEW auth, NEW cdh, NEW blob, NEW filters,
         Sequence(s.x5c), Sequence(blob), \A n \in DOMAIN blob : Sequence(blob[n].roots)
  PROVE  TrustedIsFound(s, auth, cdh, blob, filters)
<1> DEFINE result == VerifyStatement(s, auth, cdh, DefaultTypes)
           path == s.x5c
<1>1. SUFFICES ASSUME NEW i \in DOMAIN blob,
                      result.error = "none", path # <<>>, result.path # <<>>, blob[i].statement,
                      \A j \in DOMAIN blob : j # i => ~NamesModel(blob[j], auth, path),
                      NamesModel(blob[i], auth, path), NotRevoked(blob[i]), NotCompromised(blob[i], path),
                      Len(blob[i].roots) = 1, blob[i].roots[1].subject = path[Len(path)].issuer,
                      TrustedChain(path, blob[i].roots[1]),
                      CanSign(blob[i].roots[1]), \A j \in DOMAIN path : j # 1 => CanSign(path[j])
               PROVE  FindEntry(s, auth, cdh, blob, filters).entry = i
  BY Zenon DEF TrustedIsFound
<1> DEFINE e == blob[i]
           root == e.roots[1]
           issuer == path[Len(path)].issuer
           ca == CaLookup(blob, filters, result, auth)
<1>2. result.path = path
  BY <1>1, StatementPasses
<1>3. FoundEntry(blob, filters, auth.aaguid, path) = i
  BY <1>1, OnlyEntryIsFound
<1>4. i # 0
  <2>1. DOMAIN blob = 1..Len(blob)
    BY SequenceShape
  <2> QED BY <2>1
<1> HIDE DEF result
<1>5. RootFor(e, issuer) = <<root>>
  <2> DEFINE named == {k \in DOMAIN e.roots : e.roots[k].subject = issuer}
  <2>1. DOMAIN e.roots = 1..1
    BY <1>1, SequenceShape
  <2>2. named = {1}
    BY <1>1, <2>1
  <2>3. Min(named) = 1
    <3>1. named \in SUBSET Nat /\ named # {}
      BY <2>2
    <3> HIDE DEF named
    <3> QED BY <2>2, <3>1, MinIsLeast
  <2>4. RootFor(e, issuer) = IF named = {} THEN <<>> ELSE <<e.roots[Min(named)]>>
    BY Zenon DEF RootFor
  <2> QED BY <2>2, <2>3, <2>4
<1>6. ~NoPath(blob, filters, result, auth)
  BY <1>1, <1>2 DEF NoPath
<1>7. ca = [entry |-> i, root |-> <<root>>]
  <2>1. FilteredBy(filters, "attestation", NotCompromised(e, path))
    BY <1>1 DEF FilteredBy
  <2> HIDE DEF root
  <2> QED BY <1>1, <1>2, <1>3, <1>4, <1>5, <2>1 DEF CaLookup
<1>8. ChainError(result.path \o ca.root) = "none"
  <2>1. ChainError(path \o <<root>>) = "none"
    BY <1>1, ChainIsTrusted
  <2> HIDE DEF root
  <2> QED BY <1>2, <1>7, <2>1
<1>9. ca.root # <<>> /\ ca.entry = i
  BY <1>7
<1> HIDE DEF ca
<1>10. VerifyAttestation(s, auth, cdh, blob, filters) = [error |-> "none", entry |-> i]
  <2>1. VerifyAttestation(s, auth, cdh, blob, filters)
          = IF result.error # "none" THEN Refusal(result.error)
            ELSE IF NoPath(blob, filters, result, auth) THEN Refusal("IndexError")
            ELSE IF ca.root = <<>> THEN Refusal("UntrustedAttestation")
            ELSE IF ChainError(result.path \o ca.root) = "none" THEN [error |-> "none", entry |-> ca.entry]
            ELSE Refusal(IF ChainError(result.path \o ca.root) = "InvalidSignature"
                         THEN "UntrustedAttestation" ELSE ChainError(result.path \o ca.root))
    BY Zenon DEF VerifyAttestation, OfStatement, OfPath, result, ca
  <2> QED BY <1>1, <1>6, <1>8, <1>9, <2>1, Zenon
<1> QED BY <1>10 DEF FindEntry, Untrusting

\* A blob that is verified was signed by the leaf of a chain to the trust root.
LEMMA BlobsAreSigned ==
  ASSUME NEW b, NEW root, Sequence(b.x5c), Sequence(root)
  PROVE  BlobIsSigned(b, root)
<1> DEFINE path == b.x5c
           chain == path \o root
           n == Len(path)
           leaf == LeafSigns(b.alg, chain[1], BlobMessage(b), b.sig)
<1>1. SUFFICES ASSUME root # <<>>, ParseBlob(b, root) = "none"
               PROVE  /\ b.sig = [key |-> chain[1].key, alg |-> b.alg, over |-> BlobMessage(b)]
                      /\ TrustedChain(path, root[1])
  BY Zenon DEF BlobIsSigned
<1>2. ChainError(chain) = "none" /\ leaf = "none"
  <2>1. FirstError(<<ChainError(chain), leaf>>) = "none"
    BY <1>1, Zenon DEF ParseBlob
  <2> HIDE DEF chain, leaf
  <2> QED BY <2>1, TwoErrors, NoFirstError
<1>3. b.sig = [key |-> chain[1].key, alg |-> b.alg, over |-> BlobMessage(b)]
  <2> DEFINE first == chain[1]
             m == BlobMessage(b)
  <2>1. LeafSigns(b.alg, first, m, b.sig) = "none"
    BY <1>2
  <2> HIDE DEF first, m
  <2>2. b.sig = [key |-> first.key, alg |-> b.alg, over |-> m]
    BY <2>1, LeafPasses
  <2> QED BY <2>2 DEF first, m
<1> HIDE DEF leaf
<1>4. PICK S : path \in Seq(S) /\ root \in Seq(S)
  BY OneRange
<1>5. /\ n \in Nat /\ Len(root) \in Nat /\ Len(root) >= 1 /\ DOMAIN path = 1..n
      /\ Len(chain) = n + Len(root)
      /\ \A i \in 1..(n + Len(root)) : chain[i] = IF i <= n THEN path[i] ELSE root[i - n]
  <2>1. Len(root) >= 1
    BY <1>1, <1>4
  <2> QED BY <1>4, <2>1, ConcatProperties
<1> HIDE DEF path, chain, n
<1>6. ASSUME NEW i \in 1..n
      PROVE  path[i].signer = IF i = n THEN root[1].key ELSE path[i + 1].key
  <2>1. i \in 1..(Len(chain) - 1) /\ i \in 1..(n + Len(root)) /\ i + 1 \in 1..(n + Len(root)) /\ i <= n
    BY <1>5
  <2>2. LinkError(chain, i) = "none"
    <3>1. Len(chain) \in Nat
      BY <1>5
    <3> QED BY <1>2, <2>1, <3>1, ChainPasses
  <2>3. chain[i].signer = chain[i + 1].key
    BY <2>2 DEF LinkError, Check
  <2>4. chain[i] = path[i]
    BY <1>5, <2>1
  <2>5. CASE i = n
    <3>1. ~(i + 1 <= n) /\ i + 1 - n = 1
      BY <1>5, <2>5
    <3>2. chain[i + 1] = root[1]
      BY <1>5, <2>1, <3>1
    <3> QED BY <2>3, <2>4, <2>5, <3>2
  <2>6. CASE i # n
    <3>1. i + 1 <= n
      BY <1>5, <2>6
    <3>2. chain[i + 1] = path[i + 1]
      BY <1>5, <2>1, <3>1
    <3> QED BY <2>3, <2>4, <2>6, <3>2
  <2> QED BY <2>5, <2>6
<1>7. TrustedChain(path, root[1])
  <2>1. \A i \in DOMAIN path : path[i].signer = (IF i = n THEN root[1].key ELSE path[i + 1].key)
    BY <1>5, <1>6
  <2> QED BY <2>1, Zenon DEF TrustedChain, n
<1> QED BY <1>3, <1>7

-------------------------------------------------------------------------------
(* Descriptors of HID devices                                              *)

FieldNames == {"usage_page", "usage", "count", "size", "input", "output", "remaining"}
Reads == [FieldNames -> Int]

LEMMA StartIsRead == Start \in Reads
BY DEF Start, Reads, FieldNames, NotRead

\* A main item that has its count and size takes them with it; one that was read
\* before changes nothing.
LEMMA ReadMain ==
  ASSUME NEW s \in Reads, NEW item, item.key \in {"input", "output"}
  PROVE  /\ Read(s, item) \in Reads
         /\ s.remaining = 0 \/ s[item.key] # NotRead \/ s.count = NotRead \/ s.size = NotRead => Read(s, item) = s
         /\ s.remaining # 0 /\ s[item.key] = NotRead /\ s.count # NotRead /\ s.size # NotRead =>
              /\ Read(s, item)[item.key] = (s.count * s.size) \div 8
              /\ Read(s, item).count = NotRead /\ Read(s, item).size = NotRead
              /\ Read(s, item).remaining = s.remaining - 1
              /\ \A k \in FieldNames \ {item.key, "count", "size", "remaining"} : Read(s, item)[k] = s[k]
<1> DEFINE K == item.key
           z == (s.count * s.size) \div 8
           t == [s EXCEPT ![K] = z, !["count"] = NotRead, !["size"] = NotRead, !["remaining"] = @ - 1]
           free == s[K] = NotRead /\ s.count # NotRead /\ s.size # NotRead
<1>1. Read(s, item) = IF s.remaining = 0 THEN s ELSE Main(s, item.key)
  BY DEF Read
<1>2. Main(s, item.key) = IF free THEN t ELSE s
  BY Zenon DEF Main
<1>3. s.count \in Int /\ s.size \in Int /\ s.remaining \in Int /\ NotRead \in Int
  BY DEF Reads, FieldNames, NotRead
<1>4. z \in Int
  BY <1>3
<1> HIDE DEF z
<1>5. K \in {"input", "output"}
  OBVIOUS
<1> HIDE DEF K
<1>6. t \in Reads
  <2>1. CASE K = "input"
    BY <1>3, <1>4, <2>1 DEF Reads, FieldNames
  <2>2. CASE K = "output"
    BY <1>3, <1>4, <2>2 DEF Reads, FieldNames
  <2> QED BY <1>5, <2>1, <2>2
<1>7. /\ t[K] = z /\ t.count = NotRead /\ t.size = NotRead /\ t.remaining = s.remaining - 1
      /\ \A k \in FieldNames \ {K, "count", "size", "remaining"} : t[k] = s[k]
  <2>1. CASE K = "input"
    BY <1>3, <1>4, <2>1 DEF Reads, FieldNames
  <2>2. CASE K = "output"
    BY <1>3, <1>4, <2>2 DEF Reads, FieldNames
  <2> QED BY <1>5, <2>1, <2>2
<1> HIDE DEF t
<1>8. CASE s.remaining = 0 \/ ~free
  BY <1>1, <1>2, <1>8 DEF K
<1>9. CASE s.remaining # 0 /\ free
  BY <1>1, <1>2, <1>6, <1>7, <1>9 DEF K, z
<1> QED BY <1>8, <1>9

LEMMA ReadUsage ==
  ASSUME NEW s \in Reads, NEW item, item.key \in {"usage_page", "usage"}, item.value \in Nat
  PROVE  /\ Read(s, item) \in Reads
         /\ s.remaining = 0 \/ ~Unset(s[item.key]) => Read(s, item) = s
         /\ s.remaining # 0 /\ Unset(s[item.key]) =>
              /\ Read(s, item)[item.key] = item.value
              /\ Read(s, item).remaining = s.remaining - 1
              /\ \A k \in FieldNames \ {item.key, "remaining"} : Read(s, item)[k] = s[k]
<1> DEFINE K == item.key
           t == [s EXCEPT ![K] = item.value, !["remaining"] = @ - 1]
<1>1. /\ s.remaining = 0 \/ ~Unset(s[K]) => Read(s, item) = s
      /\ s.remaining # 0 /\ Unset(s[K]) => Read(s, item) = t
  <2>1. CASE K = "usage"
    BY <2>1 DEF Read
  <2>2. CASE K = "usage_page"
    BY <2>2 DEF Read
  <2> QED BY <2>1, <2>2
<1>2. s.remaining \in Int
  BY DEF Reads, FieldNames
<1>3. K \in {"usage_page", "usage"}
  OBVIOUS
<1> HIDE DEF K
<1>4. t \in Reads
  <2>1. CASE K = "usage"
    BY <1>2, <2>1 DEF Reads, FieldNames
  <2>2. CASE K = "usage_page"
    BY <1>2, <2>2 DEF Reads, FieldNames
  <2> QED BY <1>3, <2>1, <2>2
<1>5. /\ t[K] = item.value /\ t.remaining = s.remaining - 1
      /\ \A k \in FieldNames \ {K, "remaining"} : t[k] = s[k]
  <2>1. CASE K = "usage"
    BY <1>2, <2>1 DEF Reads, FieldNames
  <2>2. CASE K = "usage_page"
    BY <1>2, <2>2 DEF Reads, FieldNames
  <2> QED BY <1>3, <2>1, <2>2
<1> HIDE DEF t
<1> QED BY <1>1, <1>4, <1>5 DEF K

LEMMA ReadSize ==
  ASSUME NEW s \in Reads, NEW item, item.key \in {"count", "size"}, item.value \in Nat
  PROVE  /\ Read(s, item) \in Reads
         /\ s.remaining = 0 => Read(s, item) = s
         /\ s.remaining # 0 /\ Unset(s[item.key]) => Read(s, item)[item.key] = item.value
         /\ \A k \in FieldNames \ {item.key} : Read(s, item)[k] = s[k]
<1> DEFINE K == item.key
           t == [s EXCEPT ![K] = item.value]
<1>1. Read(s, item) = IF s.remaining = 0 \/ ~Unset(s[K]) THEN s ELSE t
  BY DEF Read
<1>2. K \in {"count", "size"}
  OBVIOUS
<1> HIDE DEF K
<1>3. t \in Reads
  BY <1>2 DEF Reads, FieldNames
<1>4. t[K] = item.value /\ \A k \in FieldNames \ {K} : t[k] = s[k]
  BY <1>2 DEF Reads, FieldNames
<1> HIDE DEF t
<1> QED BY <1>1, <1>3, <1>4 DEF K

LEMMA ReadOther ==
  ASSUME NEW s, NEW item, item.key \notin {"usage_page", "usage", "count", "size", "input", "output"}
  PROVE  Read(s, item) = s
BY DEF Read

LEMMA ReadIsRead ==
  ASSUME NEW s \in Reads, NEW item, item.value \in Nat
  PROVE  Read(s, item) \in Reads
BY ReadMain, ReadUsage, ReadSize, ReadOther

Readable(items) == Sequence(items) /\ \A n \in DOMAIN items : items[n].value \in Nat

\* The loop goes from one item to the next.
LEMMA ReadingIsBuilt ==
  ASSUME NEW items, Readable(items)
  PROVE  /\ Len(items) \in Nat /\ DOMAIN items = 1..Len(items)
         /\ Reading(items)[0] = Start
         /\ \A i \in 1..Len(items) : Reading(items)[i] = Read(Reading(items)[i - 1], items[i])
         /\ \A i \in 0..Len(items) : Reading(items)[i] \in Reads
<1> DEFINE n == Len(items)
           body(f) == [i \in 0..n |-> IF i = 0 THEN Start ELSE Read(f[i - 1], items[i])]
           upTo == CHOOSE f : f = body(f)
           Some(f, m) == f[0] = Start /\ \A i \in 1..m : f[i] = Read(f[i - 1], items[i])
           T == {m \in 0..n : ~\E f \in [0..m -> Reads] : Some(f, m)}
<1>1. n \in Nat /\ DOMAIN items = 1..n
  BY SequenceShape DEF Readable
<1>2. \A i \in 1..n : items[i].value \in Nat
  BY <1>1 DEF Readable
<1> HIDE DEF n
<1>3. \E f \in [0..n -> Reads] : Some(f, n)
  <2>1. SUFFICES ASSUME T # {} PROVE FALSE
    BY <1>1
  <2>2. PICK m \in T : \A k \in T : m <= k
    <3>1. T \in SUBSET Nat
      BY <1>1
    <3> HIDE DEF T
    <3> QED BY <2>1, <3>1, LeastNumber
  <2>3. m # 0
    <3>1. [i \in 0..0 |-> Start] \in [0..0 -> Reads] /\ Some([i \in 0..0 |-> Start], 0)
      BY StartIsRead
    <3> QED BY <2>2, <3>1
  <2>4. m \in 1..n /\ m - 1 \in 0..n /\ m - 1 \notin T
    <3>1. m \in 0..n
      BY <2>2
    <3>2. m - 1 \notin T
      <4> HIDE DEF T
      <4> QED BY <1>1, <2>2, <3>1
    <3> HIDE DEF T
    <3> QED BY <1>1, <2>3, <3>1, <3>2
  <2>5. PICK f \in [0..(m - 1) -> Reads] : Some(f, m - 1)
    BY <2>4
  <2> DEFINE g == [i \in 0..m |-> IF i < m THEN f[i] ELSE Read(f[m - 1], items[m])]
  <2>6. g \in [0..m -> Reads]
    <3>1. Read(f[m - 1], items[m]) \in Reads
      BY <1>2, <2>4, ReadIsRead
    <3> QED BY <2>4, <3>1
  <2>7. Some(g, m)
    <3>1. g[0] = Start
      BY <2>4, <2>5
    <3>2. ASSUME NEW i \in 1..m
          PROVE  g[i] = Read(g[i - 1], items[i])
      <4>1. g[i - 1] = f[i - 1]
        BY <1>1, <2>4
      <4>2. CASE i = m
        BY <1>1, <2>4, <4>1, <4>2
      <4>3. CASE i < m
        <5>1. g[i] = f[i] /\ i \in 1..(m - 1)
          BY <1>1, <2>4, <4>3
        <5> QED BY <2>5, <4>1, <5>1
      <4> QED BY <1>1, <2>4, <4>2, <4>3
    <3> QED BY <3>1, <3>2
  <2> QED BY <2>2, <2>6, <2>7
<1>4. PICK g \in [0..n -> Reads] : Some(g, n)
  BY <1>3
<1>5. g = body(g)
  <2>1. ASSUME NEW i \in 0..n
        PROVE  g[i] = body(g)[i]
    <3>1. CASE i = 0
      BY <1>4, <3>1
    <3>2. CASE i # 0
      <4>1. i \in 1..n
        BY <1>1, <3>2
      <4>2. g[i] = Read(g[i - 1], items[i])
        BY <1>4, <4>1
      <4>3. body(g)[i] = Read(g[i - 1], items[i])
        BY <3>2
      <4> QED BY <4>2, <4>3
    <3> QED BY <3>1, <3>2
  <2>2. g = [i \in 0..n |-> g[i]]
    BY <1>4
  <2> QED BY <2>1, <2>2
<1>6. upTo = body(upTo)
  <2> HIDE DEF body
  <2> QED BY <1>5
<1>7. Reading(items) = upTo
  BY DEF Reading, n
<1> HIDE DEF upTo
<1>8. upTo[0] = Start
  BY <1>1, <1>6
<1>9. ASSUME NEW i \in 1..n
      PROVE  upTo[i] = Read(upTo[i - 1], items[i])
  <2>1. i \in 0..n /\ i # 0
    BY <1>1
  <2>2. body(upTo)[i] = Read(upTo[i - 1], items[i])
    BY <2>1
  <2> HIDE DEF body
  <2> QED BY <1>6, <2>2
<1> HIDE DEF body
<1>10. \A i \in 0..n : upTo[i] = g[i]
  <2> DEFINE W == {i \in 0..n : upTo[i] # g[i]}
  <2>1. SUFFICES ASSUME W # {} PROVE FALSE
    OBVIOUS
  <2>2. PICK m \in W : \A k \in W : m <= k
    <3>1. W \in SUBSET Nat
      BY <1>1
    <3> HIDE DEF W
    <3> QED BY <2>1, <3>1, LeastNumber
  <2>3. m \in 0..n /\ upTo[m] # g[m]
    BY <2>2
  <2>4. m # 0
    BY <1>4, <1>8, <2>3
  <2>5. m \in 1..n /\ m - 1 \in 0..n /\ m - 1 \notin W
    <3>1. m - 1 \notin W
      <4> HIDE DEF W
      <4> QED BY <1>1, <2>2, <2>3
    <3> QED BY <1>1, <2>3, <2>4, <3>1
  <2>6. upTo[m - 1] = g[m - 1]
    BY <2>5
  <2>7. g[m] = Read(g[m - 1], items[m])
    BY <1>4, <2>5
  <2> QED BY <1>9, <2>3, <2>5, <2>6, <2>7
<1>11. \A i \in 0..n : upTo[i] \in Reads
  BY <1>4, <1>10
<1> QED BY <1>1, <1>7, <1>8, <1>9, <1>11 DEF n

\* What an item does not name stays as it was, but for count, size and what remains.
LEMMA ReadKeeps ==
  ASSUME NEW s \in Reads, NEW item, item.value \in Nat,
         NEW k \in {"usage_page", "usage", "input", "output"}, item.key # k
  PROVE  Read(s, item)[k] = s[k]
<1>1. k \in FieldNames \ {item.key, "count", "size", "remaining"}
  BY DEF FieldNames
<1>2. CASE item.key \in {"input", "output"}
  <2>1. CASE s.remaining # 0 /\ s[item.key] = NotRead /\ s.count # NotRead /\ s.size # NotRead
    BY <1>1, <1>2, <2>1, ReadMain
  <2>2. CASE ~(s.remaining # 0 /\ s[item.key] = NotRead /\ s.count # NotRead /\ s.size # NotRead)
    BY <1>2, <2>2, ReadMain
  <2> QED BY <2>1, <2>2
<1>3. CASE item.key \in {"usage_page", "usage"}
  BY <1>1, <1>3, ReadUsage
<1>4. CASE item.key \in {"count", "size"}
  BY <1>1, <1>4, ReadSize
<1>5. CASE item.key \notin {"usage_page", "usage", "count", "size", "input", "output"}
  BY <1>5, ReadOther
<1> QED BY <1>2, <1>3, <1>4, <1>5

\* Nothing is read once there is nothing left to learn.
LEMMA ReadNothing ==
  ASSUME NEW s, NEW item, s.remaining = 0
  PROVE  Read(s, item) = s
BY DEF Read

LEMMA FirstItemIsFirst ==
  ASSUME NEW items, Readable(items), NEW key, FirstItem(items, key) # 0
  PROVE  /\ FirstItem(items, key) \in 1..Len(items) /\ items[FirstItem(items, key)].key = key
         /\ \A i \in 1..Len(items) : items[i].key = key => FirstItem(items, key) <= i
<1> DEFINE T == Stated(items, key, 1, Len(items))
<1>1. Len(items) \in Nat
  BY ReadingIsBuilt
<1>2. T = {i \in 1..Len(items) : items[i].key = key}
  BY DEF Stated
<1> HIDE DEF T
<1>3. T # {} /\ FirstItem(items, key) = Min(T)
  BY DEF FirstItem, T
<1>4. Min(T) \in T /\ \A m \in T : Min(T) <= m
  <2>1. T \in SUBSET Nat
    BY <1>1, <1>2
  <2> QED BY <1>3, <2>1, MinIsLeast
<1> QED BY <1>2, <1>3, <1>4

\* A usage or usage page that was read is the first that says anything.
LEMMA UsageIsFirst ==
  ASSUME NEW items, Readable(items), NEW key \in {"usage_page", "usage"},
         Reading(items)[Len(items)][key] = 1
  PROVE  Telling(items, key) # {} /\ items[Min(Telling(items, key))].value = 1
<1> DEFINE n == Len(items)
           f == Reading(items)
           T == Telling(items, key)
           Leads(j) == j \in T /\ \A k \in T : j <= k
           P(i) == \/ Unset(f[i][key]) /\ (f[i].remaining # 0 => \A j \in 1..i : j \notin T)
                   \/ \E j \in 1..i : Leads(j) /\ f[i][key] = items[j].value
           W == {i \in 0..n : ~P(i)}
<1>1. /\ n \in Nat /\ DOMAIN items = 1..n /\ f[0] = Start
      /\ \A i \in 1..n : f[i] = Read(f[i - 1], items[i])
      /\ \A i \in 0..n : f[i] \in Reads
  BY ReadingIsBuilt
<1>2. /\ \A i \in 1..n : items[i].value \in Nat
      /\ T = {i \in 1..n : items[i].key = key /\ items[i].value # 0}
  BY <1>1 DEF Readable, Telling
<1> HIDE DEF n, f, T
<1>3. P(0)
  <2>1. Unset(f[0][key])
    BY <1>1 DEF Start, Unset
  <2>2. \A j \in 1..0 : j \notin T
    OBVIOUS
  <2> QED BY <2>1, <2>2
<1>4. ASSUME NEW i \in 1..n, P(i - 1)
      PROVE  P(i)
  <2> DEFINE s == f[i - 1]
             t == f[i]
  <2>1. i - 1 \in 0..n /\ i \in 0..n
    BY <1>1
  <2>2. s \in Reads /\ t = Read(s, items[i]) /\ items[i].value \in Nat
    BY <1>1, <1>2, <2>1
  <2>3. P(i - 1) <=> \/ Unset(s[key]) /\ (s.remaining # 0 => \A j \in 1..(i - 1) : j \notin T)
                     \/ \E j \in 1..(i - 1) : Leads(j) /\ s[key] = items[j].value
    OBVIOUS
  <2>4. P(i) <=> \/ Unset(t[key]) /\ (t.remaining # 0 => \A j \in 1..i : j \notin T)
                 \/ \E j \in 1..i : Leads(j) /\ t[key] = items[j].value
    OBVIOUS
  <2> HIDE DEF s, t
  <2>5. CASE s.remaining = 0
    <3>1. t = s
      BY <2>2, <2>5, ReadNothing
    <3> QED BY <1>1, <1>4, <2>3, <2>4, <2>5, <3>1
  <2>6. CASE s.remaining # 0 /\ items[i].key # key
    <3>1. t[key] = s[key]
      BY <2>2, <2>6, ReadKeeps
    <3>2. i \notin T
      BY <1>2, <2>6
    <3> QED BY <1>1, <1>4, <2>3, <2>4, <2>6, <3>1, <3>2
  <2>7. CASE s.remaining # 0 /\ items[i].key = key
    <3>1. CASE \E j \in 1..(i - 1) : Leads(j) /\ s[key] = items[j].value
      <4>1. PICK j \in 1..(i - 1) : Leads(j) /\ s[key] = items[j].value
        BY <3>1
      <4>2. ~Unset(s[key])
        <5>1. j \in 1..n /\ items[j].value \in Nat /\ items[j].value # 0
          BY <1>2, <4>1
        <5> QED BY <4>1, <5>1 DEF Unset, NotRead
      <4>3. t = s
        BY <2>2, <2>7, <4>2, ReadUsage
      <4>4. j \in 1..i
        BY <1>1
      <4> QED BY <2>4, <4>1, <4>3, <4>4
    <3>2. CASE Unset(s[key]) /\ \A j \in 1..(i - 1) : j \notin T
      <4>1. t[key] = items[i].value
        BY <2>2, <2>7, <3>2, ReadUsage
      <4>2. CASE items[i].value = 0
        <5>1. Unset(t[key])
          BY <4>1, <4>2 DEF Unset
        <5>2. \A j \in 1..i : j \notin T
          BY <1>1, <1>2, <3>2, <4>2
        <5> QED BY <2>4, <5>1, <5>2
      <4>3. CASE items[i].value # 0
        <5>1. Leads(i)
          BY <1>1, <1>2, <2>7, <3>2, <4>3
        <5>2. i \in 1..i
          BY <1>1
        <5> QED BY <2>4, <4>1, <5>1, <5>2
      <4> QED BY <4>2, <4>3
    <3> QED BY <1>4, <2>3, <2>7, <3>1, <3>2
  <2> QED BY <2>5, <2>6, <2>7
<1>5. W = {}
  <2>1. SUFFICES ASSUME W # {} PROVE FALSE
    OBVIOUS
  <2>2. PICK m \in W : \A k \in W : m <= k
    <3>1. W \in SUBSET Nat
      BY <1>1
    <3> HIDE DEF W
    <3> QED BY <2>1, <3>1, LeastNumber
  <2>3. m \in 0..n /\ ~P(m)
    BY <2>2
  <2> HIDE DEF P
  <2>4. m \in 1..n /\ m - 1 \in 0..n
    BY <1>1, <1>3, <2>3
  <2>5. m - 1 \notin W
    <3> HIDE DEF W
    <3> QED BY <1>1, <2>2, <2>4
  <2> QED BY <1>4, <2>3, <2>4, <2>5
<1>6. P(n)
  <2> HIDE DEF P
  <2> QED BY <1>1, <1>5
<1>7. PICK j \in 1..n : Leads(j) /\ items[j].value = 1
  <2>1. f[n][key] = 1
    BY DEF f, n
  <2>2. ~Unset(f[n][key])
    BY <2>1 DEF Unset, NotRead
  <2> QED BY <1>6, <2>1, <2>2
<1>8. T # {} /\ T \in SUBSET Nat
  BY <1>1, <1>2, <1>7
<1>9. Min(T) \in T /\ \A k \in T : Min(T) <= k
  BY <1>8, MinIsLeast
<1>10. Min(T) = j
  <2> DEFINE m == Min(T)
  <2>1. m \in Nat /\ j \in Nat
    <3>1. m \in Nat
      BY <1>8, <1>9
    <3> QED BY <1>1, <1>7, <3>1
  <2>2. j <= m /\ m <= j
    BY <1>7, <1>9
  <2> HIDE DEF m
  <2>3. m = j
    BY <2>1, <2>2
  <2> QED BY <2>3 DEF m
<1> QED BY <1>7, <1>8, <1>10 DEF T

\* A value that is read at item first, seen after item i.
At(i, first, value) == IF i < first THEN NotRead ELSE value
Ahead(i, first) == IF i < first THEN 1 ELSE 0

LEMMA AtStays ==
  ASSUME NEW i \in Nat, NEW first \in Nat, NEW value, i # first
  PROVE  At(i, first, value) = At(i - 1, first, value) /\ Ahead(i, first) = Ahead(i - 1, first)
<1>1. i < first <=> i - 1 < first
  OBVIOUS
<1> QED BY <1>1 DEF At, Ahead

LEMMA AtReads ==
  ASSUME NEW i \in Nat, NEW value
  PROVE  At(i - 1, i, value) = NotRead /\ At(i, i, value) = value
<1>1. i - 1 < i /\ ~(i < i)
  OBVIOUS
<1> QED BY <1>1 DEF At

LEMMA NumberIsRead ==
  ASSUME NEW x \in Nat
  PROVE  x # NotRead
BY DEF NotRead

IsFirst(items, key, i) ==
  /\ i \in 1..Len(items) /\ items[i].key = key
  /\ \A j \in 1..Len(items) : items[j].key = key => i <= j

\* c is the one place between lo and hi where the key is stated
IsOnce(items, key, lo, hi, c) ==
  /\ c \in lo..hi /\ items[c].key = key
  /\ \A j \in lo..hi : items[j].key = key => j = c

\* p and u are the first usage page and usage, K1 is the main item that comes
\* first, at one, and K2 the other, at two; c1, z1 and c2, z2 are the places of
\* their counts and sizes
Laid(items, K1, K2, p, u, one, two, c1, z1, c2, z2) ==
  /\ IsFirst(items, "usage_page", p) /\ items[p].value = 1
  /\ IsFirst(items, "usage", u) /\ items[u].value = 1
  /\ IsFirst(items, K1, one) /\ IsFirst(items, K2, two) /\ one < two
  /\ IsOnce(items, "count", 1, one, c1) /\ IsOnce(items, "size", 1, one, z1)
  /\ IsOnce(items, "count", one, two, c2) /\ IsOnce(items, "size", one, two, z2)

\* The loop reads each of four values at the first item that has it, the main
\* items with the count and the size that are stated before them.
LEMMA SizesOnTheWay ==
  ASSUME NEW items, Readable(items),
         NEW K1 \in {"input", "output"}, NEW K2 \in {"input", "output"}, K1 # K2,
         NEW p, NEW u, NEW one, NEW two, NEW c1, NEW z1, NEW c2, NEW z2,
         Laid(items, K1, K2, p, u, one, two, c1, z1, c2, z2)
  PROVE  /\ Reading(items)[Len(items)].usage_page = 1 /\ Reading(items)[Len(items)].usage = 1
         /\ Reading(items)[Len(items)].remaining = 0
         /\ Reading(items)[Len(items)][K1] = (items[c1].value * items[z1].value) \div 8
         /\ Reading(items)[Len(items)][K2] = (items[c2].value * items[z2].value) \div 8
<1> DEFINE n == Len(items)
           f == Reading(items)
           A == (items[c1].value * items[z1].value) \div 8
           B == (items[c2].value * items[z2].value) \div 8
           Told(i, s) == /\ s.usage_page = At(i, p, 1) /\ s.usage = At(i, u, 1)
                         /\ s[K1] = At(i, one, A) /\ s[K2] = At(i, two, B)
           Left(i, s) == s.remaining = Ahead(i, p) + Ahead(i, u) + Ahead(i, one) + Ahead(i, two)
           Counted(i, s) == /\ i < one => s.count = At(i, c1, items[c1].value)
                            /\ one <= i /\ i < two => s.count = At(i, c2, items[c2].value)
           Sized(i, s) == /\ i < one => s.size = At(i, z1, items[z1].value)
                          /\ one <= i /\ i < two => s.size = At(i, z2, items[z2].value)
           Q(i, s) == Told(i, s) /\ Left(i, s) /\ Counted(i, s) /\ Sized(i, s)
           W == {i \in 0..n : ~Q(i, f[i])}
<1>0. /\ one \in 1..Len(items) /\ two \in 1..Len(items) /\ one < two
      /\ p \in 1..Len(items) /\ u \in 1..Len(items)
      /\ IsFirst(items, "usage_page", p) /\ items[p].value = 1
      /\ IsFirst(items, "usage", u) /\ items[u].value = 1
      /\ IsFirst(items, K1, one) /\ IsFirst(items, K2, two)
      /\ IsOnce(items, "count", 1, one, c1) /\ IsOnce(items, "size", 1, one, z1)
      /\ IsOnce(items, "count", one, two, c2) /\ IsOnce(items, "size", one, two, z2)
  BY DEF Laid, IsFirst
<1>1. /\ n \in Nat /\ DOMAIN items = 1..n /\ f[0] = Start
      /\ \A i \in 1..n : f[i] = Read(f[i - 1], items[i])
      /\ \A i \in 0..n : f[i] \in Reads
  BY ReadingIsBuilt
<1>2. \A i \in 1..n : items[i].value \in Nat
  BY <1>1 DEF Readable
<1>3. /\ c1 \in 1..n /\ c1 < one /\ z1 \in 1..n /\ z1 < one
      /\ c2 \in 1..n /\ one < c2 /\ c2 < two /\ z2 \in 1..n /\ one < z2 /\ z2 < two
  <2>1. items[one].key = K1 /\ items[two].key = K2
    BY <1>0 DEF IsFirst
  <2>2. /\ c1 \in 1..one /\ items[c1].key = "count" /\ z1 \in 1..one /\ items[z1].key = "size"
        /\ c2 \in one..two /\ items[c2].key = "count" /\ z2 \in one..two /\ items[z2].key = "size"
    BY <1>0 DEF IsOnce
  <2>3. c1 # one /\ z1 # one /\ c2 # one /\ c2 # two /\ z2 # one /\ z2 # two
    BY <2>1, <2>2
  <2>4. one \in 1..n /\ two \in 1..n
    BY <1>0 DEF n
  <2> HIDE DEF n
  <2>5. ASSUME NEW c \in 1..one, c # one
        PROVE  c \in 1..n /\ c < one
    BY <1>1, <2>4, <2>5
  <2>6. ASSUME NEW c \in one..two, c # one, c # two
        PROVE  c \in 1..n /\ one < c /\ c < two
    BY <1>1, <2>4, <2>6
  <2> QED BY <2>2, <2>3, <2>5, <2>6
<1>4. A \in Nat /\ B \in Nat
  <2>1. ASSUME NEW a \in Nat, NEW b \in Nat
        PROVE  (a * b) \div 8 \in Nat
    <3>1. a * b \in Nat
      OBVIOUS
    <3> DEFINE c == a * b
    <3> HIDE DEF c
    <3>2. c \in Nat => c \div 8 \in Nat
      OBVIOUS
    <3> QED BY <3>1, <3>2 DEF c
  <2> QED BY <1>2, <1>3, <2>1
<1> HIDE DEF A, B, n, f
<1>5. Q(0, f[0])
  <2>1. /\ f[0].usage_page = NotRead /\ f[0].usage = NotRead /\ f[0].remaining = 4
        /\ f[0].count = NotRead /\ f[0].size = NotRead /\ f[0][K1] = NotRead /\ f[0][K2] = NotRead
    BY <1>1 DEF Start
  <2>2. \A first \in 1..n : \A v : At(0, first, v) = NotRead /\ Ahead(0, first) = 1
    BY <1>1 DEF At, Ahead
  <2>3. /\ one \in 1..n /\ two \in 1..n /\ p \in 1..n /\ u \in 1..n
    BY <1>0 DEF n
  <2>4. ~(one <= 0)
    BY <1>1, <2>3
  <2>5. Told(0, f[0])
    BY <2>1, <2>2, <2>3
  <2>6. Left(0, f[0])
    BY <2>1, <2>2, <2>3
  <2>7. Counted(0, f[0]) /\ Sized(0, f[0])
    BY <1>3, <2>1, <2>2, <2>4
  <2> QED BY <2>5, <2>6, <2>7
<1>6. ASSUME NEW i \in 1..n, Q(i - 1, f[i - 1])
      PROVE  Q(i, f[i])
  <2> DEFINE s == f[i - 1]
             t == f[i]
             item == items[i]
  <2>1. /\ i \in Nat \ {0} /\ i - 1 \in 0..n /\ i \in 0..n
        /\ one \in 1..n /\ two \in 1..n /\ p \in 1..n /\ u \in 1..n
    BY <1>0, <1>1 DEF n
  <2>2. s \in Reads /\ t = Read(s, item) /\ item.value \in Nat
    BY <1>1, <1>2, <2>1
  <2>3. /\ item.key = "usage_page" => p <= i
        /\ item.key = "usage" => u <= i
        /\ item.key = K1 => one <= i
        /\ item.key = K2 => two <= i
        /\ i = p => item.key = "usage_page"
        /\ i = u => item.key = "usage"
        /\ i = one => item.key = K1
        /\ i = two => item.key = K2
    BY <1>0 DEF IsFirst, n
  <2>4. /\ i = c1 \/ i = c2 => item.key = "count"
        /\ i = z1 \/ i = z2 => item.key = "size"
        /\ item.key = "count" /\ i < one => i = c1
        /\ item.key = "size" /\ i < one => i = z1
        /\ item.key = "count" /\ one <= i /\ i < two => i = c2
        /\ item.key = "size" /\ one <= i /\ i < two => i = z2
    <3>1. /\ items[c1].key = "count" /\ items[c2].key = "count"
          /\ items[z1].key = "size" /\ items[z2].key = "size"
          /\ \A j \in 1..one : (items[j].key = "count" => j = c1) /\ (items[j].key = "size" => j = z1)
          /\ \A j \in one..two : (items[j].key = "count" => j = c2) /\ (items[j].key = "size" => j = z2)
      BY <1>0 DEF IsOnce
    <3>2. i < one => i \in 1..one
      BY <1>1, <2>1
    <3>3. one <= i /\ i < two => i \in one..two
      BY <1>1, <2>1
    <3> QED BY <3>1, <3>2, <3>3
  <2>5. p \in Nat /\ u \in Nat /\ one \in Nat /\ two \in Nat
        /\ c1 \in Nat /\ z1 \in Nat /\ c2 \in Nat /\ z2 \in Nat /\ i \in Nat
    BY <1>1, <1>3, <2>1
  <2>6. Told(i - 1, s) /\ Left(i - 1, s) /\ Counted(i - 1, s) /\ Sized(i - 1, s)
    BY <1>6
  <2>7. items[p].value = 1 /\ items[u].value = 1 /\ one < two
    BY <1>0
  <2>8. /\ items[c1].value \in Nat /\ items[c2].value \in Nat
        /\ items[z1].value \in Nat /\ items[z2].value \in Nat
    BY <1>2, <1>3
  <2> SUFFICES Told(i, t) /\ Left(i, t) /\ Counted(i, t) /\ Sized(i, t)
    OBVIOUS
  <2> HIDE DEF s, t, item
  \* what item i does not name is as it was
  <2>9. ASSUME item.key # "usage_page"
        PROVE  t.usage_page = At(i, p, 1) /\ Ahead(i, p) = Ahead(i - 1, p)
    <3>1. t["usage_page"] = s["usage_page"]
      BY <2>2, <2>9, ReadKeeps
    <3>2. At(i, p, 1) = At(i - 1, p, 1) /\ Ahead(i, p) = Ahead(i - 1, p)
      <4>1. i # p
        BY <2>3, <2>9
      <4> QED BY <2>5, <4>1, AtStays
    <3> QED BY <2>6, <3>1, <3>2
  <2>10. ASSUME item.key # "usage"
         PROVE  t.usage = At(i, u, 1) /\ Ahead(i, u) = Ahead(i - 1, u)
    <3>1. t["usage"] = s["usage"]
      BY <2>2, <2>10, ReadKeeps
    <3>2. At(i, u, 1) = At(i - 1, u, 1) /\ Ahead(i, u) = Ahead(i - 1, u)
      <4>1. i # u
        BY <2>3, <2>10
      <4> QED BY <2>5, <4>1, AtStays
    <3> QED BY <2>6, <3>1, <3>2
  <2>11. ASSUME item.key # K1
         PROVE  t[K1] = At(i, one, A) /\ Ahead(i, one) = Ahead(i - 1, one)
    <3>1. t[K1] = s[K1]
      BY <2>2, <2>11, ReadKeeps
    <3>2. At(i, one, A) = At(i - 1, one, A) /\ Ahead(i, one) = Ahead(i - 1, one)
      <4>1. i # one
        BY <2>3, <2>11
      <4> QED BY <2>5, <4>1, AtStays
    <3> QED BY <2>6, <3>1, <3>2
  <2>12. ASSUME item.key # K2
         PROVE  t[K2] = At(i, two, B) /\ Ahead(i, two) = Ahead(i - 1, two)
    <3>1. t[K2] = s[K2]
      BY <2>2, <2>12, ReadKeeps
    <3>2. At(i, two, B) = At(i - 1, two, B) /\ Ahead(i, two) = Ahead(i - 1, two)
      <4>1. i # two
        BY <2>3, <2>12
      <4> QED BY <2>5, <4>1, AtStays
    <3> QED BY <2>6, <3>1, <3>2
  <2>13. ASSUME item.key # "count", t.count = s.count, i # one
         PROVE  Counted(i, t)
    <3>1. i < one => i - 1 < one
      BY <2>5
    <3>2. one <= i /\ i < two => one <= i - 1 /\ i - 1 < two
      BY <2>5, <2>13
    <3>3. /\ At(i, c1, items[c1].value) = At(i - 1, c1, items[c1].value)
          /\ At(i, c2, items[c2].value) = At(i - 1, c2, items[c2].value)
      <4>1. i # c1 /\ i # c2
        BY <2>4, <2>13
      <4> QED BY <2>5, <4>1, AtStays
    <3> QED BY <2>6, <2>13, <3>1, <3>2, <3>3
  <2>14. ASSUME item.key # "size", t.size = s.size, i # one
         PROVE  Sized(i, t)
    <3>1. i < one => i - 1 < one
      BY <2>5
    <3>2. one <= i /\ i < two => one <= i - 1 /\ i - 1 < two
      BY <2>5, <2>14
    <3>3. /\ At(i, z1, items[z1].value) = At(i - 1, z1, items[z1].value)
          /\ At(i, z2, items[z2].value) = At(i - 1, z2, items[z2].value)
      <4>1. i # z1 /\ i # z2
        BY <2>4, <2>14
      <4> QED BY <2>5, <4>1, AtStays
    <3> QED BY <2>6, <2>14, <3>1, <3>2, <3>3
  <2>15. K1 \in {"input", "output"} /\ K2 \in {"input", "output"} /\ K1 # K2
    OBVIOUS
  <2>16. CASE s.remaining = 0
    <3>1. t = s
      BY <2>2, <2>16, ReadNothing
    <3>2. Ahead(i - 1, p) = 0 /\ Ahead(i - 1, u) = 0 /\ Ahead(i - 1, one) = 0 /\ Ahead(i - 1, two) = 0
      BY <2>5, <2>6, <2>16 DEF Ahead
    <3>3. i > p /\ i > u /\ i > one /\ i > two
      BY <2>5, <3>2 DEF Ahead
    <3>4. Told(i, t) /\ Left(i, t)
      BY <2>5, <2>6, <3>1, <3>3 DEF At, Ahead
    <3>5. ~(i < one) /\ ~(i < two)
      BY <2>5, <3>3
    <3> QED BY <3>4, <3>5
  <2>17. CASE s.remaining # 0 /\ item.key = "usage_page"
    <3>1. i # one /\ i # two
      BY <2>3, <2>15, <2>17
    <3>2. CASE i = p
      <4>1. At(i - 1, p, 1) = NotRead /\ At(i, p, 1) = 1 /\ Ahead(i - 1, p) = 1 /\ Ahead(i, p) = 0
        BY <2>5, <3>2 DEF At, Ahead
      <4>2. Unset(s["usage_page"])
        BY <2>6, <4>1 DEF Unset
      <4>3. /\ t["usage_page"] = 1 /\ t.remaining = s.remaining - 1
            /\ t.count = s.count /\ t.size = s.size
        <5>1. item.value = 1
          BY <2>7, <3>2 DEF item
        <5> QED BY <2>2, <2>17, <4>2, <5>1, ReadUsage DEF FieldNames
      <4>4. Told(i, t)
        BY <2>10, <2>11, <2>12, <2>15, <2>17, <4>1, <4>3
      <4>5. Left(i, t)
        BY <2>5, <2>6, <2>10, <2>11, <2>12, <2>15, <2>17, <4>1, <4>3 DEF Ahead
      <4> QED BY <2>13, <2>14, <2>17, <3>1, <4>3, <4>4, <4>5
    <3>3. CASE i > p
      <4>1. At(i - 1, p, 1) = 1 /\ At(i, p, 1) = 1 /\ Ahead(i, p) = Ahead(i - 1, p)
        BY <2>5, <3>3 DEF At, Ahead
      <4>2. ~Unset(s["usage_page"])
        BY <2>6, <4>1 DEF Unset, NotRead
      <4>3. t = s
        BY <2>2, <2>17, <4>2, ReadUsage
      <4>4. Told(i, t) /\ Left(i, t)
        BY <2>6, <2>10, <2>11, <2>12, <2>15, <2>17, <4>1, <4>3
      <4> QED BY <2>13, <2>14, <2>17, <3>1, <4>3, <4>4
    <3> QED BY <2>3, <2>5, <2>17, <3>2, <3>3
  <2>18. CASE s.remaining # 0 /\ item.key = "usage"
    <3>1. i # one /\ i # two
      BY <2>3, <2>15, <2>18
    <3>2. CASE i = u
      <4>1. At(i - 1, u, 1) = NotRead /\ At(i, u, 1) = 1 /\ Ahead(i - 1, u) = 1 /\ Ahead(i, u) = 0
        BY <2>5, <3>2 DEF At, Ahead
      <4>2. Unset(s["usage"])
        BY <2>6, <4>1 DEF Unset
      <4>3. /\ t["usage"] = 1 /\ t.remaining = s.remaining - 1
            /\ t.count = s.count /\ t.size = s.size
        <5>1. item.value = 1
          BY <2>7, <3>2 DEF item
        <5> QED BY <2>2, <2>18, <4>2, <5>1, ReadUsage DEF FieldNames
      <4>4. Told(i, t)
        BY <2>9, <2>11, <2>12, <2>15, <2>18, <4>1, <4>3
      <4>5. Left(i, t)
        BY <2>5, <2>6, <2>9, <2>11, <2>12, <2>15, <2>18, <4>1, <4>3 DEF Ahead
      <4> QED BY <2>13, <2>14, <2>18, <3>1, <4>3, <4>4, <4>5
    <3>3. CASE i > u
      <4>1. At(i - 1, u, 1) = 1 /\ At(i, u, 1) = 1 /\ Ahead(i, u) = Ahead(i - 1, u)
        BY <2>5, <3>3 DEF At, Ahead
      <4>2. ~Unset(s["usage"])
        BY <2>6, <4>1 DEF Unset, NotRead
      <4>3. t = s
        BY <2>2, <2>18, <4>2, ReadUsage
      <4>4. Told(i, t) /\ Left(i, t)
        BY <2>6, <2>9, <2>11, <2>12, <2>15, <2>18, <4>1, <4>3
      <4> QED BY <2>13, <2>14, <2>18, <3>1, <4>3, <4>4
    <3> QED BY <2>3, <2>5, <2>18, <3>2, <3>3
  <2>19. CASE s.remaining # 0 /\ item.key = K1
    <3>1. item.key # "usage_page" /\ item.key # "usage" /\ item.key # K2 /\ item.key # "count" /\ item.key # "size"
      BY <2>15, <2>19
    <3>2. CASE i = one
      <4>1. At(i - 1, one, A) = NotRead /\ At(i, one, A) = A /\ Ahead(i - 1, one) = 1 /\ Ahead(i, one) = 0
        BY <2>5, <3>2 DEF At, Ahead
      <4>2. s.count = items[c1].value /\ s.size = items[z1].value
        <5>1. i - 1 < one /\ ~(i - 1 < c1) /\ ~(i - 1 < z1)
          BY <1>3, <2>5, <3>2
        <5> QED BY <2>6, <5>1 DEF At
      <4>3. s[item.key] = NotRead /\ s.count # NotRead /\ s.size # NotRead
        <5>1. s[item.key] = NotRead
          BY <2>6, <2>19, <4>1
        <5>2. items[c1].value # NotRead /\ items[z1].value # NotRead
          BY <2>8, NumberIsRead
        <5> QED BY <4>2, <5>1, <5>2
      <4>4. /\ t[K1] = A /\ t.count = NotRead /\ t.size = NotRead /\ t.remaining = s.remaining - 1
        BY <2>2, <2>15, <2>19, <4>2, <4>3, ReadMain DEF A
      <4>5. Told(i, t)
        BY <2>9, <2>10, <2>12, <3>1, <4>1, <4>4
      <4>6. Left(i, t)
        BY <2>5, <2>6, <2>9, <2>10, <2>12, <3>1, <4>1, <4>4 DEF Ahead
      <4>7. ~(i < one) /\ i < c2 /\ i < z2
        BY <1>3, <2>5, <3>2
      <4>8. Counted(i, t) /\ Sized(i, t)
        BY <4>4, <4>7 DEF At
      <4> QED BY <4>5, <4>6, <4>8
    <3>3. CASE i > one
      <4>1. At(i - 1, one, A) = A /\ At(i, one, A) = A /\ Ahead(i, one) = Ahead(i - 1, one)
        BY <2>5, <3>3 DEF At, Ahead
      <4>2. s[item.key] # NotRead
        BY <1>4, <2>6, <2>19, <4>1 DEF NotRead
      <4>3. t = s
        BY <2>2, <2>15, <2>19, <4>2, ReadMain
      <4>4. Told(i, t) /\ Left(i, t)
        BY <2>6, <2>9, <2>10, <2>12, <3>1, <4>1, <4>3
      <4>5. i # one
        BY <2>5, <3>3
      <4> QED BY <2>13, <2>14, <3>1, <4>3, <4>4, <4>5
    <3> QED BY <2>3, <2>5, <2>19, <3>2, <3>3
  <2>20. CASE s.remaining # 0 /\ item.key = K2
    <3>1. item.key # "usage_page" /\ item.key # "usage" /\ item.key # K1 /\ item.key # "count" /\ item.key # "size"
      BY <2>15, <2>20
    <3>2. ~(i < one) /\ ~(i < two)
      <4>1. two <= i /\ one < two
        BY <2>3, <2>7, <2>20
      <4> QED BY <2>5, <4>1
    <3>3. CASE i = two
      <4>1. At(i - 1, two, B) = NotRead /\ At(i, two, B) = B /\ Ahead(i - 1, two) = 1 /\ Ahead(i, two) = 0
        BY <2>5, <3>3 DEF At, Ahead
      <4>2. s.count = items[c2].value /\ s.size = items[z2].value
        <5>1. one <= i - 1 /\ i - 1 < two /\ ~(i - 1 < c2) /\ ~(i - 1 < z2)
          BY <1>3, <2>5, <3>3
        <5> QED BY <2>6, <5>1 DEF At
      <4>3. s[item.key] = NotRead /\ s.count # NotRead /\ s.size # NotRead
        <5>1. s[item.key] = NotRead
          BY <2>6, <2>20, <4>1
        <5>2. items[c2].value # NotRead /\ items[z2].value # NotRead
          BY <2>8, NumberIsRead
        <5> QED BY <4>2, <5>1, <5>2
      <4>4. t[K2] = B /\ t.remaining = s.remaining - 1
        BY <2>2, <2>15, <2>20, <4>2, <4>3, ReadMain DEF B
      <4>5. Told(i, t)
        BY <2>9, <2>10, <2>11, <3>1, <4>1, <4>4
      <4>6. Left(i, t)
        BY <2>5, <2>6, <2>9, <2>10, <2>11, <3>1, <4>1, <4>4 DEF Ahead
      <4> QED BY <3>2, <4>5, <4>6
    <3>4. CASE i > two
      <4>1. At(i - 1, two, B) = B /\ At(i, two, B) = B /\ Ahead(i, two) = Ahead(i - 1, two)
        BY <2>5, <3>4 DEF At, Ahead
      <4>2. s[item.key] # NotRead
        BY <1>4, <2>6, <2>20, <4>1 DEF NotRead
      <4>3. t = s
        BY <2>2, <2>15, <2>20, <4>2, ReadMain
      <4>4. Told(i, t) /\ Left(i, t)
        BY <2>6, <2>9, <2>10, <2>11, <3>1, <4>1, <4>3
      <4> QED BY <3>2, <4>4
    <3> QED BY <2>3, <2>5, <2>20, <3>3, <3>4
  <2>21. CASE s.remaining # 0 /\ item.key = "count"
    <3>1. item.key # "usage_page" /\ item.key # "usage" /\ item.key # K1 /\ item.key # K2 /\ item.key # "size"
      BY <2>15, <2>21
    <3>2. t.size = s.size /\ t.remaining = s.remaining
      BY <2>2, <2>21, ReadSize DEF FieldNames
    <3>3. Told(i, t) /\ Left(i, t)
      BY <2>6, <2>9, <2>10, <2>11, <2>12, <3>1, <3>2
    <3>4. i # one
      BY <2>3, <3>1
    <3>5. Sized(i, t)
      BY <2>14, <3>1, <3>2, <3>4
    <3>6. CASE i < one
      <4>1. i = c1 /\ i - 1 < one
        BY <2>4, <2>5, <2>21, <3>6
      <4>2. At(i - 1, c1, items[c1].value) = NotRead /\ At(i, c1, items[c1].value) = items[c1].value
        BY <2>5, <4>1, AtReads
      <4>3. Unset(s["count"])
        BY <2>6, <4>1, <4>2 DEF Unset
      <4>4. t["count"] = items[c1].value
        BY <2>2, <2>21, <4>1, <4>3, ReadSize DEF item
      <4>5. ~(one <= i)
        BY <2>5, <3>6
      <4> QED BY <3>3, <3>5, <4>2, <4>4, <4>5
    <3>7. CASE one <= i /\ i < two
      <4>1. i = c2 /\ one <= i - 1 /\ i - 1 < two
        BY <2>4, <2>5, <2>21, <3>4, <3>7
      <4>2. At(i - 1, c2, items[c2].value) = NotRead /\ At(i, c2, items[c2].value) = items[c2].value
        BY <2>5, <4>1, AtReads
      <4>3. Unset(s["count"])
        BY <2>6, <4>1, <4>2 DEF Unset
      <4>4. t["count"] = items[c2].value
        BY <2>2, <2>21, <4>1, <4>3, ReadSize DEF item
      <4>5. ~(i < one)
        BY <2>5, <3>7
      <4> QED BY <3>3, <3>5, <4>2, <4>4, <4>5
    <3>8. CASE ~(i < one) /\ ~(one <= i /\ i < two)
      BY <3>3, <3>5, <3>8
    <3> QED BY <2>5, <3>6, <3>7, <3>8
  <2>22. CASE s.remaining # 0 /\ item.key = "size"
    <3>1. item.key # "usage_page" /\ item.key # "usage" /\ item.key # K1 /\ item.key # K2 /\ item.key # "count"
      BY <2>15, <2>22
    <3>2. t.count = s.count /\ t.remaining = s.remaining
      BY <2>2, <2>22, ReadSize DEF FieldNames
    <3>3. Told(i, t) /\ Left(i, t)
      BY <2>6, <2>9, <2>10, <2>11, <2>12, <3>1, <3>2
    <3>4. i # one
      BY <2>3, <3>1
    <3>5. Counted(i, t)
      BY <2>13, <3>1, <3>2, <3>4
    <3>6. CASE i < one
      <4>1. i = z1 /\ i - 1 < one
        BY <2>4, <2>5, <2>22, <3>6
      <4>2. At(i - 1, z1, items[z1].value) = NotRead /\ At(i, z1, items[z1].value) = items[z1].value
        BY <2>5, <4>1, AtReads
      <4>3. Unset(s["size"])
        BY <2>6, <4>1, <4>2 DEF Unset
      <4>4. t["size"] = items[z1].value
        BY <2>2, <2>22, <4>1, <4>3, ReadSize DEF item
      <4>5. ~(one <= i)
        BY <2>5, <3>6
      <4> QED BY <3>3, <3>5, <4>2, <4>4, <4>5
    <3>7. CASE one <= i /\ i < two
      <4>1. i = z2 /\ one <= i - 1 /\ i - 1 < two
        BY <2>4, <2>5, <2>22, <3>4, <3>7
      <4>2. At(i - 1, z2, items[z2].value) = NotRead /\ At(i, z2, items[z2].value) = items[z2].value
        BY <2>5, <4>1, AtReads
      <4>3. Unset(s["size"])
        BY <2>6, <4>1, <4>2 DEF Unset
      <4>4. t["size"] = items[z2].value
        BY <2>2, <2>22, <4>1, <4>3, ReadSize DEF item
      <4>5. ~(i < one)
        BY <2>5, <3>7
      <4> QED BY <3>3, <3>5, <4>2, <4>4, <4>5
    <3>8. CASE ~(i < one) /\ ~(one <= i /\ i < two)
      BY <3>3, <3>5, <3>8
    <3> QED BY <2>5, <3>6, <3>7, <3>8
  <2>23. CASE item.key \notin {"usage_page", "usage", "count", "size", "input", "output"}
    <3>1. t = s
      BY <2>2, <2>23, ReadOther
    <3>2. item.key # "usage_page" /\ item.key # "usage" /\ item.key # K1 /\ item.key # K2
          /\ item.key # "count" /\ item.key # "size"
      BY <2>15, <2>23
    <3>3. Told(i, t) /\ Left(i, t)
      BY <2>6, <2>9, <2>10, <2>11, <2>12, <3>1, <3>2
    <3>4. i # one
      BY <2>3, <3>2
    <3> QED BY <2>13, <2>14, <3>1, <3>2, <3>3, <3>4
  <2>24. item.key \in {K1, K2} <=> item.key \in {"input", "output"}
    BY <2>15
  <2> QED BY <2>16, <2>17, <2>18, <2>19, <2>20, <2>21, <2>22, <2>23, <2>24
<1>7. W = {}
  <2> HIDE DEF Q
  <2>1. SUFFICES ASSUME W # {} PROVE FALSE
    OBVIOUS
  <2>2. PICK m \in W : \A k \in W : m <= k
    <3>1. W \in SUBSET Nat
      BY <1>1
    <3> HIDE DEF W
    <3> QED BY <2>1, <3>1, LeastNumber
  <2>3. m \in 0..n /\ ~Q(m, f[m])
    BY <2>2
  <2>4. m \in 1..n /\ m - 1 \in 0..n
    BY <1>1, <1>5, <2>3
  <2>5. m - 1 \notin W
    <3> HIDE DEF W
    <3> QED BY <1>1, <2>2, <2>4
  <2> QED BY <1>6, <2>3, <2>4, <2>5
<1>8. Q(n, f[n])
  <2> HIDE DEF Q
  <2> QED BY <1>1, <1>7
<1>9. ~(n < p) /\ ~(n < u) /\ ~(n < one) /\ ~(n < two)
  <2>1. /\ one \in 1..n /\ two \in 1..n /\ p \in 1..n /\ u \in 1..n
    BY <1>0 DEF n
  <2> QED BY <1>1, <2>1
<1>10. /\ f[n].usage_page = 1 /\ f[n].usage = 1 /\ f[n].remaining = 0
       /\ f[n][K1] = A /\ f[n][K2] = B
  BY <1>8, <1>9 DEF At, Ahead
<1> QED BY <1>10 DEF A, B, n, f

LEMMA LastIs ==
  ASSUME NEW items, NEW key, NEW at \in Nat, NEW c \in 1..(at - 1), items[c].key = key,
         \A j \in 1..(at - 1) : items[j].key = key => j <= c
  PROVE  LastStated(items, key, at) = items[c].value
<1> DEFINE T == Stated(items, key, 1, at - 1)
           m == Max(T)
           N == at - 1
<1>1. T = {j \in 1..N : items[j].key = key}
  BY DEF Stated
<1>2. N \in Nat
  OBVIOUS
<1>3. LastStated(items, key, at) = IF T = {} THEN 0 ELSE items[m].value
  BY DEF LastStated
<1>4. c \in 1..N /\ items[c].key = key /\ \A j \in 1..N : items[j].key = key => j <= c
  OBVIOUS
<1> HIDE DEF T, N
<1>5. c \in T /\ T \in SUBSET (1..N) /\ \A j \in T : j <= c
  BY <1>1, <1>4
<1>6. m \in T /\ \A j \in T : m >= j
  BY <1>2, <1>5, MaxIsGreatest
<1> HIDE DEF m
<1>7. m \in Nat /\ c \in Nat /\ m <= c /\ c <= m
  BY <1>2, <1>5, <1>6
<1>8. m = c
  BY <1>7
<1> QED BY <1>3, <1>5, <1>8

\* When both main items have a count and a size stated before them, they get these,
\* whichever comes first.
LEMMA SizesInOrder ==
  ASSUME NEW items, Readable(items),
         NEW K1 \in {"input", "output"}, NEW K2 \in {"input", "output"}, K1 # K2,
         FirstItem(items, K1) # 0, FirstItem(items, K2) # 0, FirstItem(items, K1) < FirstItem(items, K2),
         FirstItem(items, "usage_page") # 0, items[FirstItem(items, "usage_page")].value = 1,
         FirstItem(items, "usage") # 0, items[FirstItem(items, "usage")].value = 1,
         Restated(items, FirstItem(items, K1), FirstItem(items, K2))
  PROVE  /\ Reading(items)[Len(items)].usage_page = 1 /\ Reading(items)[Len(items)].usage = 1
         /\ Reading(items)[Len(items)].remaining = 0
         /\ Reading(items)[Len(items)][K1] = SizeStated(items, K1)
         /\ Reading(items)[Len(items)][K2] = SizeStated(items, K2)
<1> DEFINE n == Len(items)
           one == FirstItem(items, K1)
           two == FirstItem(items, K2)
           p == FirstItem(items, "usage_page")
           u == FirstItem(items, "usage")
<1>1. n \in Nat
  BY ReadingIsBuilt
<1>2. ASSUME NEW key, FirstItem(items, key) # 0
      PROVE  IsFirst(items, key, FirstItem(items, key))
  BY <1>2, FirstItemIsFirst DEF IsFirst
<1>3. /\ IsFirst(items, K1, one) /\ IsFirst(items, K2, two)
      /\ IsFirst(items, "usage_page", p) /\ IsFirst(items, "usage", u)
  BY <1>2
<1>4. ASSUME NEW key, NEW lo, NEW hi, StatedOnce(items, key, lo, hi)
      PROVE  \E c : IsOnce(items, key, lo, hi, c)
  <2>1. PICK c \in lo..hi : Stated(items, key, lo, hi) = {c}
    BY <1>4 DEF StatedOnce
  <2>2. \A j \in lo..hi : items[j].key = key <=> j = c
    BY <2>1 DEF Stated
  <2> QED BY <2>2 DEF IsOnce
<1>5. /\ StatedOnce(items, "count", 1, one) /\ StatedOnce(items, "size", 1, one)
      /\ StatedOnce(items, "count", one, two) /\ StatedOnce(items, "size", one, two)
  BY DEF Restated
<1>6. one < two /\ items[p].value = 1 /\ items[u].value = 1
  OBVIOUS
<1>7. one \in 1..n /\ two \in 1..n /\ p \in 1..n /\ u \in 1..n
      /\ items[one].key = K1 /\ items[two].key = K2
  BY <1>3 DEF IsFirst
<1>8. PICK c1 : IsOnce(items, "count", 1, one, c1)
  BY <1>4, <1>5
<1>9. PICK z1 : IsOnce(items, "size", 1, one, z1)
  BY <1>4, <1>5
<1>10. PICK c2 : IsOnce(items, "count", one, two, c2)
  BY <1>4, <1>5
<1>11. PICK z2 : IsOnce(items, "size", one, two, z2)
  BY <1>4, <1>5
<1>12. /\ SizeStated(items, K1) = (LastStated(items, "count", one) * LastStated(items, "size", one)) \div 8
       /\ SizeStated(items, K2) = (LastStated(items, "count", two) * LastStated(items, "size", two)) \div 8
  BY DEF SizeStated
<1>13. K1 \notin {"count", "size"} /\ K2 \notin {"count", "size"}
  OBVIOUS
<1> HIDE DEF one, two, p, u, n
<1>14. ASSUME NEW key \in {"count", "size"}, NEW c, NEW d,
              IsOnce(items, key, 1, one, c), IsOnce(items, key, one, two, d)
       PROVE  /\ LastStated(items, key, one) = items[c].value
              /\ LastStated(items, key, two) = items[d].value
  <2>1. c \in 1..one /\ items[c].key = key /\ \A j \in 1..one : items[j].key = key => j = c
    BY <1>14 DEF IsOnce
  <2>2. d \in one..two /\ items[d].key = key /\ \A j \in one..two : items[j].key = key => j = d
    BY <1>14 DEF IsOnce
  <2>3. c # one /\ d # one /\ d # two
    BY <1>7, <1>13, <2>1, <2>2
  <2>4. one \in Nat /\ two \in Nat /\ c \in 1..(one - 1)
    BY <1>1, <1>7, <2>1, <2>3
  <2>5. d \in 1..(two - 1) /\ one < d
    BY <1>1, <1>7, <2>2, <2>3
  <2>6. \A j \in 1..(one - 1) : items[j].key = key => j <= c
    <3>1. ASSUME NEW j \in 1..(one - 1), items[j].key = key
          PROVE  j <= c
      <4>1. j \in 1..one
        BY <2>4
      <4>2. j = c
        BY <2>1, <3>1, <4>1
      <4> QED BY <2>4, <4>2
    <3> QED BY <3>1
  <2>7. \A j \in 1..(two - 1) : items[j].key = key => j <= d
    <3>1. ASSUME NEW j \in 1..(two - 1), items[j].key = key
          PROVE  j <= d
      <4>1. CASE j < one
        BY <2>4, <2>5, <4>1
      <4>2. CASE one <= j
        <5>1. j \in one..two
          BY <2>4, <4>2
        <5>2. j = d
          BY <2>2, <3>1, <5>1
        <5> QED BY <2>4, <5>2
      <4> QED BY <2>4, <4>1, <4>2
    <3> QED BY <3>1
  <2>8. LastStated(items, key, one) = items[c].value
    BY <2>1, <2>4, <2>6, LastIs
  <2>9. LastStated(items, key, two) = items[d].value
    BY <2>2, <2>4, <2>5, <2>7, LastIs
  <2> QED BY <2>8, <2>9
<1>15. /\ LastStated(items, "count", one) = items[c1].value /\ LastStated(items, "size", one) = items[z1].value
       /\ LastStated(items, "count", two) = items[c2].value /\ LastStated(items, "size", two) = items[z2].value
  BY <1>8, <1>9, <1>10, <1>11, <1>14
<1>16. /\ Reading(items)[Len(items)].usage_page = 1 /\ Reading(items)[Len(items)].usage = 1
       /\ Reading(items)[Len(items)].remaining = 0
       /\ Reading(items)[Len(items)][K1] = (items[c1].value * items[z1].value) \div 8
       /\ Reading(items)[Len(items)][K2] = (items[c2].value * items[z2].value) \div 8
  <2>1. Laid(items, K1, K2, p, u, one, two, c1, z1, c2, z2)
    BY <1>3, <1>6, <1>8, <1>9, <1>10, <1>11 DEF Laid
  <2> QED BY <2>1, SizesOnTheWay
<1> QED BY <1>12, <1>15, <1>16

\* Both promises of SizesAreStated, for a descriptor of any length.
LEMMA DescriptorIsRead ==
  ASSUME NEW items, Readable(items)
  PROVE  SizesAreStated(items)
<1> DEFINE s == Reading(items)[Len(items)]
           r == ParseReportDescriptor(items)
           in == FirstItem(items, "input")
           out == FirstItem(items, "output")
           Fit == /\ in # 0 /\ out # 0
                  /\ IF in < out THEN Restated(items, in, out) ELSE Restated(items, out, in)
                  /\ \A key \in {"usage_page", "usage"} :
                       FirstItem(items, key) # 0 /\ items[FirstItem(items, key)].value = 1
           sizes == [input |-> SizeStated(items, "input"), output |-> SizeStated(items, "output")]
<1>1. r = IF s.remaining = 0 /\ s.usage_page = 1 /\ s.usage = 1
          THEN [input |-> s.input, output |-> s.output] ELSE NotFido
  BY DEF ParseReportDescriptor
<1>2. ASSUME r # NotFido
      PROVE  OfFido(items)
  <2>1. s.usage_page = 1 /\ s.usage = 1
    BY <1>1, <1>2
  <2>2. ASSUME NEW key \in {"usage_page", "usage"}
        PROVE  Telling(items, key) # {} /\ items[Min(Telling(items, key))].value = 1
    <3>1. s[key] = 1
      BY <2>1
    <3> QED BY <3>1, UsageIsFirst
  <2> QED BY <2>2 DEF OfFido
<1>3. ASSUME Fit
      PROVE  r = sizes
  <2>1. /\ in # 0 /\ out # 0
        /\ FirstItem(items, "usage_page") # 0 /\ items[FirstItem(items, "usage_page")].value = 1
        /\ FirstItem(items, "usage") # 0 /\ items[FirstItem(items, "usage")].value = 1
    BY <1>3
  <2>2. /\ in \in Nat /\ out \in Nat
        /\ items[in].key = "input" /\ items[out].key = "output"
    <3>1. Len(items) \in Nat
      BY ReadingIsBuilt
    <3>2. in \in 1..Len(items) /\ items[in].key = "input"
      BY <2>1, FirstItemIsFirst
    <3>3. out \in 1..Len(items) /\ items[out].key = "output"
      BY <2>1, FirstItemIsFirst
    <3> QED BY <3>1, <3>2, <3>3
  <2>3. in # out
    BY <2>2
  <2>4. /\ s.usage_page = 1 /\ s.usage = 1 /\ s.remaining = 0
        /\ s["input"] = SizeStated(items, "input") /\ s["output"] = SizeStated(items, "output")
    <3>1. CASE in < out
      <4>1. Restated(items, in, out)
        BY <1>3, <3>1
      <4> QED BY <2>1, <3>1, <4>1, SizesInOrder
    <3>2. CASE ~(in < out)
      <4>1. Restated(items, out, in)
        BY <1>3, <3>2
      <4>2. out < in
        BY <2>2, <2>3, <3>2
      <4> QED BY <2>1, <4>1, <4>2, SizesInOrder
    <3> QED BY <3>1, <3>2
  <2> HIDE DEF s, r
  <2> QED BY <1>1, <2>4
<1> QED BY <1>2, <1>3 DEF SizesAreStated

-------------------------------------------------------------------------------
(* The theorems                                                            *)

\* The input of a behaviour is one that can be given.
InputIsGiven == input.part = "none" \/ WellFormed(input)

\* Whatever input is taken is one that callers, authenticators and servers can give.
THEOREM InputsAreGiven == Spec => []InputIsGiven
<1>1. Init => InputIsGiven
  BY DEF Init, InputIsGiven
<1>2. InputIsGiven /\ [Next]_input => InputIsGiven'
  <2> SUFFICES ASSUME InputIsGiven, [Next]_input PROVE InputIsGiven'
    OBVIOUS
  <2>1. CASE UNCHANGED input
    BY <2>1 DEF InputIsGiven, WellFormed
  <2>2. CASE Next
    <3>1. PICK n \in DOMAIN Inputs : \E i \in Inputs[n] : input' = i
      BY <2>2 DEF Next
    <3>2. WellFormed(input')
      BY <3>1, InputsAssumption
    <3> QED BY <3>2 DEF InputIsGiven, WellFormed
  <2> QED BY <2>1, <2>2
<1> QED BY <1>1, <1>2, PTL DEF Spec

\* An RP ID is accepted only for a secure origin whose labels it is the last of, and
\* a public suffix only for itself; a default RP ID is accepted but for the port
\* (rpid.py), for names of any length and every list of suffixes.
THEOREM RpIdsOfOrigins == Spec => []RpIdIsScoped
<1>1. InputIsGiven => RpIdIsScoped
  <2> SUFFICES ASSUME InputIsGiven, Of("rpId") PROVE Scoped(input.x.rpId, input.x.origin)
    BY DEF RpIdIsScoped
  <2>1. Sequence(input.x.rpId) /\ Sequence(input.x.origin.host) /\ Sequence(input.x.origin.port)
    BY DEF InputIsGiven, WellFormed, Of
  <2> QED BY <2>1, RpIdsAreScoped
<1> QED BY <1>1, InputsAreGiven, PTL

\* A HID device is taken for one of FIDO only by its first usage and usage page, and
\* the sizes of its reports are those its descriptor states before each of them
\* (parse_report_descriptor of hid/base.py), for descriptors of any length.
THEOREM DescriptorsOfFido == Spec => []DescriptorsAreRead
<1>1. InputIsGiven => DescriptorsAreRead
  <2> SUFFICES ASSUME InputIsGiven, Of("descriptor") PROVE SizesAreStated(input.x)
    BY DEF DescriptorsAreRead
  <2>1. Readable(input.x)
    BY DEF InputIsGiven, WellFormed, Of, Readable
  <2> QED BY <2>1, DescriptorIsRead
<1> QED BY <1>1, InputsAreGiven, PTL

\* The outputs of extensions are those of the credential and of the inputs meant for
\* it, and the native API is asked for what the caller asked for
\* (ctap2/extensions.py, client/windows.py, win_api.py), for all options, secrets and
\* credentials, and in every version of the API.
THEOREM HonestOptions == Spec => []OptionsAreHonest
<1>1. InputIsGiven => OptionsAreHonest
  <2> SUFFICES ASSUME InputIsGiven PROVE OptionsAreHonest
    OBVIOUS
  <2> DEFINE x == input.x
  <2>1. Of("registration") => RegistrationIsHonest(x.o, x.info)
    BY RegistrationsAreHonest
  <2>2. ASSUME Of("assertion")
        PROVE  AssertionIsHonest(x.o, x.info, x.pin, x.selected, x.cred, x.hasKey)
    <3>1. x.cred \in Creds /\ x.selected = IF x.o.allow = {} THEN None ELSE x.cred
      BY <2>2 DEF InputIsGiven, WellFormed, Of
    <3> QED BY <3>1, AssertionsAreHonest
  <2>3. ASSUME Of("nativeMake")
        PROVE  NativeMakesAsAsked(x.o, x.api, x.capable)
    <3>1. x.api \in Nat \ {0}
      BY <2>3 DEF InputIsGiven, WellFormed, Of
    <3> QED BY <3>1, NativeMakesAreAsAsked
  <2>4. ASSUME Of("nativeGet")
        PROVE  NativeGetsAsAsked(x.o, x.api, x.cred)
    <3>1. x.api \in Nat \ {0} /\ (x.o.prf = None \/ HasInputs(x.o.prf))
      BY <2>4 DEF InputIsGiven, WellFormed, Of
    <3> QED BY <3>1, NativeGetsAreAsAsked
  <2> QED BY <2>1, <2>2, <2>3, <2>4 DEF OptionsAreHonest
<1> QED BY <1>1, InputsAreGiven, PTL

\* A metadata entry is found only for an attestation of its model that is vouched for
\* up to one of its roots and that no report speaks against, the one entry there is
\* is found, and a verified blob is signed under the trust root (attestation/ and
\* mds3.py), for tables and paths of any length.
THEOREM TrustedMetadata == Spec => []AcceptedIsTrusted
<1>1. InputIsGiven => AcceptedIsTrusted
  <2> SUFFICES ASSUME InputIsGiven PROVE AcceptedIsTrusted
    OBVIOUS
  <2> DEFINE x == input.x
  <2>1. ASSUME Of("attestation")
        PROVE  /\ EntryIsTrusted(x.s, x.auth, x.cdh, x.blob, x.filters)
               /\ TrustedIsFound(x.s, x.auth, x.cdh, x.blob, x.filters)
    <3>1. Sequence(x.s.x5c) /\ Sequence(x.blob) /\ \A n \in DOMAIN x.blob : Sequence(x.blob[n].roots)
      BY <2>1 DEF InputIsGiven, WellFormed, Of
    <3> QED BY <3>1, EntriesAreTrusted, TrustedAreFound
  <2>2. ASSUME Of("blob")
        PROVE  BlobIsSigned(x.b, x.root)
    <3>1. Sequence(x.b.x5c) /\ Sequence(x.root)
      BY <2>2 DEF InputIsGiven, WellFormed, Of
    <3> QED BY <3>1, BlobsAreSigned
  <2> QED BY <2>1, <2>2, Zenon DEF AcceptedIsTrusted
<1> QED BY <1>1, InputsAreGiven, PTL
=============================================================================
