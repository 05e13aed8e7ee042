------------------------------ MODULE SeqFacts ------------------------------
(***************************************************************************)
(* Facts about sequences whose elements have no type: the frames of a page *)
(* and the events of a stream are records of many shapes.                  *)
(***************************************************************************)
EXTENDS Integers, Sequences, SequencesExt, SequenceTheorems, TLAPS

IsSeq(s) == \E S : s \in Seq(S)

LEMMA SeqAppend ==
  ASSUME NEW s, IsSeq(s), NEW e
  PROVE  /\ IsSeq(Append(s, e))
         /\ Len(s) \in Nat /\ DOMAIN s = 1 .. Len(s)
         /\ Len(Append(s, e)) = Len(s) + 1 /\ DOMAIN Append(s, e) = 1 .. Len(s) + 1
         /\ \A i \in 1 .. Len(s) : Append(s, e)[i] = s[i]
         /\ Append(s, e)[Len(s) + 1] = e
<1>1. PICK S : s \in Seq(S)
  BY DEF IsSeq
<1>2. s \in Seq(S \cup {e}) /\ e \in S \cup {e}
  BY <1>1
<1>3. Append(s, e) \in Seq(S \cup {e})
  BY <1>2
<1> QED
  BY <1>2, <1>3 DEF IsSeq

LEMMA SeqTail ==
  ASSUME NEW s, IsSeq(s), s # <<>>
  PROVE  /\ IsSeq(Tail(s))
         /\ Len(s) \in Nat \ {0} /\ DOMAIN s = 1 .. Len(s) /\ Head(s) = s[1]
         /\ Len(Tail(s)) = Len(s) - 1 /\ DOMAIN Tail(s) = 1 .. Len(s) - 1
         /\ \A i \in 1 .. Len(s) - 1 : Tail(s)[i] = s[i + 1]
<1>1. PICK S : s \in Seq(S)
  BY DEF IsSeq
<1>2. Tail(s) \in Seq(S)
  BY <1>1
<1> QED
  BY <1>1, <1>2 DEF IsSeq

LEMMA SeqBasics ==
  ASSUME NEW s, IsSeq(s)
  PROVE  /\ Len(s) \in Nat /\ DOMAIN s = 1 .. Len(s)
         /\ s = <<>> <=> Len(s) = 0
<1>1. PICK S : s \in Seq(S)
  BY DEF IsSeq
<1> QED
  BY <1>1

LEMMA SeqEmpty ==
  IsSeq(<<>>) /\ Len(<<>>) = 0
<1>1. <<>> \in Seq({})
  OBVIOUS
<1> QED
  BY <1>1 DEF IsSeq

LEMMA SeqSame ==
  ASSUME NEW s, IsSeq(s), NEW t, IsSeq(t), Len(s) = Len(t), \A i \in 1 .. Len(s) : s[i] = t[i]
  PROVE  s = t
<1>1. PICK S : s \in Seq(S)
  BY DEF IsSeq
<1>2. PICK T : t \in Seq(T)
  BY DEF IsSeq
<1>3. s \in Seq(S \cup T) /\ t \in Seq(S \cup T)
  BY <1>1, <1>2
<1> QED
  BY <1>3, SeqEqual

LEMMA SeqConcat ==
  ASSUME NEW s, IsSeq(s), NEW t, IsSeq(t)
  PROVE  /\ IsSeq(s \o t) /\ Len(s \o t) = Len(s) + Len(t)
         /\ \A i \in 1 .. Len(s) : (s \o t)[i] = s[i]
         /\ \A i \in 1 .. Len(t) : (s \o t)[Len(s) + i] = t[i]
<1>1. PICK S : s \in Seq(S)
  BY DEF IsSeq
<1>2. PICK T : t \in Seq(T)
  BY DEF IsSeq
<1>3. s \in Seq(S \cup T) /\ t \in Seq(S \cup T)
  BY <1>1, <1>2
<1>4. s \o t \in Seq(S \cup T)
  BY <1>3
<1> QED
  BY <1>3, <1>4 DEF IsSeq

LEMMA SeqSub ==
  ASSUME NEW s, IsSeq(s), NEW m \in 1 .. Len(s) + 1, NEW n \in 0 .. Len(s), m <= n + 1
  PROVE  /\ IsSeq(SubSeq(s, m, n)) /\ Len(SubSeq(s, m, n)) = n - m + 1
         /\ \A i \in 1 .. n - m + 1 : SubSeq(s, m, n)[i] = s[m + i - 1]
<1>1. PICK S : s \in Seq(S)
  BY DEF IsSeq
<1>2. Len(s) \in Nat
  BY <1>1
<1>3. m \in Int /\ n \in Int /\ \A i \in m .. n : s[i] \in S
  BY <1>1, <1>2
<1>4. /\ SubSeq(s, m, n) \in Seq(S)
      /\ Len(SubSeq(s, m, n)) = IF m <= n THEN n - m + 1 ELSE 0
      /\ \A i \in 1 .. n - m + 1 : SubSeq(s, m, n)[i] = s[m + i - 1]
  BY <1>3, SubSeqProperties
<1>5. (IF m <= n THEN n - m + 1 ELSE 0) = n - m + 1
  BY <1>2
<1> QED
  BY <1>4, <1>5 DEF IsSeq

\* Concatenation under a name of its own, for facts that the provers cannot
\* instantiate otherwise.
Cat(s, t) == s \o t

LEMMA ConcatGrows ==
  ASSUME NEW r, IsSeq(r), NEW s, IsSeq(s), NEW t, IsSeq(t), NEW x, Cat(r, s) = x,
         NEW u, u = Cat(s, t)
  PROVE  Cat(r, u) = Cat(x, t)
<1>1. PICK R : r \in Seq(R)
  BY DEF IsSeq
<1>2. PICK S : s \in Seq(S)
  BY DEF IsSeq
<1>3. PICK T : t \in Seq(T)
  BY DEF IsSeq
<1> DEFINE U == R \cup S \cup T
<1>4. r \in Seq(U) /\ s \in Seq(U) /\ t \in Seq(U)
  BY <1>1, <1>2, <1>3
<1> HIDE DEF U
<1>5. (r \o s) \o t = r \o (s \o t)
  BY <1>4, ConcatAssociative
<1>6. r \o s = x /\ u = s \o t
  BY DEF Cat
<1>7. r \o u = x \o t
  BY ONLY <1>5, <1>6, Zenon
<1> QED
  BY <1>7 DEF Cat

LEMMA ConcatNothing ==
  ASSUME NEW s, IsSeq(s)
  PROVE  s \o <<>> = s /\ <<>> \o s = s
BY DEF IsSeq

\* The first of t becomes the last of s.
LEMMA ConcatShift ==
  ASSUME NEW s, IsSeq(s), NEW t, IsSeq(t), t # <<>>
  PROVE  Append(s, Head(t)) \o Tail(t) = s \o t
<1> DEFINE a == Append(s, Head(t))
           b == Tail(t)
<1>1. /\ IsSeq(a) /\ Len(s) \in Nat /\ Len(a) = Len(s) + 1 /\ a[Len(s) + 1] = t[1]
      /\ \A i \in 1 .. Len(s) : a[i] = s[i]
  BY SeqAppend, SeqTail
<1>2. /\ IsSeq(b) /\ Len(t) \in Nat \ {0} /\ Len(b) = Len(t) - 1
      /\ \A i \in 1 .. Len(t) - 1 : b[i] = t[i + 1]
  BY SeqTail
<1> HIDE DEF a, b
<1>3. /\ IsSeq(a \o b) /\ Len(a \o b) = Len(s) + Len(t)
      /\ \A i \in 1 .. Len(s) + 1 : (a \o b)[i] = a[i]
      /\ \A i \in 1 .. Len(t) - 1 : (a \o b)[(Len(s) + 1) + i] = b[i]
  <2>1. IsSeq(a) /\ IsSeq(b)
    BY <1>1, <1>2
  <2>2. /\ IsSeq(a \o b) /\ Len(a \o b) = Len(a) + Len(b)
        /\ \A i \in 1 .. Len(a) : (a \o b)[i] = a[i]
        /\ \A i \in 1 .. Len(b) : (a \o b)[Len(a) + i] = b[i]
    BY ONLY <2>1, SeqConcat
  <2>3. Len(a) + Len(b) = Len(s) + Len(t) /\ Len(a) = Len(s) + 1 /\ Len(b) = Len(t) - 1
    BY <1>1, <1>2
  <2> QED
    BY ONLY <2>2, <2>3
<1>4. /\ IsSeq(s \o t) /\ Len(s \o t) = Len(s) + Len(t)
      /\ \A i \in 1 .. Len(s) : (s \o t)[i] = s[i]
      /\ \A i \in 1 .. Len(t) : (s \o t)[Len(s) + i] = t[i]
  BY SeqConcat
<1>5. ASSUME NEW i \in 1 .. Len(s) + Len(t)
      PROVE  (a \o b)[i] = (s \o t)[i]
  <2>1. CASE i <= Len(s)
    <3>1. i \in 1 .. Len(s) /\ i \in 1 .. Len(s) + 1
      BY <1>1, <1>2, <2>1
    <3> QED
      BY <1>1, <1>3, <1>4, <3>1
  <2>2. CASE i = Len(s) + 1
    <3>1. i \in 1 .. Len(s) + 1 /\ 1 \in 1 .. Len(t)
      BY <1>1, <1>2, <2>2
    <3> QED
      BY <1>1, <1>3, <1>4, <2>2, <3>1
  <2>3. CASE i > Len(s) + 1
    <3> DEFINE j == i - Len(s) - 1
    <3>1. /\ j \in 1 .. Len(t) - 1 /\ j + 1 \in 1 .. Len(t)
          /\ i = (Len(s) + 1) + j /\ i = Len(s) + (j + 1)
      BY <1>1, <1>2, <2>3
    <3> HIDE DEF j
    <3>2. (a \o b)[i] = b[j] /\ (s \o t)[i] = t[j + 1] /\ b[j] = t[j + 1]
      BY <1>2, <1>3, <1>4, <3>1
    <3> QED
      BY <3>2
  <2> QED
    BY <1>1, <1>2, <2>1, <2>2, <2>3
<1>6. a \o b = s \o t
  BY <1>3, <1>4, <1>5, SeqSame
<1> QED
  BY <1>6 DEF a, b

\* What has come since s was n long, when t comes.
LEMMA SuffixConcat ==
  ASSUME NEW s, IsSeq(s), NEW t, IsSeq(t), NEW n \in 0 .. Len(s)
  PROVE  SubSeq(s \o t, n + 1, Len(s \o t)) = SubSeq(s, n + 1, Len(s)) \o t
<1> DEFINE u == s \o t
           v == SubSeq(s, n + 1, Len(s))
           a == SubSeq(u, n + 1, Len(u))
           b == v \o t
<1>1. Len(s) \in Nat /\ Len(t) \in Nat
  BY SeqBasics
<1>2. /\ IsSeq(u) /\ Len(u) = Len(s) + Len(t)
      /\ \A i \in 1 .. Len(s) : u[i] = s[i]
      /\ \A i \in 1 .. Len(t) : u[Len(s) + i] = t[i]
  BY SeqConcat
<1> HIDE DEF u
<1>3. n + 1 \in 1 .. Len(s) + 1 /\ Len(s) \in 0 .. Len(s) /\ n + 1 <= Len(s) + 1
  BY <1>1
<1>4. /\ IsSeq(v) /\ Len(v) = Len(s) - (n + 1) + 1
      /\ \A i \in 1 .. Len(s) - (n + 1) + 1 : v[i] = s[(n + 1) + i - 1]
  BY <1>3, SeqSub
<1>5. n + 1 \in 1 .. Len(u) + 1 /\ Len(u) \in 0 .. Len(u) /\ n + 1 <= Len(u) + 1
  BY <1>1, <1>2
<1>6. /\ IsSeq(a) /\ Len(a) = Len(u) - (n + 1) + 1
      /\ \A i \in 1 .. Len(u) - (n + 1) + 1 : a[i] = u[(n + 1) + i - 1]
  BY <1>2, <1>5, SeqSub
<1> HIDE DEF v, a
<1>7. /\ IsSeq(b) /\ Len(b) = Len(v) + Len(t)
      /\ \A i \in 1 .. Len(v) : b[i] = v[i]
      /\ \A i \in 1 .. Len(t) : b[Len(v) + i] = t[i]
  <2>1. IsSeq(v)
    BY <1>4
  <2> QED
    BY ONLY <2>1, IsSeq(t), SeqConcat
<1> HIDE DEF b
<1>8. Len(a) = Len(s) + Len(t) - n /\ Len(b) = Len(a) /\ Len(v) = Len(s) - n
  BY <1>1, <1>2, <1>4, <1>6, <1>7
<1>9. ASSUME NEW i \in 1 .. Len(a)
      PROVE  a[i] = b[i]
  <2>1. a[i] = u[n + i]
    <3>1. i \in 1 .. Len(u) - (n + 1) + 1 /\ (n + 1) + i - 1 = n + i
      BY <1>1, <1>2, <1>8
    <3> QED
      BY <1>6, <3>1
  <2>2. CASE i <= Len(v)
    <3>1. /\ i \in 1 .. Len(v) /\ i \in 1 .. Len(s) - (n + 1) + 1 /\ (n + 1) + i - 1 = n + i
          /\ n + i \in 1 .. Len(s)
      BY <1>1, <1>8, <2>2
    <3> QED
      BY <1>2, <1>4, <1>7, <2>1, <3>1
  <2>3. CASE i > Len(v)
    <3> DEFINE j == i - Len(v)
    <3>1. j \in 1 .. Len(t) /\ i = Len(v) + j /\ n + i = Len(s) + j
      BY <1>1, <1>8, <2>3
    <3> HIDE DEF j
    <3> QED
      BY <1>2, <1>7, <2>1, <3>1
  <2> QED
    BY <1>1, <1>8, <2>2, <2>3
<1>10. a = b
  BY <1>6, <1>7, <1>8, <1>9, SeqSame
<1> QED
  BY <1>10 DEF a, b, u, v

LEMMA PrefixMeaning ==
  ASSUME NEW s, IsSeq(s), NEW t, IsSeq(t)
  PROVE  IsPrefix(s, t) <=> Len(s) <= Len(t) /\ \A i \in 1 .. Len(s) : s[i] = t[i]
<1>1. Len(s) \in Nat /\ Len(t) \in Nat
  BY SeqBasics
<1>2. ASSUME Len(s) <= Len(t)
      PROVE  SubSeq(s, 1, Len(s)) = SubSeq(t, 1, Len(s)) <=> \A i \in 1 .. Len(s) : s[i] = t[i]
  <2> DEFINE a == SubSeq(s, 1, Len(s))
             b == SubSeq(t, 1, Len(s))
  <2>1. IsSeq(a) /\ Len(a) = Len(s) /\ \A i \in 1 .. Len(s) : a[i] = s[i]
    <3>1. /\ 1 \in 1 .. Len(s) + 1 /\ Len(s) \in 0 .. Len(s) /\ 1 <= Len(s) + 1
          /\ Len(s) - 1 + 1 = Len(s) /\ \A i \in 1 .. Len(s) : 1 + i - 1 = i
      BY <1>1
    <3> QED
      BY <3>1, SeqSub
  <2>2. IsSeq(b) /\ Len(b) = Len(s) /\ \A i \in 1 .. Len(s) : b[i] = t[i]
    <3>1. /\ 1 \in 1 .. Len(t) + 1 /\ Len(s) \in 0 .. Len(t) /\ 1 <= Len(s) + 1
          /\ Len(s) - 1 + 1 = Len(s) /\ \A i \in 1 .. Len(s) : 1 + i - 1 = i
      BY <1>1, <1>2
    <3> QED
      BY <3>1, SeqSub
  <2> HIDE DEF a, b
  <2>3. a = b <=> \A i \in 1 .. Len(s) : s[i] = t[i]
    BY <2>1, <2>2, SeqSame
  <2> QED
    BY <2>3 DEF a, b
<1> QED
  BY <1>2 DEF IsPrefix

LEMMA PrefixOfConcat ==
  ASSUME NEW r, IsSeq(r), NEW s, IsSeq(s), NEW t, IsSeq(t)
  PROVE  /\ IsPrefix(s, s \o t)
         /\ IsPrefix(r, s) => IsPrefix(r, s \o t)
<1>1. /\ IsSeq(s \o t) /\ Len(s \o t) = Len(s) + Len(t)
      /\ \A i \in 1 .. Len(s) : (s \o t)[i] = s[i]
  BY SeqConcat
<1>2. Len(r) \in Nat /\ Len(s) \in Nat /\ Len(t) \in Nat
  BY SeqBasics
<1>3. IsPrefix(s, s \o t)
  <2>1. Len(s) <= Len(s \o t)
    BY <1>1, <1>2
  <2> QED
    BY <1>1, <2>1, PrefixMeaning
<1>4. ASSUME IsPrefix(r, s)
      PROVE  IsPrefix(r, s \o t)
  <2>1. Len(r) <= Len(s) /\ \A i \in 1 .. Len(r) : r[i] = s[i]
    BY <1>4, PrefixMeaning
  <2>2. Len(r) <= Len(s \o t)
    BY <1>1, <1>2, <2>1
  <2>3. \A i \in 1 .. Len(r) : i \in 1 .. Len(s)
    BY <1>2, <2>1
  <2>4. \A i \in 1 .. Len(r) : r[i] = (s \o t)[i]
    BY <1>1, <2>1, <2>3
  <2> QED
    BY <1>1, <2>2, <2>4, PrefixMeaning
<1> QED
  BY <1>3, <1>4
=============================================================================
