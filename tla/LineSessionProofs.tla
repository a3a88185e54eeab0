------------------------- MODULE LineSessionProofs -------------------------
(***************************************************************************)
(* The framing of LineSession, for any separator and any cutting of the    *)
(* stream: first what FlattenSeq and Framed compute, by induction, then    *)
(* the invariants of iteration().                                          *)
(***************************************************************************)
EXTENDS LineSession, SetInduction

----------------------------------------------------------------------------
(* FlattenSeq. *)

\* f is the function that FlattenSeq builds, up to n.
IsFlat(f, ss, n) ==
  f = [j \in 1 .. n |-> IF j = 1 THEN ss[j] ELSE f[j - 1] \o ss[j]]

LEMMA FlatAt ==
  ASSUME NEW f, NEW ss, NEW n \in Nat, IsFlat(f, ss, n), NEW j \in Nat, j + 1 \in 1 .. n
  PROVE  f[j + 1] = IF j = 0 THEN ss[j + 1] ELSE f[j] \o ss[j + 1]
  <1> DEFINE e(k) == IF k = 1 THEN ss[k] ELSE f[k - 1] \o ss[k]
  <1>1. f = [k \in 1 .. n |-> e(k)]
    BY DEF IsFlat
  <1>2. f[j + 1] = e(j + 1)
    <2> HIDE DEF e
    <2> QED
      BY <1>1
  <1>3. (j + 1) - 1 = j /\ (j + 1 = 1 <=> j = 0)
    OBVIOUS
  <1> QED
    BY <1>2, <1>3

LEMMA FlatExists == \A ss : \A n \in Nat : \E f : IsFlat(f, ss, n)
  <1> TAKE ss
  <1> DEFINE T == {n \in Nat : \E f : IsFlat(f, ss, n)}
  <1>1. 0 \in T
    <2> DEFINE f == [j \in 1 .. 0 |-> ss[j]]
    <2>1. IsFlat(f, ss, 0)
      BY DEF IsFlat
    <2> QED
      BY <2>1
  <1>2. ASSUME NEW n \in Nat, n \in T PROVE n + 1 \in T
    <2>1. PICK f : IsFlat(f, ss, n)
      BY <1>2
    <2> DEFINE g == [j \in 1 .. n + 1 |->
                       IF j = n + 1 THEN (IF j = 1 THEN ss[j] ELSE f[n] \o ss[j])
                                    ELSE f[j]]
    <2>2. ASSUME NEW j \in 1 .. n + 1
          PROVE  g[j] = IF j = 1 THEN ss[j] ELSE g[j - 1] \o ss[j]
      <3>1. CASE j = n + 1
        <4>1. g[j] = IF j = 1 THEN ss[j] ELSE f[n] \o ss[j]
          BY <3>1
        <4>2. j # 1 => g[j - 1] = f[n]
          BY <3>1
        <4> QED
          BY <4>1, <4>2
      <3>2. CASE j \in 1 .. n
        <4>1. g[j] = f[j] /\ (j # 1 => g[j - 1] = f[j - 1])
          BY <3>2
        <4>2. j - 1 \in Nat /\ (j - 1) + 1 = j /\ (j - 1 = 0 <=> j = 1)
          BY <3>2
        <4>3. f[j] = IF j = 1 THEN ss[j] ELSE f[j - 1] \o ss[j]
          BY <2>1, <3>2, <4>2, FlatAt
        <4> QED
          BY <4>1, <4>3
      <3> QED
        BY <3>1, <3>2
    <2>3. IsFlat(g, ss, n + 1)
      BY <2>2 DEF IsFlat
    <2> QED
      BY <2>3
  <1> HIDE DEF T
  <1>3. Nat \subseteq T
    BY <1>1, <1>2, NatSetInduction
  <1> QED
    BY <1>3 DEF T

\* What f is at j depends on the first j sequences only.
LEMMA FlatUnique ==
  ASSUME NEW f, NEW g, NEW ss, NEW tt, NEW n \in Nat, NEW m \in Nat, n <= m,
         IsFlat(f, ss, n), IsFlat(g, tt, m), \A j \in 1 .. n : ss[j] = tt[j]
  PROVE  \A j \in 1 .. n : f[j] = g[j]
  <1> DEFINE T == {j \in Nat : j \in 1 .. n => f[j] = g[j]}
  <1>1. 0 \in T
    OBVIOUS
  <1>2. ASSUME NEW j \in Nat, j \in T PROVE j + 1 \in T
    <2> SUFFICES ASSUME j + 1 \in 1 .. n PROVE f[j + 1] = g[j + 1]
      OBVIOUS
    <2>1. f[j + 1] = IF j = 0 THEN ss[j + 1] ELSE f[j] \o ss[j + 1]
      BY FlatAt
    <2>3. j + 1 \in 1 .. m
      OBVIOUS
    <2>4. g[j + 1] = IF j = 0 THEN tt[j + 1] ELSE g[j] \o tt[j + 1]
      BY <2>3, FlatAt
    <2>2. j # 0 => f[j] = g[j]
      BY <1>2
    <2> QED
      BY <2>1, <2>2, <2>4
  <1> HIDE DEF T
  <1>3. Nat \subseteq T
    BY <1>1, <1>2, NatSetInduction
  <1> QED
    BY <1>3 DEF T

LEMMA FlatType ==
  ASSUME NEW S, NEW f, NEW ss, NEW n \in Nat, IsFlat(f, ss, n),
         \A j \in 1 .. n : ss[j] \in Seq(S)
  PROVE  \A j \in 1 .. n : f[j] \in Seq(S)
  <1> DEFINE T == {j \in Nat : j \in 1 .. n => f[j] \in Seq(S)}
  <1>1. 0 \in T
    OBVIOUS
  <1>2. ASSUME NEW j \in Nat, j \in T PROVE j + 1 \in T
    <2> SUFFICES ASSUME j + 1 \in 1 .. n PROVE f[j + 1] \in Seq(S)
      OBVIOUS
    <2>1. f[j + 1] = IF j = 0 THEN ss[j + 1] ELSE f[j] \o ss[j + 1]
      BY FlatAt
    <2>2. j # 0 => f[j] \in Seq(S)
      BY <1>2
    <2> QED
      BY <2>1, <2>2, ConcatProperties
  <1> HIDE DEF T
  <1>3. Nat \subseteq T
    BY <1>1, <1>2, NatSetInduction
  <1> QED
    BY <1>3 DEF T

LEMMA FlattenIsFlat ==
  ASSUME NEW ss, Len(ss) \in Nat \ {0}
  PROVE  \E f : IsFlat(f, ss, Len(ss)) /\ FlattenSeq(ss) = f[Len(ss)]
  <1>1. PICK g : IsFlat(g, ss, Len(ss))
    BY FlatExists
  <1> QED
    BY <1>1 DEF FlattenSeq, IsFlat

LEMMA FlattenType ==
  ASSUME NEW S, NEW ss \in Seq(Seq(S)) PROVE FlattenSeq(ss) \in Seq(S)
  <1>1. Len(ss) \in Nat /\ \A j \in 1 .. Len(ss) : ss[j] \in Seq(S)
    BY LenProperties, ElementOfSeq
  <1>2. CASE Len(ss) = 0
    <2>1. ss = <<>>
      BY <1>2, EmptySeq
    <2> QED
      BY <1>2, <2>1, EmptySeq DEF FlattenSeq
  <1>3. CASE Len(ss) # 0
    BY <1>1, <1>3, FlattenIsFlat, FlatType
  <1> QED
    BY <1>2, <1>3

LEMMA FlattenAppend ==
  ASSUME NEW S, NEW ss \in Seq(Seq(S)), NEW s \in Seq(S)
  PROVE  FlattenSeq(Append(ss, s)) = FlattenSeq(ss) \o s
  <1> DEFINE tt == Append(ss, s)
             n == Len(ss)
  <1>1. /\ n \in Nat /\ Len(tt) = n + 1 /\ tt[n + 1] = s
        /\ \A j \in 1 .. n : ss[j] = tt[j]
    BY LenProperties, AppendProperties
  <1> HIDE DEF tt
  <1>2. PICK g : IsFlat(g, tt, n + 1) /\ FlattenSeq(tt) = g[n + 1]
    BY <1>1, FlattenIsFlat
  <1>3. g[n + 1] = IF n = 0 THEN tt[n + 1] ELSE g[n] \o tt[n + 1]
    BY <1>1, <1>2, FlatAt
  <1>4. CASE n = 0
    <2>1. ss = <<>>
      BY <1>4, EmptySeq
    <2>2. FlattenSeq(ss) = <<>>
      BY <2>1 DEF FlattenSeq
    <2>3. FlattenSeq(tt) = s
      BY <1>1, <1>2, <1>3, <1>4
    <2> QED
      BY <2>2, <2>3, ConcatEmptySeq DEF tt
  <1>5. CASE n # 0
    <2>1. PICK f : IsFlat(f, ss, n) /\ FlattenSeq(ss) = f[n]
      BY <1>1, <1>5, FlattenIsFlat
    <2>2. f[n] = g[n]
      <3>1. \A j \in 1 .. n : f[j] = g[j]
        <4> HIDE DEF n
        <4>1. n + 1 \in Nat /\ n <= n + 1
          BY <1>1
        <4> QED
          BY <1>1, <1>2, <2>1, <4>1, FlatUnique
      <3> QED
        BY <1>1, <1>5, <3>1
    <2> QED
      BY <1>1, <1>2, <1>3, <1>5, <2>1, <2>2 DEF tt
  <1> QED
    BY <1>4, <1>5

----------------------------------------------------------------------------
(* Framed. *)

NoLines == <<<<>>, <<>>>>

\* f is the function that Framed builds, up to n.
IsCut(f, s, n) ==
  f = [k \in 0 .. n |-> IF k = 0 THEN NoLines ELSE Cut(f[k - 1], s[k])]

LEMMA CutAt ==
  ASSUME NEW f, NEW s, NEW n \in Nat, IsCut(f, s, n)
  PROVE  f[0] = NoLines /\ \A k \in Nat : k + 1 \in 0 .. n => f[k + 1] = Cut(f[k], s[k + 1])
  <1> DEFINE e(k) == IF k = 0 THEN NoLines ELSE Cut(f[k - 1], s[k])
  <1>1. f = [k \in 0 .. n |-> e(k)]
    BY DEF IsCut
  <1>2. \A k \in 0 .. n : f[k] = e(k)
    <2> HIDE DEF e
    <2> QED
      BY <1>1
  <1>3. ASSUME NEW k \in Nat, k + 1 \in 0 .. n PROVE f[k + 1] = Cut(f[k], s[k + 1])
    <2>1. (k + 1) - 1 = k /\ k + 1 # 0
      OBVIOUS
    <2>2. f[k + 1] = e(k + 1)
      BY <1>2, <1>3
    <2> QED
      BY <2>1, <2>2
  <1> QED
    BY <1>2, <1>3

LEMMA CutExists == \A s : \A n \in Nat : \E f : IsCut(f, s, n)
  <1> TAKE s
  <1> DEFINE T == {n \in Nat : \E f : IsCut(f, s, n)}
  <1>1. 0 \in T
    <2> DEFINE f == [k \in 0 .. 0 |-> NoLines]
    <2>1. IsCut(f, s, 0)
      BY DEF IsCut
    <2> QED
      BY <2>1
  <1>2. ASSUME NEW n \in Nat, n \in T PROVE n + 1 \in T
    <2>1. PICK f : IsCut(f, s, n)
      BY <1>2
    <2> DEFINE g == [k \in 0 .. n + 1 |-> IF k = n + 1 THEN Cut(f[n], s[k]) ELSE f[k]]
    <2>2. ASSUME NEW k \in 0 .. n + 1
          PROVE  g[k] = IF k = 0 THEN NoLines ELSE Cut(g[k - 1], s[k])
      <3>1. CASE k = n + 1
        <4>1. g[k] = Cut(f[n], s[k]) /\ g[k - 1] = f[n] /\ k # 0
          BY <3>1
        <4> QED
          BY <4>1
      <3>2. CASE k = 0
        BY <2>1, <3>2, CutAt
      <3>3. CASE k \in 1 .. n
        <4>1. g[k] = f[k] /\ g[k - 1] = f[k - 1]
          BY <3>3
        <4>2. k - 1 \in Nat /\ (k - 1) + 1 = k /\ k \in 0 .. n /\ k # 0
          BY <3>3
        <4>3. f[k] = Cut(f[k - 1], s[k])
          BY <2>1, <4>2, CutAt
        <4> QED
          BY <4>1, <4>2, <4>3
      <3> QED
        BY <3>1, <3>2, <3>3
    <2>3. IsCut(g, s, n + 1)
      BY <2>2 DEF IsCut
    <2> QED
      BY <2>3
  <1> HIDE DEF T
  <1>3. Nat \subseteq T
    BY <1>1, <1>2, NatSetInduction
  <1> QED
    BY <1>3 DEF T

LEMMA CutUnique ==
  ASSUME NEW f, NEW g, NEW s, NEW t, NEW n \in Nat, NEW m \in Nat, n <= m,
         IsCut(f, s, n), IsCut(g, t, m), \A k \in 1 .. n : s[k] = t[k]
  PROVE  \A k \in 0 .. n : f[k] = g[k]
  <1> DEFINE T == {k \in Nat : k \in 0 .. n => f[k] = g[k]}
  <1>1. 0 \in T
    BY CutAt
  <1>2. ASSUME NEW k \in Nat, k \in T PROVE k + 1 \in T
    <2> SUFFICES ASSUME k + 1 \in 0 .. n PROVE f[k + 1] = g[k + 1]
      OBVIOUS
    <2>1. k + 1 \in 0 .. m /\ k + 1 \in 1 .. n /\ k \in 0 .. n
      OBVIOUS
    <2>2. f[k + 1] = Cut(f[k], s[k + 1]) /\ g[k + 1] = Cut(g[k], t[k + 1])
      BY <2>1, CutAt
    <2>3. f[k] = g[k]
      BY <1>2, <2>1
    <2> QED
      BY <2>1, <2>2, <2>3
  <1> HIDE DEF T
  <1>3. Nat \subseteq T
    BY <1>1, <1>2, NatSetInduction
  <1> QED
    BY <1>3 DEF T

LEMMA FramedIsCut ==
  ASSUME NEW s, Len(s) \in Nat
  PROVE  \E f : IsCut(f, s, Len(s)) /\ Framed(s) = f[Len(s)]
  <1>1. PICK g : IsCut(g, s, Len(s))
    BY CutExists
  <1> QED
    BY <1>1 DEF Framed, IsCut, NoLines

\* Framed, as a recursion over the bytes as they come in.
LEMMA FramedEmpty == Framed(<<>>) = NoLines
  <1>1. Len(<<>>) = 0
    BY EmptySeq
  <1>2. PICK f : IsCut(f, <<>>, 0) /\ Framed(<<>>) = f[0]
    BY <1>1, FramedIsCut
  <1> QED
    BY <1>2, CutAt

LEMMA FramedAppend ==
  ASSUME NEW s \in Seq(Byte), NEW b \in Byte
  PROVE  Framed(Append(s, b)) = Cut(Framed(s), b)
  <1> DEFINE t == Append(s, b)
             n == Len(s)
  <1>1. /\ n \in Nat /\ Len(t) = n + 1 /\ t[n + 1] = b
        /\ \A k \in 1 .. n : s[k] = t[k]
    BY LenProperties, AppendProperties
  <1> HIDE DEF t
  <1>2. PICK g : IsCut(g, t, n + 1) /\ Framed(t) = g[n + 1]
    BY <1>1, FramedIsCut
  <1>3. PICK f : IsCut(f, s, n) /\ Framed(s) = f[n]
    BY <1>1, FramedIsCut
  <1> HIDE DEF n
  <1>4. n + 1 \in Nat /\ n <= n + 1 /\ n + 1 \in 0 .. n + 1 /\ n \in 0 .. n
    BY <1>1
  <1>5. f[n] = g[n]
    BY <1>1, <1>2, <1>3, <1>4, CutUnique
  <1>6. g[n + 1] = Cut(g[n], t[n + 1])
    BY <1>1, <1>2, <1>4, CutAt
  <1> QED
    BY <1>1, <1>2, <1>3, <1>5, <1>6 DEF t

----------------------------------------------------------------------------
(* Separators and lines. *)

\* A separator ends at byte e of s.
EndsAt(s, e) ==
  SepLen <= e /\ \A k \in 1 .. SepLen : separator[k] = s[e - SepLen + k]

Rest(s) == Framed(s)[2]

Bytes == Seq(Byte)

LEMMA SeparatorType ==
  /\ separator \in Bytes /\ SepLen \in Nat \ {0}
  /\ DOMAIN separator = 1 .. SepLen
  BY LineSessionAssumption, EmptySeq, LenProperties DEF SepLen, Bytes

LEMMA ReverseProperties ==
  ASSUME NEW S, NEW s \in Seq(S)
  PROVE  /\ Reverse(s) \in Seq(S) /\ Len(Reverse(s)) = Len(s)
         /\ \A k \in 1 .. Len(s) : Reverse(s)[k] = s[Len(s) - k + 1]
  <1>1. Len(s) \in Nat /\ \A k \in 1 .. Len(s) : s[k] \in S
    BY LenProperties, ElementOfSeq
  <1>2. \A k \in 1 .. Len(s) : s[(Len(s) - k) + 1] \in S
    BY <1>1
  <1> QED
    BY <1>1, <1>2 DEF Reverse

\* IsSuffix without Reverse.
LEMMA SuffixIff ==
  ASSUME NEW s \in Bytes PROVE IsSuffix(separator, s) <=> EndsAt(s, Len(s))
  <1> DEFINE rs == Reverse(separator)
             rt == Reverse(s)
             n == Len(s)
             m == SepLen
  <1>1. /\ rs \in Bytes /\ Len(rs) = m
        /\ \A k \in 1 .. m : rs[k] = separator[m - k + 1]
    BY SeparatorType, ReverseProperties DEF Bytes, SepLen
  <1>2. /\ rt \in Bytes /\ Len(rt) = n
        /\ \A k \in 1 .. n : rt[k] = s[n - k + 1]
    BY ReverseProperties DEF Bytes
  <1>3. m \in Nat \ {0} /\ n \in Nat
    BY SeparatorType, LenProperties DEF Bytes
  <1>4. IsSuffix(separator, s) <=> m <= n /\ SubSeq(rs, 1, m) = SubSeq(rt, 1, m)
    BY <1>1, <1>2 DEF IsSuffix, IsPrefix
  <1> HIDE DEF rs, rt, n, m
  <1>5. ASSUME m <= n
        PROVE  SubSeq(rs, 1, m) = SubSeq(rt, 1, m) <=> \A k \in 1 .. m : rs[k] = rt[k]
    <2>1. (\A k \in 1 .. m : rs[k] \in Byte) /\ (\A k \in 1 .. m : rt[k] \in Byte)
      BY <1>1, <1>2, <1>3, <1>5, ElementOfSeq DEF Bytes
    <2>2. /\ SubSeq(rs, 1, m) \in Bytes /\ Len(SubSeq(rs, 1, m)) = m
          /\ \A k \in 1 .. m : SubSeq(rs, 1, m)[k] = rs[k]
      BY <1>3, <2>1, SubSeqProperties DEF Bytes
    <2>3. /\ SubSeq(rt, 1, m) \in Bytes /\ Len(SubSeq(rt, 1, m)) = m
          /\ \A k \in 1 .. m : SubSeq(rt, 1, m)[k] = rt[k]
      BY <1>3, <2>1, SubSeqProperties DEF Bytes
    <2> QED
      BY <2>2, <2>3, SeqEqual DEF Bytes
  <1>6. ASSUME m <= n
        PROVE  (\A k \in 1 .. m : rs[k] = rt[k])
                 <=> \A k \in 1 .. m : separator[k] = s[n - m + k]
    <2>1. \A k \in 1 .. m : /\ m - k + 1 \in 1 .. m /\ m - (m - k + 1) + 1 = k
                            /\ n - k + 1 = n - m + (m - k + 1)
      BY <1>3
    <2>2. \A k \in 1 .. m : rs[k] = separator[m - k + 1] /\ rt[k] = s[n - m + (m - k + 1)]
      <3> TAKE k \in 1 .. m
      <3>1. k \in 1 .. n
        BY <1>3, <1>6
      <3>2. rs[k] = separator[m - k + 1]
        BY <1>1
      <3>3. rt[k] = s[n - k + 1]
        BY <1>2, <3>1
      <3> QED
        BY <2>1, <3>2, <3>3
    <2> QED
      BY <2>1, <2>2
  <1> QED
    BY <1>3, <1>4, <1>5, <1>6 DEF EndsAt, m, n

\* One more byte ends a line, or does not.
LEMMA FramedType ==
  \A s \in Bytes : Lines(s) \in Seq(Bytes) /\ Rest(s) \in Bytes
  <1> DEFINE T == {s \in Bytes : \E l \in Seq(Bytes), r \in Bytes : Framed(s) = <<l, r>>}
  <1>1. <<>> \in T
    <2>1. <<>> \in Bytes
      BY EmptySeq DEF Bytes
    <2>2. <<>> \in Seq(Bytes)
      BY EmptySeq
    <2> QED
      BY <2>1, <2>2, FramedEmpty DEF NoLines
  <1>2. ASSUME NEW s \in Seq(Byte), NEW b \in Byte, s \in T PROVE Append(s, b) \in T
    <2>1. PICK l \in Seq(Bytes), r \in Bytes : Framed(s) = <<l, r>>
      BY <1>2
    <2>2. Append(r, b) \in Bytes /\ Append(s, b) \in Bytes /\ <<>> \in Bytes
      BY AppendProperties, EmptySeq DEF Bytes
    <2>3. Append(l, Append(r, b)) \in Seq(Bytes)
      BY <2>2, AppendProperties
    <2>4. \/ Framed(Append(s, b)) = <<Append(l, Append(r, b)), <<>>>>
          \/ Framed(Append(s, b)) = <<l, Append(r, b)>>
      BY <2>1, FramedAppend DEF Cut
    <2> QED
      BY <2>2, <2>3, <2>4
  <1> HIDE DEF T
  <1>3. Bytes \subseteq T
    BY <1>1, <1>2, SeqSetInduction DEF Bytes
  <1> QED
    BY <1>3 DEF T, Lines, Rest

LEMMA FramedStep ==
  ASSUME NEW s \in Bytes, NEW b \in Byte
  PROVE  LET r == Append(Rest(s), b) IN
         /\ r \in Bytes
         /\ EndsAt(r, Len(r)) => /\ Lines(Append(s, b)) = Append(Lines(s), r)
                                 /\ Rest(Append(s, b)) = <<>>
         /\ ~EndsAt(r, Len(r)) => /\ Lines(Append(s, b)) = Lines(s)
                                  /\ Rest(Append(s, b)) = r
  <1> DEFINE r == Append(Rest(s), b)
  <1>1. r \in Bytes
    BY FramedType, AppendProperties DEF Bytes
  <1>2. Framed(Append(s, b)) = IF EndsAt(r, Len(r)) THEN <<Append(Lines(s), r), <<>>>>
                                                    ELSE <<Lines(s), r>>
    BY <1>1, FramedAppend, SuffixIff DEF Cut, Rest, Lines, Bytes
  <1> HIDE DEF r
  <1> QED
    BY <1>1, <1>2 DEF r, Lines, Rest

LEMMA AppendConcat ==
  ASSUME NEW S, NEW s \in Seq(S), NEW t \in Seq(S), NEW e \in S
  PROVE  Append(s \o t, e) = s \o Append(t, e)
  OBVIOUS

\* After a whole number of lines the framing starts afresh.
LEMMA FramedConcat ==
  ASSUME NEW s \in Bytes, Rest(s) = <<>>
  PROVE  \A u \in Bytes : Lines(s \o u) = Lines(s) \o Lines(u) /\ Rest(s \o u) = Rest(u)
  <1> DEFINE T == {u \in Bytes : /\ Lines(s \o u) = Lines(s) \o Lines(u)
                                 /\ Rest(s \o u) = Rest(u)}
  <1>1. <<>> \in T
    <2>1. <<>> \in Bytes /\ s \o <<>> = s
      BY EmptySeq, ConcatEmptySeq DEF Bytes
    <2>2. Lines(<<>>) = <<>> /\ Rest(<<>>) = <<>>
      BY FramedEmpty DEF NoLines, Lines, Rest
    <2>3. Lines(s) \o <<>> = Lines(s)
      BY FramedType, ConcatEmptySeq
    <2> QED
      BY <2>1, <2>2, <2>3
  <1>2. ASSUME NEW u \in Seq(Byte), NEW b \in Byte, u \in T PROVE Append(u, b) \in T
    <2> DEFINE su == s \o u
               r == Append(Rest(u), b)
    <2>1. u \in Bytes /\ su \in Bytes /\ Append(u, b) \in Bytes
      BY ConcatProperties, AppendProperties DEF Bytes
    <2>2. s \o Append(u, b) = Append(su, b)
      BY DEF Bytes
    <2>3. Lines(su) = Lines(s) \o Lines(u) /\ Rest(su) = Rest(u)
      BY <1>2
    <2>4. Lines(s) \in Seq(Bytes) /\ Lines(u) \in Seq(Bytes) /\ r \in Bytes
      BY <2>1, FramedType, FramedStep
    <2> HIDE DEF su
    <2>5. CASE EndsAt(r, Len(r))
      <3>1. /\ Lines(Append(u, b)) = Append(Lines(u), r)
            /\ Rest(Append(u, b)) = <<>>
        BY <2>1, <2>5, FramedStep
      <3>2. /\ Lines(Append(su, b)) = Append(Lines(su), r)
            /\ Rest(Append(su, b)) = <<>>
        BY <2>1, <2>3, <2>5, FramedStep, SMTT(30)
      <3>3. Append(Lines(s) \o Lines(u), r) = Lines(s) \o Append(Lines(u), r)
        <4> HIDE DEF r
        <4>1. \A a, c \in Seq(Bytes), e \in Bytes : Append(a \o c, e) = a \o Append(c, e)
          BY AppendConcat
        <4> QED
          BY <2>4, <4>1, Zenon
      <3> QED
        BY <2>1, <2>2, <2>3, <3>1, <3>2, <3>3
    <2>6. CASE ~EndsAt(r, Len(r))
      <3>1. Lines(Append(u, b)) = Lines(u) /\ Rest(Append(u, b)) = r
        BY <2>1, <2>6, FramedStep
      <3>2. Lines(Append(su, b)) = Lines(su) /\ Rest(Append(su, b)) = r
        BY <2>1, <2>3, <2>6, FramedStep
      <3> QED
        BY <2>1, <2>2, <2>3, <3>1, <3>2
    <2> QED
      BY <2>5, <2>6
  <1> HIDE DEF T
  <1>3. Bytes \subseteq T
    BY <1>1, <1>2, SeqSetInduction DEF Bytes
  <1> QED
    BY <1>3 DEF T

\* Bytes in which no separator ends are one unfinished line,
LEMMA NoSeparator ==
  \A u \in Bytes : (\A e \in 1 .. Len(u) : ~EndsAt(u, e))
                     => Lines(u) = <<>> /\ Rest(u) = u
  <1> DEFINE Free(u) == \A e \in 1 .. Len(u) : ~EndsAt(u, e)
             T == {u \in Bytes : Free(u) => Lines(u) = <<>> /\ Rest(u) = u}
  <1>1. <<>> \in T
    BY EmptySeq, FramedEmpty DEF NoLines, Lines, Rest, Bytes
  <1>2. ASSUME NEW u \in Seq(Byte), NEW b \in Byte, u \in T PROVE Append(u, b) \in T
    <2> DEFINE v == Append(u, b)
    <2>1. /\ u \in Bytes /\ v \in Bytes /\ Len(u) \in Nat /\ Len(v) = Len(u) + 1
          /\ \A k \in 1 .. Len(u) : v[k] = u[k]
      BY AppendProperties, LenProperties DEF Bytes
    <2> HIDE DEF v
    <2> SUFFICES ASSUME Free(v) PROVE Lines(v) = <<>> /\ Rest(v) = v
      BY <2>1 DEF v
    <2>2. ASSUME NEW e \in 1 .. Len(u), EndsAt(u, e) PROVE FALSE
      <3>1. e \in 1 .. Len(v)
        BY <2>1
      <3>2. \A k \in 1 .. SepLen : e - SepLen + k \in 1 .. Len(u)
        BY <2>1, <2>2, SeparatorType DEF EndsAt
      <3>3. EndsAt(v, e)
        BY <2>1, <2>2, <3>2 DEF EndsAt
      <3> QED
        BY <3>1, <3>3
    <2>3. Lines(u) = <<>> /\ Rest(u) = u
      BY <1>2, <2>2
    <2>4. ~EndsAt(v, Len(v))
      BY <2>1
    <2> QED
      BY <2>1, <2>3, <2>4, FramedStep DEF v
  <1> HIDE DEF T
  <1>3. Bytes \subseteq T
    BY <1>1, <1>2, SeqSetInduction DEF Bytes
  <1> QED
    BY <1>3 DEF T

\* ... and bytes without a line are, too.
LEMMA NoLineYet == \A u \in Bytes : Lines(u) = <<>> => Rest(u) = u
  <1> DEFINE T == {u \in Bytes : Lines(u) = <<>> => Rest(u) = u}
  <1>1. <<>> \in T
    BY EmptySeq, FramedEmpty DEF NoLines, Rest, Bytes
  <1>2. ASSUME NEW u \in Seq(Byte), NEW b \in Byte, u \in T PROVE Append(u, b) \in T
    <2> DEFINE r == Append(Rest(u), b)
    <2>1. u \in Bytes /\ Append(u, b) \in Bytes /\ r \in Bytes
      BY AppendProperties, FramedStep DEF Bytes
    <2> SUFFICES ASSUME Lines(Append(u, b)) = <<>> PROVE Rest(Append(u, b)) = Append(u, b)
      BY <2>1
    <2>2. Append(Lines(u), r) # <<>>
      <3>1. Lines(u) \in Seq(Bytes)
        BY <2>1, FramedType
      <3> HIDE DEF r
      <3> QED
        BY <2>1, <3>1, AppendProperties
    <2>3. Lines(Append(u, b)) = Lines(u) /\ Rest(Append(u, b)) = r
      BY <2>1, <2>2, FramedStep
    <2> QED
      BY <1>2, <2>3
  <1> HIDE DEF T
  <1>3. Bytes \subseteq T
    BY <1>1, <1>2, SeqSetInduction DEF Bytes
  <1> QED
    BY <1>3 DEF T

\* Bytes up to the end of their first separator are one line.
LEMMA FirstLine ==
  ASSUME NEW s \in Bytes, EndsAt(s, Len(s)), \A e \in 1 .. Len(s) - 1 : ~EndsAt(s, e)
  PROVE  Lines(s) = <<s>> /\ Rest(s) = <<>>
  <1>1. Len(s) \in Nat \ {0} /\ s # <<>>
    BY SeparatorType, LenProperties, EmptySeq DEF EndsAt, Bytes
  <1>2. PICK u \in Seq(Byte), b \in Byte : s = Append(u, b)
    BY <1>1, SequenceEmptyOrAppend DEF Bytes
  <1>3. /\ u \in Bytes /\ Len(u) = Len(s) - 1 /\ Len(u) \in Nat
        /\ \A k \in 1 .. Len(u) : s[k] = u[k]
    BY <1>2, AppendProperties, LenProperties DEF Bytes
  <1>4. ASSUME NEW e \in 1 .. Len(u) PROVE ~EndsAt(u, e)
    <2>1. ~EndsAt(s, e)
      BY <1>3
    <2>2. SepLen <= e => \A k \in 1 .. SepLen : e - SepLen + k \in 1 .. Len(u)
      BY <1>3, SeparatorType
    <2> QED
      BY <1>3, <2>1, <2>2 DEF EndsAt
  <1>5. Lines(u) = <<>> /\ Rest(u) = u
    BY <1>3, <1>4, NoSeparator
  <1>6. Lines(s) = Append(<<>>, s) /\ Rest(s) = <<>>
    <2>1. Append(Rest(u), b) = s
      BY <1>2, <1>5
    <2>2. Lines(Append(u, b)) = Append(Lines(u), s) /\ Rest(Append(u, b)) = <<>>
      BY <1>3, <2>1, FramedStep
    <2> QED
      BY <1>2, <1>5, <2>2
  <1> QED
    BY <1>6

\* What is left over is the end of the stream, from the end of a separator or
\* from the start.
Leftover(s) ==
  LET d == Len(s) - Len(Rest(s)) IN
  /\ d \in Nat
  /\ \A k \in 1 .. Len(Rest(s)) : Rest(s)[k] = s[d + k]
  /\ d > 0 => EndsAt(s, d)

\* EndsAt looks at no byte behind e.
LEMMA EndsAtPrefix ==
  ASSUME NEW s, NEW t, NEW n \in Nat, NEW e \in 0 .. n,
         \A k \in 1 .. n : s[k] = t[k], EndsAt(s, e)
  PROVE  EndsAt(t, e)
  <1>1. \A k \in 1 .. SepLen : e - SepLen + k \in 1 .. n
    BY SeparatorType DEF EndsAt
  <1> QED
    BY <1>1 DEF EndsAt

\* A separator at the end of r is one at the end of s, if r is long enough or
\* has it, and the other way round.
LEMMA EndsAtSuffix ==
  ASSUME NEW s, NEW r, NEW d \in Nat, NEW m \in Nat, SepLen <= m,
         \A k \in 1 .. m : r[k] = s[d + k]
  PROVE  EndsAt(r, m) <=> EndsAt(s, d + m)
  <1>1. \A k \in 1 .. SepLen : /\ m - SepLen + k \in 1 .. m
                               /\ (d + m) - SepLen + k = d + (m - SepLen + k)
    BY SeparatorType
  <1>2. \A k \in 1 .. SepLen : r[m - SepLen + k] = s[(d + m) - SepLen + k]
    BY <1>1
  <1>3. SepLen <= d + m
    BY SeparatorType
  <1> QED
    BY <1>2, <1>3 DEF EndsAt

LEMMA RestLeftover == \A s \in Bytes : Leftover(s)
  <1> DEFINE T == {s \in Bytes : Leftover(s)}
  <1>1. <<>> \in T
    <2>1. <<>> \in Bytes /\ Len(<<>>) = 0 /\ Rest(<<>>) = <<>>
      BY EmptySeq, FramedEmpty DEF NoLines, Rest, Bytes
    <2> QED
      BY <2>1 DEF Leftover
  <1>2. ASSUME NEW s \in Seq(Byte), NEW b \in Byte, s \in T PROVE Append(s, b) \in T
    <2> DEFINE v == Append(s, b)
               q == Rest(s)
               r == Append(q, b)
               d == Len(s) - Len(q)
    <2>1. /\ s \in Bytes /\ v \in Bytes /\ Len(s) \in Nat /\ Len(v) = Len(s) + 1
          /\ v[Len(s) + 1] = b /\ \A k \in 1 .. Len(s) : v[k] = s[k]
      BY AppendProperties, LenProperties DEF Bytes
    <2>2. q \in Bytes
      BY <2>1, FramedType
    <2>3. /\ r \in Bytes /\ Len(q) \in Nat /\ Len(r) = Len(q) + 1
          /\ r[Len(q) + 1] = b /\ \A k \in 1 .. Len(q) : r[k] = q[k]
      <3> HIDE DEF q
      <3> QED
        BY <2>2, AppendProperties, LenProperties DEF Bytes
    <2>4. /\ d \in Nat /\ Len(v) = d + Len(r)
          /\ \A k \in 1 .. Len(q) : q[k] = s[d + k]
          /\ d > 0 => EndsAt(s, d)
      BY <1>2, <2>1, <2>3 DEF Leftover
    <2>5. /\ EndsAt(r, Len(r)) => Rest(v) = <<>>
          /\ ~EndsAt(r, Len(r)) => Rest(v) = r
      BY <2>1, FramedStep
    <2> HIDE DEF v, q, r, d
    <2>6. d + Len(q) = Len(s)
      BY <2>1, <2>3, <2>4
    <2>7. ASSUME NEW k \in 1 .. Len(r) PROVE r[k] = v[d + k]
      <3>1. CASE k \in 1 .. Len(q)
        <4>1. d + k \in 1 .. Len(s)
          BY <2>1, <2>3, <2>4, <2>6, <3>1
        <4> QED
          BY <2>1, <2>3, <2>4, <3>1, <4>1
      <3>2. CASE k = Len(q) + 1
        BY <2>1, <2>3, <2>4, <2>6, <3>2
      <3> QED
        BY <2>3, <3>1, <3>2
    <2>8. CASE EndsAt(r, Len(r))
      <3>1. Rest(v) = <<>> /\ Len(<<>>) = 0
        BY <2>5, <2>8, EmptySeq
      <3>2. SepLen <= Len(r)
        BY <2>8 DEF EndsAt
      <3>3. EndsAt(v, Len(v))
        <4>1. d \in Nat /\ Len(r) \in Nat /\ Len(v) = d + Len(r)
          BY <2>3, <2>4
        <4>2. EndsAt(v, d + Len(r))
          BY <2>7, <2>8, <3>2, <4>1, EndsAtSuffix
        <4> QED
          BY <4>1, <4>2
      <3>4. Len(v) \in Nat /\ Len(v) - 0 = Len(v)
        BY <2>1
      <3>5. Leftover(v)
        BY <3>1, <3>3, <3>4 DEF Leftover
      <3> QED
        BY <2>1, <3>5 DEF v
    <2>9. CASE ~EndsAt(r, Len(r))
      <3>1. Rest(v) = r /\ Len(v) - Len(r) = d
        BY <2>3, <2>4, <2>5, <2>9
      <3>2. d > 0 => EndsAt(v, d)
        <4>1. d \in 0 .. Len(s)
          BY <2>1, <2>3, <2>4, <2>6
        <4> QED
          BY <2>1, <2>4, <4>1, EndsAtPrefix, SMTT(30)
      <3>3. Leftover(v)
        BY <2>4, <2>7, <3>1, <3>2 DEF Leftover
      <3> QED
        BY <2>1, <3>3 DEF v
    <2> QED
      BY <2>8, <2>9
  <1> HIDE DEF T
  <1>3. Bytes \subseteq T
    BY <1>1, <1>2, SeqSetInduction DEF Bytes
  <1> QED
    BY <1>3 DEF T

\* No proper prefix of the separator is also the end of it: "\r\n" and "\n"
\* are such, "\n\n" is not.
Unbordered ==
  \A d \in 1 .. SepLen - 1 : \E k \in 1 .. SepLen - d : separator[k + d] # separator[k]

\* Bytes that end with an unbordered separator end with a line, however many
\* lines they are.
LEMMA EndsWithLine ==
  ASSUME Unbordered, NEW s \in Bytes, EndsAt(s, Len(s)) PROVE Rest(s) = <<>>
  <1>1. Len(s) \in Nat \ {0} /\ s # <<>>
    BY SeparatorType, LenProperties, EmptySeq DEF EndsAt, Bytes
  <1>2. PICK u \in Seq(Byte), b \in Byte : s = Append(u, b)
    BY <1>1, SequenceEmptyOrAppend DEF Bytes
  <1>3. /\ u \in Bytes /\ Len(s) = Len(u) + 1 /\ Len(u) \in Nat /\ s[Len(u) + 1] = b
        /\ \A k \in 1 .. Len(u) : u[k] = s[k]
    BY <1>2, AppendProperties, LenProperties DEF Bytes
  <1> DEFINE q == Rest(u)
             r == Append(q, b)
             d == Len(u) - Len(q)
  <1>4. q \in Bytes
    BY <1>3, FramedType
  <1>5. /\ Len(q) \in Nat /\ Len(r) = Len(q) + 1
        /\ r[Len(q) + 1] = b /\ \A k \in 1 .. Len(q) : r[k] = q[k]
    <2> HIDE DEF q
    <2> QED
      BY <1>4, AppendProperties, LenProperties DEF Bytes
  <1>6. /\ d \in Nat
        /\ \A k \in 1 .. Len(q) : q[k] = u[d + k]
        /\ d > 0 => EndsAt(u, d)
    BY <1>3, RestLeftover DEF Leftover
  <1>7. d + Len(q) = Len(u) /\ d + Len(r) = Len(s)
    BY <1>3, <1>5, <1>6
  <1>8. EndsAt(r, Len(r)) => Rest(s) = <<>>
    BY <1>2, <1>3, FramedStep
  <1> HIDE DEF q, r, d
  <1>9. CASE SepLen <= Len(r)
    <2>1. ASSUME NEW k \in 1 .. Len(r) PROVE r[k] = s[d + k]
      <3>1. CASE k \in 1 .. Len(q)
        <4>1. d + k \in 1 .. Len(u)
          BY <1>3, <1>5, <1>6, <1>7, <3>1
        <4> QED
          BY <1>3, <1>5, <1>6, <3>1, <4>1
      <3>2. CASE k = Len(q) + 1
        BY <1>3, <1>5, <1>6, <1>7, <3>2
      <3> QED
        BY <1>5, <3>1, <3>2
    <2>2. Len(r) \in Nat
      BY <1>5
    <2>3. EndsAt(r, Len(r)) <=> EndsAt(s, d + Len(r))
      BY <1>6, <1>9, <2>1, <2>2, EndsAtSuffix
    <2> QED
      BY <1>7, <1>8, <2>3
  <1>10. CASE ~(SepLen <= Len(r))
    <2> DEFINE m == Len(r)
    <2>1. m \in 1 .. SepLen - 1 /\ d > 0 /\ d <= Len(u)
      BY <1>3, <1>5, <1>6, <1>7, <1>10, SeparatorType DEF EndsAt
    <2>2. EndsAt(u, d) /\ EndsAt(s, Len(s)) /\ Len(s) = d + m
      BY <1>6, <1>7, <2>1
    <2> HIDE DEF m
    <2>3. ASSUME NEW k \in 1 .. SepLen - m PROVE separator[k + m] = separator[k]
      <3>1. k \in 1 .. SepLen /\ k + m \in 1 .. SepLen
        BY <2>1, SeparatorType
      <3>2. separator[k + m] = u[d - SepLen + (k + m)]
        BY <2>2, <3>1 DEF EndsAt
      <3>3. separator[k] = s[(d + m) - SepLen + k]
        BY <2>2, <3>1 DEF EndsAt
      <3>4. SepLen <= d
        BY <2>2 DEF EndsAt
      <3>5. /\ (d + m) - SepLen + k = d - SepLen + (k + m)
            /\ d - SepLen + (k + m) \in 1 .. Len(u)
        BY <1>3, <1>6, <2>1, <3>1, <3>4, SeparatorType
      <3> QED
        BY <1>3, <3>2, <3>3, <3>5
    <2> QED
      BY <2>1, <2>3 DEF Unbordered
  <1> QED
    BY <1>9, <1>10

----------------------------------------------------------------------------
(* buffer_.find(). *)

LEMMA FindSpec ==
  ASSUME buffer \in Bytes, NEW from \in Nat
  PROVE  \/ /\ find(from) = npos
            /\ \A e \in from + SepLen .. Len(buffer) : ~EndsAt(buffer, e)
         \/ /\ find(from) \in from .. Len(buffer) - SepLen /\ find(from) # npos
            /\ EndsAt(buffer, find(from) + SepLen)
            /\ \A e \in from + SepLen .. find(from) + SepLen - 1 : ~EndsAt(buffer, e)
  <1> DEFINE n == Len(buffer)
             At(j) == SubSeq(buffer, j + 1, j + SepLen) = separator
             at == {j \in from .. n - SepLen : At(j)}
  <1>1. n \in Nat /\ SepLen \in Nat \ {0} /\ \A k \in 1 .. n : buffer[k] \in Byte
    BY SeparatorType, LenProperties, ElementOfSeq DEF Bytes
  <1>2. ASSUME NEW j \in from .. n - SepLen PROVE At(j) <=> EndsAt(buffer, j + SepLen)
    <2> DEFINE w == SubSeq(buffer, j + 1, j + SepLen)
    <2>1. /\ j + 1 \in Int /\ j + SepLen \in Int
          /\ \A k \in j + 1 .. j + SepLen : buffer[k] \in Byte
          /\ (j + SepLen) - (j + 1) + 1 = SepLen /\ j + 1 <= j + SepLen
          /\ \A k \in 1 .. SepLen : (j + 1) + k - 1 = (j + SepLen) - SepLen + k
          /\ SepLen <= j + SepLen
      BY <1>1
    <2>2. /\ w \in Bytes /\ Len(w) = SepLen
          /\ \A k \in 1 .. SepLen : w[k] = buffer[(j + 1) + k - 1]
      BY <2>1, SubSeqProperties DEF Bytes
    <2>3. \A k \in 1 .. SepLen : w[k] = buffer[(j + SepLen) - SepLen + k]
      BY <2>1, <2>2
    <2> HIDE DEF w
    <2>4. w = separator <=> \A k \in 1 .. SepLen : separator[k] = w[k]
      BY <2>2, SeparatorType, SeqEqual DEF Bytes, SepLen
    <2> QED
      BY <2>1, <2>3, <2>4 DEF EndsAt, w
  <1>3. CASE at = {}
    <2>1. find(from) = npos
      BY <1>3 DEF find
    <2>2. ASSUME NEW e \in from + SepLen .. n PROVE ~EndsAt(buffer, e)
      <3>1. e - SepLen \in from .. n - SepLen /\ (e - SepLen) + SepLen = e
        BY <1>1
      <3> QED
        BY <1>2, <1>3, <3>1
    <2> QED
      BY <2>1, <2>2
  <1>4. CASE at # {}
    <2>1. at \subseteq Nat
      BY <1>1
    <2>2. \E x \in at : \A y \in at : x <= y
      BY <1>4, <2>1, LeastNat
    <2>3. Min(at) \in at /\ \A y \in at : Min(at) <= y
      BY <2>2 DEF Min
    <2>4. find(from) = Min(at)
      BY <1>4 DEF find
    <2> DEFINE x == find(from)
    <2>5. x \in from .. n - SepLen /\ EndsAt(buffer, x + SepLen)
      BY <1>2, <2>3, <2>4
    <2>6. ASSUME NEW e \in from + SepLen .. x + SepLen - 1 PROVE ~EndsAt(buffer, e)
      <3>1. /\ e - SepLen \in from .. n - SepLen /\ (e - SepLen) + SepLen = e
            /\ ~(x <= e - SepLen)
        BY <1>1, <2>5
      <3> QED
        BY <1>2, <2>3, <2>4, <3>1
    <2>7. x # npos
      BY <1>1, <2>5 DEF npos
    <2> QED
      BY <2>5, <2>6, <2>7
  <1> QED
    BY <1>3, <1>4

----------------------------------------------------------------------------
(* The invariants. *)

\* The lines process() was given, as they were in the stream.
Taken == [k \in DOMAIN processed |-> Restored(processed[k])]

Consumed == FlattenSeq(Taken)

Pending == buffer \o inbox

\* The lines of what was consumed are those process() was given.  Between a
\* line and its answer nothing else is on the way; before that, at most the
\* line, with nothing behind it.
Pace ==
  paced =>
    /\ Lines(Consumed) = Taken /\ Rest(Consumed) = <<>>
    /\ \/ /\ Len(processed) = answered
          /\ pc = "scan" => i = 0
          /\ pc = "idle" => Lines(buffer) = <<>>
          /\ \/ Lines(Pending) = <<>>
             \/ Len(Lines(Pending)) = 1 /\ Rest(Pending) = <<>>
       \/ Len(processed) = answered + 1 /\ pc = "scan" /\ Pending = <<>>

IInv == TypeOK /\ Conservation /\ Pace

\* Cutting a sequence in two and joining it again.
LEMMA Join ==
  ASSUME NEW s \in Bytes, NEW m \in 0 .. Len(s)
  PROVE  LET t == SubSeq(s, 1, m)
             u == SubSeq(s, m + 1, Len(s))
         IN  /\ t \in Bytes /\ u \in Bytes /\ t \o u = s /\ Len(t) = m
             /\ \A k \in 1 .. m : t[k] = s[k]
  <1> DEFINE t == SubSeq(s, 1, m)
             u == SubSeq(s, m + 1, Len(s))
  <1>1. Len(s) \in Nat /\ \A k \in 1 .. Len(s) : s[k] \in Byte
    BY LenProperties, ElementOfSeq DEF Bytes
  <1>2. t \in Bytes /\ Len(t) = m /\ \A k \in 1 .. m : t[k] = s[k]
    BY <1>1, SubSeqProperties DEF Bytes
  <1>3. u \in Bytes
    BY <1>1, SubSeqProperties DEF Bytes
  <1>4. t \o u = s
    <2>1. 1 \in 1 .. Len(s) + 1 /\ m \in 1 - 1 .. Len(s) /\ Len(s) \in m .. Len(s)
      BY <1>1
    <2>2. s \in Seq(Byte)
      BY DEF Bytes
    <2>3. t \o u = SubSeq(s, 1, Len(s))
      BY <2>1, <2>2, ConcatAdjacentSubSeq, Zenon
    <2> QED
      BY <2>2, <2>3, SubSeqFull, Zenon
  <1> QED
    BY <1>2, <1>3, <1>4

LEMMA RestoredType ==
  ASSUME NEW s \in Bytes PROVE Restored(s) \in Bytes
  BY SeparatorType, ConcatProperties DEF Restored, Bytes

LEMMA TakenType ==
  ASSUME TypeOK
  PROVE  /\ Taken \in Seq(Bytes) /\ Len(Taken) = Len(processed)
         /\ Consumed \in Bytes
  <1>1. /\ Len(processed) \in Nat /\ DOMAIN processed = 1 .. Len(processed)
        /\ \A k \in 1 .. Len(processed) : processed[k] \in Bytes
    BY LenProperties, ElementOfSeq DEF TypeOK, Bytes
  <1>2. \A k \in 1 .. Len(processed) : Restored(processed[k]) \in Bytes
    BY <1>1, RestoredType
  <1>3. Taken \in Seq(Bytes) /\ Len(Taken) = Len(processed)
    BY <1>1, <1>2 DEF Taken
  <1>4. Consumed \in Bytes
    BY <1>3, FlattenType DEF Consumed, Bytes
  <1> QED
    BY <1>3, <1>4

\* What a line is: the front of buffer_ up to and with a separator, of which
\* process() is given the part it asked for.
LEMMA LineTaken ==
  ASSUME TypeOK, ProcessLine
  PROVE  LET x == find(i)
             line == SubSeq(buffer, 1, x + SepLen)
         IN  /\ line \in Bytes /\ Len(line) = x + SepLen
             /\ EndsAt(line, Len(line))
             /\ \A e \in i + SepLen .. Len(line) - 1 : ~EndsAt(line, e)
             /\ TypeOK' /\ Len(processed') = Len(processed) + 1
             /\ line \o buffer' = buffer
             /\ Taken' = Append(Taken, line)
             /\ Consumed' = Consumed \o line
  <1> DEFINE x == find(i)
             n == x + SepLen
             line == SubSeq(buffer, 1, n)
             arg == SubSeq(buffer, 1, LineEnd(x))
  <1>1. /\ buffer \in Bytes /\ processed \in Seq(Bytes) /\ i \in Nat
        /\ Len(buffer) \in Nat /\ Len(processed) \in Nat
        /\ DOMAIN processed = 1 .. Len(processed) /\ SepLen \in Nat \ {0}
    BY LenProperties, SeparatorType DEF TypeOK, Bytes
  <1>2. /\ x \in i .. Len(buffer) - SepLen
        /\ EndsAt(buffer, n)
        /\ \A e \in i + SepLen .. n - 1 : ~EndsAt(buffer, e)
    BY <1>1, FindSpec DEF ProcessLine
  <1> HIDE DEF x
  <1>3. x \in Nat /\ n \in 0 .. Len(buffer) /\ x \in 0 .. Len(buffer)
    BY <1>1, <1>2
  <1>4. /\ line \in Bytes /\ Len(line) = n /\ \A k \in 1 .. n : line[k] = buffer[k]
        /\ buffer' \in Bytes /\ line \o buffer' = buffer
    BY <1>1, <1>3, Join DEF ProcessLine, Remaining, x
  <1>5. EndsAt(line, n)
    <2>1. n \in Nat /\ n \in 0 .. n /\ \A k \in 1 .. n : buffer[k] = line[k]
      BY <1>1, <1>3, <1>4
    <2> HIDE DEF n, line
    <2> QED
      BY <1>2, <2>1, EndsAtPrefix
  <1>6. ASSUME NEW e \in i + SepLen .. n - 1 PROVE ~EndsAt(line, e)
    <2>1. e \in 0 .. n /\ n \in Nat
      BY <1>1, <1>3
    <2> QED
      BY <1>2, <1>4, <2>1, EndsAtPrefix
  <1>7. arg \in Bytes
    <2>1. LineEnd(x) \in 0 .. Len(buffer)
      BY <1>3 DEF LineEnd
    <2> QED
      BY <1>1, <2>1, Join
  <1>8. Restored(arg) = line
    <2>1. CASE include_separator
      BY <2>1 DEF Restored, LineEnd
    <2>2. CASE ~include_separator
      <3> DEFINE a == SubSeq(buffer, 1, x)
      <3>1. Restored(arg) = a \o separator
        BY <1>3, <2>2 DEF Restored, LineEnd
      <3>2. /\ a \in Bytes /\ Len(a) = x /\ separator \in Bytes
            /\ \A k \in 1 .. x : a[k] = buffer[k]
        BY <1>1, <1>3, Join, SeparatorType
      <3> HIDE DEF a
      <3>3. /\ a \o separator \in Bytes /\ Len(a \o separator) = n
            /\ \A k \in 1 .. n : (a \o separator)[k] =
                                   IF k <= x THEN a[k] ELSE separator[k - x]
        BY <3>2, ConcatProperties DEF Bytes, SepLen
      <3>4. ASSUME NEW k \in 1 .. n PROVE (a \o separator)[k] = line[k]
        <4>1. CASE k <= x
          BY <1>3, <1>4, <3>2, <3>3, <4>1
        <4>2. CASE ~(k <= x)
          <5>1. k - x \in 1 .. SepLen /\ n - SepLen + (k - x) = k
            BY <1>1, <1>3, <4>2
          <5>2. separator[k - x] = line[n - SepLen + (k - x)]
            BY <1>5, <5>1 DEF EndsAt
          <5> QED
            BY <3>3, <4>2, <5>1, <5>2
        <4> QED
          BY <4>1, <4>2
      <3>5. a \o separator = line
        BY <1>4, <3>3, <3>4, SeqEqual DEF Bytes
      <3> QED
        BY <3>1, <3>5
    <2> QED
      BY <2>1, <2>2
  <1>9. /\ processed' = Append(processed, arg)
        /\ i' = x /\ UNCHANGED <<include_separator, paced, inbox, received, pc, answered>>
    BY DEF ProcessLine, SearchNext, x
  <1> HIDE DEF line, arg
  <1>10. /\ processed' \in Seq(Bytes) /\ Len(processed') = Len(processed) + 1
         /\ \A k \in 1 .. Len(processed) : processed'[k] = processed[k]
         /\ processed'[Len(processed) + 1] = arg
    BY <1>1, <1>7, <1>9, AppendProperties
  <1>11. TypeOK'
    BY <1>3, <1>4, <1>9, <1>10 DEF TypeOK, Bytes
  <1>12. Taken' = Append(Taken, line)
    <2>1. Taken \in Seq(Bytes) /\ Len(Taken) = Len(processed)
      BY TakenType
    <2>2. /\ Taken' \in Seq(Bytes) /\ Len(Taken') = Len(processed) + 1
          /\ \A k \in 1 .. Len(processed) + 1 : Taken'[k] = Restored(processed'[k])
      <3>1. DOMAIN processed' = 1 .. Len(processed) + 1
        BY <1>10, LenProperties
      <3>2. Taken' = [k \in 1 .. Len(processed) + 1 |-> Restored(processed'[k])]
        BY <1>9, <3>1 DEF Taken, Restored
      <3>3. \A k \in 1 .. Len(processed) + 1 : Restored(processed'[k]) \in Bytes
        <4>1. \A k \in 1 .. Len(processed) + 1 : processed'[k] \in Bytes
          BY <1>10, ElementOfSeq
        <4> QED
          BY <4>1, RestoredType
      <3>4. Len(processed) + 1 \in Nat
        BY <1>1
      <3> QED
        BY <3>2, <3>3, <3>4
    <2>3. /\ Append(Taken, line) \in Seq(Bytes)
          /\ Len(Append(Taken, line)) = Len(processed) + 1
          /\ \A k \in 1 .. Len(processed) : Append(Taken, line)[k] = Taken[k]
          /\ Append(Taken, line)[Len(processed) + 1] = line
      BY <1>4, <2>1, AppendProperties
    <2>4. ASSUME NEW k \in 1 .. Len(processed) + 1 PROVE Taken'[k] = Append(Taken, line)[k]
      <3>1. Taken'[k] = Restored(processed'[k])
        BY <2>2
      <3>2. CASE k \in 1 .. Len(processed)
        BY <1>1, <1>10, <2>3, <3>1, <3>2 DEF Taken
      <3>3. CASE k = Len(processed) + 1
        BY <1>8, <1>10, <2>3, <3>1, <3>3
      <3>4. k \in 1 .. Len(processed) \/ k = Len(processed) + 1
        BY <1>1
      <3> QED
        BY <3>2, <3>3, <3>4
    <2> QED
      BY <2>2, <2>3, <2>4, SeqEqual
  <1>13. Consumed' = Consumed \o line
    <2>1. Taken \in Seq(Seq(Byte)) /\ line \in Seq(Byte)
      BY <1>4, TakenType DEF Bytes
    <2> QED
      BY <1>12, <2>1, FlattenAppend DEF Consumed
  <1> QED
    BY <1>4, <1>5, <1>6, <1>10, <1>11, <1>12, <1>13 DEF line, x

LEMMA BytesConcat ==
  ASSUME NEW s \in Bytes, NEW t \in Bytes, NEW u \in Bytes
  PROVE  s \o t \in Bytes /\ (s \o t) \o u = s \o (t \o u)
  BY ConcatProperties, ConcatAssociative DEF Bytes

\* A step that gives process() nothing consumes nothing.
LEMMA NothingTaken ==
  ASSUME UNCHANGED <<include_separator, processed>>
  PROVE  Taken' = Taken /\ Consumed' = Consumed
  BY DEF Taken, Consumed, Restored

LEMMA InitIInv == Init => IInv
  <1> SUFFICES ASSUME Init PROVE IInv
    OBVIOUS
  <1>1. TypeOK
    BY EmptySeq DEF Init, TypeOK
  <1>2. Taken = <<>> /\ Consumed = <<>> /\ Pending = <<>> /\ buffer = <<>>
    BY DEF Init, Taken, Consumed, Pending, FlattenSeq
  <1>3. Conservation
    BY <1>2 DEF Init, Conservation, Taken, Consumed
  <1>4. Lines(<<>>) = <<>> /\ Rest(<<>>) = <<>>
    BY FramedEmpty DEF NoLines, Lines, Rest
  <1>5. Pace
    BY <1>2, <1>4 DEF Init, Pace
  <1> QED
    BY <1>1, <1>3, <1>5 DEF IInv

----------------------------------------------------------------------------
\* No byte is lost, and the types.
LEMMA TypeStep == ASSUME TypeOK, [Next]_vars PROVE TypeOK'
  <1>1. ASSUME NEW b \in Byte, ClientSends(b) PROVE TypeOK'
    BY <1>1, AppendProperties DEF TypeOK, ClientSends
  <1>2. CASE Recv
    BY <1>2, ConcatProperties, EmptySeq DEF TypeOK, Recv, SearchFrom
  <1>3. CASE ProcessLine
    BY <1>3, LineTaken
  <1>4. CASE SendResponse
    BY <1>4, LenProperties DEF TypeOK, SendResponse
  <1>5. CASE UNCHANGED vars
    BY <1>5 DEF TypeOK, vars
  <1> QED
    BY <1>1, <1>2, <1>3, <1>4, <1>5 DEF Next

LEMMA ConservationStep ==
  ASSUME TypeOK, Conservation, [Next]_vars PROVE Conservation'
  <1>1. Consumed \o buffer = received /\ Consumed \in Bytes
    BY TakenType DEF Conservation, Consumed, Taken
  <1> SUFFICES Consumed' \o buffer' = received'
    BY DEF Conservation, Consumed, Taken
  <1>2. buffer \in Bytes /\ inbox \in Bytes
    BY DEF TypeOK, Bytes
  <1>3. CASE Recv
    <2>1. Consumed' = Consumed /\ buffer' = buffer \o inbox /\ received' = received \o inbox
      BY <1>3, NothingTaken DEF Recv
    <2>2. (Consumed \o buffer) \o inbox = Consumed \o (buffer \o inbox)
      BY <1>1, <1>2, BytesConcat
    <2> QED
      BY <1>1, <2>1, <2>2
  <1>4. CASE ProcessLine
    <2>1. PICK line \in Bytes : line \o buffer' = buffer /\ Consumed' = Consumed \o line
      BY <1>4, LineTaken
    <2>2. buffer' \in Bytes /\ received' = received
      BY <1>4, LineTaken DEF TypeOK, Bytes, ProcessLine
    <2>3. (Consumed \o line) \o buffer' = Consumed \o (line \o buffer')
      BY <1>1, <2>1, <2>2, BytesConcat
    <2> QED
      BY <1>1, <2>1, <2>2, <2>3
  <1>5. CASE (\E b \in Byte : ClientSends(b)) \/ SendResponse \/ UNCHANGED vars
    BY <1>1, <1>5, NothingTaken DEF ClientSends, SendResponse, vars
  <1> QED
    BY <1>3, <1>4, <1>5 DEF Next

----------------------------------------------------------------------------
(* A client that waits for each answer. *)

\* The lines of the whole stream: those taken, then those pending.
LEMMA StreamLines ==
  ASSUME IInv, paced
  PROVE  /\ Pending \in Bytes /\ buffer \in Bytes /\ inbox \in Bytes
         /\ Len(Lines(received \o inbox)) = Len(processed) + Len(Lines(Pending))
         /\ Lines(received) = Taken \o Lines(buffer)
  <1>1. buffer \in Bytes /\ inbox \in Bytes /\ Consumed \in Bytes
    BY TakenType DEF IInv, TypeOK, Bytes
  <1>2. received = Consumed \o buffer
    BY DEF IInv, Conservation, Consumed, Taken
  <1>3. Pending \in Bytes /\ received \o inbox = Consumed \o Pending
    BY <1>1, <1>2, BytesConcat DEF Pending
  <1>4. Lines(Consumed) = Taken /\ Rest(Consumed) = <<>>
    BY DEF IInv, Pace
  <1>5. Lines(Consumed \o Pending) = Taken \o Lines(Pending)
    BY <1>1, <1>3, <1>4, FramedConcat
  <1>6. Len(Taken \o Lines(Pending)) = Len(processed) + Len(Lines(Pending))
    <2>1. Taken \in Seq(Bytes) /\ Len(Taken) = Len(processed)
      BY TakenType DEF IInv
    <2>2. Lines(Pending) \in Seq(Bytes)
      BY <1>3, FramedType
    <2> QED
      BY <2>1, <2>2, ConcatProperties, SMTT(30)
  <1>7. Lines(Consumed \o buffer) = Taken \o Lines(buffer)
    BY <1>1, <1>4, FramedConcat
  <1> QED
    BY <1>1, <1>2, <1>3, <1>5, <1>6, <1>7

\* The client sends only when nothing is unanswered: the byte goes to the end
\* of an unfinished line, which it may finish.
LEMMA ClientPace ==
  ASSUME IInv, paced, NEW b \in Byte, ClientSends(b) PROVE Pace'
  <1>1. /\ Pending \in Bytes /\ buffer \in Bytes /\ inbox \in Bytes
        /\ Len(processed) + Len(Lines(Pending)) = answered
    BY StreamLines DEF ClientSends, MaySend
  <1>2. Lines(Pending) \in Seq(Bytes) /\ Len(Lines(Pending)) \in Nat
    BY <1>1, FramedType, LenProperties
  <1>3. Len(processed) \in Nat /\ answered \in Nat
    BY LenProperties DEF IInv, TypeOK
  <1>4. /\ Len(processed) = answered
        /\ pc = "scan" => i = 0
        /\ pc = "idle" => Lines(buffer) = <<>>
    BY <1>1, <1>2, <1>3 DEF IInv, Pace
  <1>5. Lines(Pending) = <<>>
    <2>1. Len(Lines(Pending)) = 0
      BY <1>1, <1>2, <1>3, <1>4
    <2> QED
      BY <1>2, <2>1, EmptySeq
  <1>6. Pending' = Append(Pending, b)
    <2>1. Pending' = buffer \o Append(inbox, b)
      BY DEF Pending, ClientSends
    <2> QED
      BY <1>1, <2>1, AppendConcat DEF Pending, Bytes
  <1>7. \/ Lines(Pending') = <<>>
        \/ Len(Lines(Pending')) = 1 /\ Rest(Pending') = <<>>
    <2> DEFINE r == Append(Rest(Pending), b)
    <2>1. CASE EndsAt(r, Len(r))
      <3>1. Lines(Pending') = Append(<<>>, r) /\ Rest(Pending') = <<>>
        <4>1. /\ Lines(Append(Pending, b)) = Append(Lines(Pending), r)
              /\ Rest(Append(Pending, b)) = <<>>
          BY <1>1, <2>1, FramedStep
        <4> QED
          BY <1>5, <1>6, <4>1
      <3>2. Len(Append(<<>>, r)) = 1
        OBVIOUS
      <3> QED
        BY <3>1, <3>2
    <2>2. CASE ~EndsAt(r, Len(r))
      BY <1>1, <1>5, <1>6, <2>2, FramedStep
    <2> QED
      BY <2>1, <2>2
  <1>8. /\ Taken' = Taken /\ Consumed' = Consumed
        /\ UNCHANGED <<processed, answered, pc, i, buffer>>
    BY NothingTaken DEF ClientSends
  <1> QED
    BY <1>4, <1>7, <1>8 DEF IInv, Pace

LEMMA RecvPace == ASSUME IInv, paced, Recv PROVE Pace'
  <1>1. Pending' = Pending
    <2>1. Pending' = Pending \o <<>> /\ Pending \in Bytes
      BY StreamLines DEF Pending, Recv
    <2> QED
      BY <2>1, ConcatEmptySeq DEF Bytes
  <1>2. /\ Len(processed) = answered
        /\ \/ Lines(Pending) = <<>>
           \/ Len(Lines(Pending)) = 1 /\ Rest(Pending) = <<>>
    BY DEF IInv, Pace, Recv
  <1>3. /\ Taken' = Taken /\ Consumed' = Consumed
        /\ UNCHANGED <<processed, answered>> /\ pc' = "scan" /\ i' = 0
    BY NothingTaken DEF Recv, SearchFrom
  <1> QED
    BY <1>1, <1>2, <1>3 DEF IInv, Pace

\* The line that is found is the one that was pending, and all of it.
LEMMA ProcessPace == ASSUME IInv, paced, ProcessLine PROVE Pace'
  <1> DEFINE line == SubSeq(buffer, 1, find(i) + SepLen)
  <1>1. /\ line \in Bytes /\ Len(line) = find(i) + SepLen
        /\ EndsAt(line, Len(line))
        /\ \A e \in i + SepLen .. Len(line) - 1 : ~EndsAt(line, e)
        /\ line \o buffer' = buffer
        /\ Taken' = Append(Taken, line)
        /\ Consumed' = Consumed \o line
    BY LineTaken DEF IInv
  <1>2. buffer' \in Bytes /\ Len(processed') = Len(processed) + 1
    BY LineTaken DEF IInv, TypeOK, Bytes
  <1> HIDE DEF line
  <1>3. /\ Pending \in Bytes /\ inbox \in Bytes /\ Pending' \in Bytes
        /\ Pending = line \o Pending'
    <2>1. Pending \in Bytes /\ inbox \in Bytes /\ inbox' = inbox
      BY StreamLines DEF ProcessLine
    <2>2. Pending' \in Bytes /\ (line \o buffer') \o inbox = line \o (buffer' \o inbox)
      <3>1. line \in Bytes /\ buffer' \in Bytes /\ inbox \in Bytes
        BY <1>1, <1>2, <2>1
      <3>2. buffer' \o inbox \in Bytes
        BY <3>1, BytesConcat, Zenon
      <3>3. (line \o buffer') \o inbox = line \o (buffer' \o inbox)
        <4>1. \A a, b, c \in Bytes : (a \o b) \o c = a \o (b \o c)
          BY BytesConcat, Zenon
        <4> QED
          BY <3>1, <4>1, Zenon
      <3> QED
        BY <2>1, <3>2, <3>3 DEF Pending
    <2> QED
      BY <1>1, <2>1, <2>2 DEF Pending
  <1>4. Len(line) \in Nat \ {0}
    BY <1>1, SeparatorType, LenProperties DEF EndsAt, Bytes
  <1>5. Pending # <<>>
    <2>1. Len(Pending) = Len(line) + Len(Pending') /\ Len(Pending') \in Nat
      BY <1>1, <1>3, ConcatProperties, LenProperties DEF Bytes
    <2> QED
      BY <1>4, <2>1, EmptySeq
  <1>6. /\ Len(processed) = answered /\ i = 0
        /\ \/ Lines(Pending) = <<>>
           \/ Len(Lines(Pending)) = 1 /\ Rest(Pending) = <<>>
    BY <1>5 DEF IInv, Pace, ProcessLine
  <1>7. Lines(line) = <<line>> /\ Rest(line) = <<>>
    <2>1. ASSUME NEW e \in 1 .. Len(line) - 1 PROVE ~EndsAt(line, e)
      <3>1. CASE SepLen <= e
        BY <1>1, <1>4, <1>6, <3>1, SeparatorType
      <3> QED
        BY <3>1 DEF EndsAt
    <2> QED
      BY <1>1, <2>1, FirstLine
  <1>8. Lines(Consumed') = Taken' /\ Rest(Consumed') = <<>>
    <2>1. Consumed \in Bytes /\ Taken \in Seq(Bytes)
      BY TakenType DEF IInv
    <2>2. Lines(Consumed) = Taken /\ Rest(Consumed) = <<>>
      BY DEF IInv, Pace
    <2>3. Lines(Consumed \o line) = Taken \o <<line>> /\ Rest(Consumed \o line) = <<>>
      BY <1>1, <1>7, <2>1, <2>2, FramedConcat
    <2>4. Append(Taken, line) = Taken \o <<line>>
      BY <1>1, <2>1, AppendIsConcat
    <2> QED
      BY <1>1, <2>3, <2>4
  <1>9. Lines(Pending') = <<>> /\ Rest(Pending') = <<>>
    <2>1. Lines(Pending) = <<line>> \o Lines(Pending') /\ Rest(Pending) = Rest(Pending')
      BY <1>1, <1>3, <1>7, FramedConcat
    <2>2. Lines(Pending') \in Seq(Bytes) /\ <<line>> \in Seq(Bytes) /\ Len(<<line>>) = 1
      BY <1>1, <1>3, FramedType
    <2>3. Len(<<line>> \o Lines(Pending')) = 1 + Len(Lines(Pending'))
      BY <2>2, ConcatProperties
    <2>4. Len(Lines(Pending')) \in Nat
      BY <2>2, LenProperties
    <2>5. Len(Lines(Pending')) = 0 /\ Rest(Pending) = <<>>
      BY <1>6, <2>1, <2>3, <2>4, EmptySeq
    <2> QED
      BY <2>1, <2>2, <2>5, EmptySeq
  <1>10. Pending' = <<>>
    BY <1>3, <1>9, NoLineYet
  <1>11. UNCHANGED <<answered, pc>> /\ pc = "scan"
    BY DEF ProcessLine
  <1> QED
    BY <1>2, <1>6, <1>8, <1>10, <1>11 DEF Pace

\* Nothing was found: there is no line in buffer_.
LEMMA ResponsePace == ASSUME IInv, paced, SendResponse PROVE Pace'
  <1>1. /\ Taken' = Taken /\ Consumed' = Consumed /\ Pending' = Pending
        /\ UNCHANGED <<processed, buffer>> /\ answered' = Len(processed)
        /\ pc' = "idle" /\ pc = "scan" /\ find(i) = npos
    BY NothingTaken DEF SendResponse, Pending
  <1>2. buffer \in Bytes /\ inbox \in Bytes
    BY StreamLines
  <1>3. Lines(<<>>) = <<>>
    BY FramedEmpty DEF NoLines, Lines
  <1>4. CASE i = 0 /\ \/ Lines(Pending) = <<>>
                      \/ Len(Lines(Pending)) = 1 /\ Rest(Pending) = <<>>
    <2>1. \A e \in 0 + SepLen .. Len(buffer) : ~EndsAt(buffer, e)
      BY <1>1, <1>2, <1>4, FindSpec
    <2>2. ASSUME NEW e \in 1 .. Len(buffer) PROVE ~EndsAt(buffer, e)
      <3>1. CASE SepLen <= e
        BY <1>2, <2>1, <3>1, SeparatorType, LenProperties DEF Bytes
      <3> QED
        BY <3>1 DEF EndsAt
    <2>3. Lines(buffer) = <<>>
      BY <1>2, <2>2, NoSeparator
    <2> QED
      BY <1>1, <1>4, <2>3 DEF IInv, Pace
  <1>5. CASE Pending = <<>>
    <2>1. buffer = <<>>
      BY <1>2, <1>5, ConcatSimplifications DEF Pending, Bytes
    <2> QED
      BY <1>1, <1>3, <1>5, <2>1 DEF IInv, Pace
  <1> QED
    BY <1>1, <1>4, <1>5 DEF IInv, Pace

----------------------------------------------------------------------------
\* IInv holds in every state of the session.
THEOREM Inductive == Spec => []IInv
  <1>1. IInv /\ [Next]_vars => IInv'
    <2> SUFFICES ASSUME IInv, [Next]_vars PROVE IInv'
      OBVIOUS
    <2>1. TypeOK' /\ Conservation'
      BY TypeStep, ConservationStep DEF IInv
    <2>2. paced' = paced
      BY DEF Next, ClientSends, Recv, ProcessLine, SendResponse, vars
    <2>3. CASE paced
      <3>1. CASE UNCHANGED vars
        <4>1. Taken' = Taken /\ Consumed' = Consumed /\ Pending' = Pending
          BY <3>1, NothingTaken DEF Pending, vars
        <4> QED
          BY <3>1, <4>1, <2>1 DEF IInv, Pace, vars
      <3> QED
        BY <2>1, <2>3, <3>1, ClientPace, RecvPace, ProcessPace, ResponsePace
        DEF IInv, Next
    <2>4. CASE ~paced
      BY <2>1, <2>2, <2>4 DEF IInv, Pace
    <2> QED
      BY <2>3, <2>4
  <1> QED
    BY <1>1, InitIInv, PTL DEF Spec

\* The types of buffer_, i and the histories, for the steps below.
LEMMA TypeCorrect == Spec => []TypeOK
  <1>1. IInv => TypeOK
    BY DEF IInv
  <1> QED
    BY <1>1, Inductive, PTL

\* Conservation, for every separator and whatever the client sends.
THEOREM NoByteLost == Spec => []Conservation
  <1>1. IInv => Conservation
    BY DEF IInv
  <1> QED
    BY <1>1, Inductive, PTL

\* PacedLineByLine, for every separator: the search from the middle of
\* buffer_ does no harm if there is never a second line in it.
THEOREM PacedServed == Spec => []PacedLineByLine
  <1>1. IInv => PacedLineByLine
    <2> SUFFICES ASSUME IInv, paced, pc = "idle"
                 PROVE  processed = [k \in DOMAIN Lines(received) |->
                                       Payload(Lines(received)[k])]
      BY DEF PacedLineByLine, LineByLine
    <2>1. Lines(buffer) = <<>>
      BY DEF IInv, Pace
    <2>2. Taken \in Seq(Bytes) /\ Len(Taken) = Len(processed)
      BY TakenType DEF IInv
    <2>3. Lines(received) = Taken
      BY <2>1, <2>2, StreamLines, ConcatEmptySeq
    <2>4. /\ processed \in Seq(Bytes) /\ DOMAIN processed = 1 .. Len(processed)
          /\ DOMAIN Taken = 1 .. Len(processed)
      BY <2>2, LenProperties DEF IInv, TypeOK, Bytes
    <2>5. ASSUME NEW k \in 1 .. Len(processed) PROVE processed[k] = Payload(Taken[k])
      <3>1. Taken[k] = Restored(processed[k]) /\ processed[k] \in Bytes
        BY <2>4, ElementOfSeq DEF Taken
      <3>2. CASE include_separator
        BY <3>1, <3>2 DEF Payload, Restored
      <3>3. CASE ~include_separator
        <4> DEFINE d == processed[k]
                   line == d \o separator
        <4>1. d \in Bytes /\ separator \in Bytes /\ Len(d) \in Nat /\ SepLen \in Nat
          BY <3>1, SeparatorType, LenProperties DEF Bytes
        <4> HIDE DEF d
        <4>2. /\ line \in Bytes /\ Len(line) = Len(d) + SepLen
              /\ \A j \in 1 .. Len(d) : line[j] = d[j]
          BY <4>1, ConcatProperties DEF Bytes, SepLen
        <4>3. Payload(Taken[k]) = SubSeq(line, 1, Len(d))
          <5>1. Len(line) - SepLen = Len(d)
            BY <4>1, <4>2
          <5> QED
            BY <3>1, <3>3, <5>1 DEF Payload, Restored, d
        <4> HIDE DEF line
        <4>4. Len(d) \in 0 .. Len(line)
          BY <4>1, <4>2
        <4>5. /\ SubSeq(line, 1, Len(d)) \in Bytes /\ Len(SubSeq(line, 1, Len(d))) = Len(d)
              /\ \A j \in 1 .. Len(d) : SubSeq(line, 1, Len(d))[j] = line[j]
          BY <4>2, <4>4, Join
        <4>6. SubSeq(line, 1, Len(d)) = d
          BY <4>1, <4>2, <4>5, SeqEqual DEF Bytes
        <4> QED
          BY <4>3, <4>6 DEF d
      <3> QED
        BY <3>2, <3>3
    <2> QED
      BY <2>3, <2>4, <2>5, LenProperties
  <1> QED
    BY <1>1, Inductive, PTL

----------------------------------------------------------------------------
(* Lines left in buffer_. *)

\* Inside the loop i is 0 or where the last processed line had its separator.
SearchPlace ==
  /\ LastLen \in Nat
  /\ pc = "scan" => i = 0 \/ i = LastLen

\* find() gave a place in buffer_, so the argument of process() ends there.
LEMMA LineLength == ASSUME TypeOK, ProcessLine PROVE LastLen' \in Nat /\ i' = LastLen'
  <1> DEFINE at == find(i)
             arg == SubSeq(buffer, 1, LineEnd(at))
  <1>1. /\ buffer \in Bytes /\ processed \in Seq(Bytes) /\ i \in Nat
        /\ Len(buffer) \in Nat /\ Len(processed) \in Nat /\ SepLen \in Nat \ {0}
    BY LenProperties, SeparatorType DEF TypeOK, Bytes
  <1>2. at \in i .. Len(buffer) - SepLen
    BY <1>1, FindSpec DEF ProcessLine
  <1>3. processed' = Append(processed, arg) /\ i' = at
        /\ include_separator' = include_separator
    BY DEF ProcessLine, SearchNext
  <1> HIDE DEF at
  <1>4. LineEnd(at) \in 0 .. Len(buffer) /\ at \in Nat
    BY <1>1, <1>2 DEF LineEnd
  <1>5. arg \in Bytes /\ Len(arg) = LineEnd(at)
    BY <1>1, <1>4, Join
  <1> HIDE DEF arg
  <1>6. processed' # <<>> /\ Last(processed') = arg
    BY <1>1, <1>3, <1>5 DEF Last
  <1>7. LastLen' = Len(arg) - (IF include_separator THEN SepLen ELSE 0)
    BY <1>3, <1>6 DEF LastLen
  <1> QED
    BY <1>1, <1>3, <1>4, <1>5, <1>7 DEF LineEnd

LEMMA SkippedStep ==
  ASSUME TypeOK, SearchPlace, OnlyShorterSkipped, [Next]_vars
  PROVE  SearchPlace' /\ OnlyShorterSkipped'
  <1>1. CASE ProcessLine
    BY <1>1, LineLength DEF ProcessLine, SearchPlace, OnlyShorterSkipped
  <1>2. CASE SendResponse
    <2>1. /\ LastLen' = LastLen /\ buffer' = buffer /\ pc' = "idle"
          /\ LastLen \in Nat /\ i \in Nat /\ i <= LastLen /\ find(i) = npos
      BY <1>2 DEF SendResponse, SearchPlace, LastLen, TypeOK
    <2>2. buffer \in Bytes /\ Len(buffer) \in Nat /\ SepLen \in Nat \ {0}
      BY LenProperties, SeparatorType DEF TypeOK, Bytes
    <2>3. \A e \in i + SepLen .. Len(buffer) : ~EndsAt(buffer, e)
      BY <2>1, <2>2, FindSpec
    <2>4. ASSUME NEW j \in LastLen .. Len(buffer) - SepLen
          PROVE  \E k \in 1 .. SepLen : buffer[j + k] # separator[k]
      <3>1. j + SepLen \in i + SepLen .. Len(buffer) /\ SepLen <= j + SepLen
        BY <2>1, <2>2
      <3>2. ~EndsAt(buffer, j + SepLen)
        BY <2>3, <3>1, Zenon
      <3>3. PICK k \in 1 .. SepLen : separator[k] # buffer[(j + SepLen) - SepLen + k]
        BY <3>1, <3>2, Zenon DEF EndsAt
      <3>4. (j + SepLen) - SepLen + k = j + k
        BY <2>1, <2>2
      <3> QED
        BY <3>3, <3>4
    <2> QED
      BY <2>1, <2>4 DEF SearchPlace, OnlyShorterSkipped
  <1>3. CASE Recv
    <2>1. LastLen' = LastLen /\ pc' = "scan" /\ i' = 0
      BY <1>3 DEF Recv, SearchFrom, LastLen
    <2> QED
      BY <2>1 DEF SearchPlace, OnlyShorterSkipped
  <1>4. CASE UNCHANGED <<include_separator, buffer, i, pc, processed>>
    <2>1. LastLen' = LastLen
      BY <1>4 DEF LastLen
    <2> QED
      BY <1>4, <2>1 DEF SearchPlace, OnlyShorterSkipped
  <1> QED
    BY <1>1, <1>2, <1>3, <1>4 DEF Next, ClientSends, vars

\* OnlyShorterSkipped, for every separator and every cutting of the stream: the
\* search that goes on from the middle of buffer_ passes over no line that is
\* as long as the one before it.
THEOREM OnlyShorterLeft == Spec => []OnlyShorterSkipped
  <1>1. Init => SearchPlace /\ OnlyShorterSkipped
    <2> SUFFICES ASSUME Init PROVE SearchPlace /\ OnlyShorterSkipped
      OBVIOUS
    <2>1. LastLen = 0 /\ pc = "idle" /\ Len(buffer) = 0 /\ SepLen \in Nat \ {0}
      BY SeparatorType DEF Init, LastLen
    <2> QED
      BY <2>1 DEF SearchPlace, OnlyShorterSkipped
  <1>2. TypeOK /\ SearchPlace /\ OnlyShorterSkipped /\ [Next]_vars
          => SearchPlace' /\ OnlyShorterSkipped'
    BY SkippedStep
  <1> QED
    BY <1>1, <1>2, TypeCorrect, PTL DEF Spec

----------------------------------------------------------------------------
(* Whole lines. *)

\* What had been consumed after k calls of process().
UpTo(k) == FlattenSeq([j \in 1 .. k |-> Restored(processed[j])])

LEMMA WholeLinesStep ==
  ASSUME Unbordered, TypeOK, WholeLines, [Next]_vars PROVE WholeLines'
  <1>1. /\ Len(processed) \in Nat /\ DOMAIN processed = 1 .. Len(processed)
        /\ Consumed \in Bytes /\ Taken \in Seq(Bytes) /\ Len(Taken) = Len(processed)
    BY TakenType, LenProperties DEF TypeOK
  <1>2. \A k \in 1 .. Len(processed) : Rest(UpTo(k)) = <<>>
    BY <1>1 DEF WholeLines, UpTo, Rest
  <1>3. Rest(Consumed) = <<>>
    <2>1. CASE Len(processed) = 0
      <3>1. Taken = <<>>
        BY <1>1, <2>1, EmptySeq
      <3>2. Consumed = <<>>
        BY <3>1 DEF Consumed, FlattenSeq
      <3> QED
        BY <3>2, FramedEmpty DEF NoLines, Rest
    <2>2. CASE Len(processed) # 0
      <3>1. Consumed = UpTo(Len(processed)) /\ Len(processed) \in 1 .. Len(processed)
        BY <1>1, <2>2 DEF Consumed, Taken, UpTo
      <3> QED
        BY <1>2, <3>1
    <2> QED
      BY <2>1, <2>2
  <1>4. CASE ProcessLine
    <2>1. PICK line \in Bytes : /\ EndsAt(line, Len(line))
                                /\ Consumed' = Consumed \o line
      BY <1>4, LineTaken
    <2>2. /\ Len(processed') = Len(processed) + 1 /\ processed' \in Seq(Bytes)
      BY <1>4, LineTaken DEF TypeOK, Bytes
    <2>3. DOMAIN processed' = 1 .. Len(processed) + 1
      BY <2>2, LenProperties
    <2>4. /\ include_separator' = include_separator
          /\ \A k \in 1 .. Len(processed) : processed'[k] = processed[k]
      BY <1>1, <1>4 DEF ProcessLine, TypeOK
    <2> SUFFICES ASSUME NEW k \in 1 .. Len(processed) + 1
                 PROVE  Rest(FlattenSeq([j \in 1 .. k |-> Restored(processed'[j])])) = <<>>
      BY <2>3, <2>4 DEF WholeLines, Rest, Restored
    <2>5. CASE k \in 1 .. Len(processed)
      <3>1. [j \in 1 .. k |-> Restored(processed'[j])] = [j \in 1 .. k |-> Restored(processed[j])]
        BY <1>1, <2>4, <2>5
      <3> QED
        BY <1>2, <2>5, <3>1 DEF UpTo
    <2>6. CASE k = Len(processed) + 1
      <3>1. [j \in 1 .. k |-> Restored(processed'[j])] = Taken'
        BY <2>3, <2>4, <2>6 DEF Taken, Restored
      <3>2. Rest(Consumed \o line) = Rest(line)
        BY <1>1, <1>3, <2>1, FramedConcat
      <3>3. Rest(line) = <<>>
        BY <2>1, EndsWithLine
      <3> QED
        BY <2>1, <3>1, <3>2, <3>3 DEF Consumed
    <2> QED
      BY <1>1, <2>5, <2>6
  <1>5. CASE UNCHANGED <<include_separator, processed>>
    BY <1>5 DEF WholeLines, Restored
  <1> QED
    BY <1>4, <1>5 DEF Next, ClientSends, Recv, SendResponse, vars

\* WholeLines, for every separator that does not overlap itself.  With one that
\* does ("\n\n") the search from the middle of buffer_ may find it across the
\* end of a line.
THEOREM LinesWhole == ASSUME Unbordered PROVE Spec => []WholeLines
  <1>1. Init => WholeLines
    BY DEF Init, WholeLines
  <1>2. TypeOK /\ WholeLines /\ [Next]_vars => WholeLines'
    BY WholeLinesStep
  <1> QED
    BY <1>1, <1>2, TypeCorrect, PTL DEF Spec

\* The default separator, two different bytes, is one of them.
LEMMA TwoBytes ==
  ASSUME NEW a, NEW b, a # b, separator = <<a, b>> PROVE Unbordered
  BY DEF Unbordered, SepLen

============================================================================
