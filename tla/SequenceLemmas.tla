--------------------------- MODULE SequenceLemmas ---------------------------
(***************************************************************************)
(* What the proofs need to know of FlattenSeq (SequencesExt), which is     *)
(* defined by a recursive function, and the induction on it: a set of      *)
(* natural numbers that is not empty has a least element.                  *)
(***************************************************************************)
EXTENDS SequencesExt, Integers, SequenceTheorems, WellFoundedInduction, TLAPS

LEMMA LeastElement ==
  ASSUME NEW N, N \subseteq Nat, N # {}
  PROVE  \E m \in N : \A n \in N : m <= n
<1>1. IsWellFoundedOn(OpToRel(<, Nat), Nat)
  BY NatLessThanWellFounded
<1>2. PICK m \in N : \A n \in N : ~(<<n, m>> \in OpToRel(<, Nat))
  BY <1>1, WFMin
<1>3. \A n \in N : ~(n < m)
  BY <1>2 DEF OpToRel
<1>4. QED
  BY <1>3

(* Induction, for the set of the numbers a statement holds of.             *)
LEMMA Induction ==
  ASSUME NEW N, 0 \in N, \A n \in Nat : n \in N => n + 1 \in N
  PROVE  Nat \subseteq N
<1> SUFFICES ASSUME Nat \ N # {} PROVE FALSE
  OBVIOUS
<1>1. PICK m \in Nat \ N : \A n \in Nat \ N : m <= n
  BY LeastElement
<1>2. m - 1 \in Nat /\ m - 1 \in N
  BY <1>1
<1>3. (m - 1) + 1 \in N
  BY <1>2
<1>4. QED
  BY <1>1, <1>3

-----------------------------------------------------------------------------
(* The function FlattenSeq is defined by, and that there is one.           *)
Flat(ss) == CHOOSE f : f = [i \in 1 .. Len(ss) |-> IF i = 1 THEN ss[i] ELSE f[i - 1] \o ss[i]]

LEMMA FlattenIsFlat == \A ss : FlattenSeq(ss) = IF Len(ss) = 0 THEN ss ELSE Flat(ss)[Len(ss)]
  BY DEF FlattenSeq, Flat

LEMMA FlatDefined ==
  ASSUME NEW ss, Len(ss) \in Nat
  PROVE  Flat(ss) = [i \in 1 .. Len(ss) |-> IF i = 1 THEN ss[i] ELSE Flat(ss)[i - 1] \o ss[i]]
<1> DEFINE Body(f, n) == [i \in 1 .. n |-> IF i = 1 THEN ss[i] ELSE f[i - 1] \o ss[i]]
           Defined == {n \in Nat : \E f : f = Body(f, n)}
<1>1. 0 \in Defined
  <2>1. \A f : Body(f, 0) = [i \in {} |-> i]
    OBVIOUS
  <2>2. QED
    BY <2>1
<1>2. ASSUME NEW f, NEW n
      PROVE  /\ Body(f, n) = [i \in 1 .. n |-> Body(f, n)[i]]
             /\ \A i \in 1 .. n : Body(f, n)[i] = IF i = 1 THEN ss[i] ELSE f[i - 1] \o ss[i]
  OBVIOUS
<1> HIDE DEF Body
<1>3. ASSUME NEW n \in Nat, n \in Defined PROVE n + 1 \in Defined
  <2>1. PICK f : f = Body(f, n)
    BY <1>3
  <2> DEFINE g == [i \in 1 .. n + 1 |-> IF i <= n THEN f[i]
                                       ELSE IF i = 1 THEN ss[i] ELSE f[i - 1] \o ss[i]]
  <2>2. /\ g = [i \in 1 .. n + 1 |-> g[i]]
        /\ \A i \in 1 .. n + 1 :
             g[i] = IF i <= n THEN f[i] ELSE IF i = 1 THEN ss[i] ELSE f[i - 1] \o ss[i]
    OBVIOUS
  <2> HIDE DEF g
  <2>3. ASSUME NEW i \in 1 .. n + 1 PROVE g[i] = Body(g, n + 1)[i]
    <3>1. i # 1 => g[i - 1] = f[i - 1]
      <4>1. i # 1 => i - 1 \in 1 .. n + 1 /\ i - 1 <= n
        OBVIOUS
      <4>2. QED
        BY <2>2, <4>1
    <3>2. Body(g, n + 1)[i] = IF i = 1 THEN ss[i] ELSE g[i - 1] \o ss[i]
      BY <1>2
    <3>3. CASE i <= n
      <4>1. Body(f, n)[i] = IF i = 1 THEN ss[i] ELSE f[i - 1] \o ss[i]
        BY <1>2, <3>3
      <4>2. g[i] = f[i]
        BY <2>2, <3>3
      <4>3. f[i] = Body(f, n)[i]
        BY <2>1
      <4>4. QED
        BY <3>1, <3>2, <4>1, <4>2, <4>3
    <3>4. CASE i = n + 1
      <4>1. i \in 1 .. n + 1 /\ ~(i <= n)
        BY <3>4
      <4>2. g[i] = IF i = 1 THEN ss[i] ELSE f[i - 1] \o ss[i]
        BY <2>2, <4>1
      <4>3. QED
        BY <3>1, <3>2, <4>2
    <3>5. QED
      BY <3>3, <3>4
  <2>4. g = Body(g, n + 1)
    <3>1. Body(g, n + 1) = [i \in 1 .. n + 1 |-> Body(g, n + 1)[i]]
      BY <1>2
    <3>2. QED
      BY <2>2, <2>3, <3>1
  <2>5. QED
    BY <2>4
<1> HIDE DEF Defined
<1>4. Len(ss) \in Defined
  BY <1>1, <1>3, Induction
<1>5. PICK f : f = Body(f, Len(ss))
  BY <1>4 DEF Defined
<1>6. QED
  BY <1>5 DEF Flat, Body

(* FlattenSeq, one sequence more at a time.                                *)
LEMMA FlattenEmpty == FlattenSeq(<<>>) = <<>>
  BY FlattenIsFlat

LEMMA FlatSteps ==
  ASSUME NEW T, NEW ss \in Seq(Seq(T)), NEW n \in 1 .. Len(ss)
  PROVE  /\ Flat(ss)[n] = IF n = 1 THEN ss[n] ELSE Flat(ss)[n - 1] \o ss[n]
         /\ Flat(ss)[n] \in Seq(T)
<1>1. \A i \in 1 .. Len(ss) :
        Flat(ss)[i] = IF i = 1 THEN ss[i] ELSE Flat(ss)[i - 1] \o ss[i]
  <2> DEFINE F == Flat(ss)
  <2>1. F = [i \in 1 .. Len(ss) |-> IF i = 1 THEN ss[i] ELSE F[i - 1] \o ss[i]]
    <3>1. Len(ss) \in Nat
      BY LenProperties
    <3>2. QED
      BY <3>1, FlatDefined, Zenon
  <2> HIDE DEF F
  <2>2. \A i \in 1 .. Len(ss) : F[i] = IF i = 1 THEN ss[i] ELSE F[i - 1] \o ss[i]
    BY <2>1, Zenon
  <2>3. QED
    BY <2>2 DEF F
<1> DEFINE Typed == {i \in Nat : i >= 1 /\ i <= Len(ss) => Flat(ss)[i] \in Seq(T)}
<1>2. 0 \in Typed
  OBVIOUS
<1>3. ASSUME NEW i \in Nat, i \in Typed PROVE i + 1 \in Typed
  <2> SUFFICES ASSUME i + 1 <= Len(ss) PROVE Flat(ss)[i + 1] \in Seq(T)
    OBVIOUS
  <2>1. i + 1 \in 1 .. Len(ss) /\ ss[i + 1] \in Seq(T)
    BY ElementOfSeq
  <2>2. CASE i = 0
    BY <1>1, <2>1, <2>2
  <2>3. CASE i # 0
    <3>1. Flat(ss)[i] \in Seq(T)
      BY <1>3, <2>3
    <3>2. i + 1 # 1 /\ (i + 1) - 1 = i
      BY <2>3
    <3>3. Flat(ss)[i + 1] = Flat(ss)[i] \o ss[i + 1]
      BY <1>1, <2>1, <3>2
    <3>4. QED
      BY <2>1, <3>1, <3>3, ConcatProperties
  <2>4. QED
    BY <2>2, <2>3
<1>4. n \in Typed
  <2> HIDE DEF Typed
  <2>1. Nat \subseteq Typed
    BY <1>2, <1>3, Induction
  <2>2. n \in Nat
    BY LenProperties
  <2>3. QED
    BY <2>1, <2>2
<1>5. QED
  BY <1>1, <1>4

LEMMA FlattenType ==
  ASSUME NEW T, NEW ss \in Seq(Seq(T)) PROVE FlattenSeq(ss) \in Seq(T)
<1>1. CASE Len(ss) = 0
  BY <1>1, FlattenIsFlat, EmptySeq
<1>2. CASE Len(ss) # 0
  <2>1. Len(ss) \in 1 .. Len(ss)
    BY <1>2
  <2>2. QED
    BY <1>2, <2>1, FlattenIsFlat, FlatSteps
<1>3. QED
  BY <1>1, <1>2

(* Equal prefixes are flattened to the same.                               *)
LEMMA FlatPrefix ==
  ASSUME NEW T, NEW ss \in Seq(Seq(T)), NEW tt \in Seq(Seq(T)),
         NEW m \in Nat, m <= Len(ss), m <= Len(tt), \A i \in 1 .. m : ss[i] = tt[i]
  PROVE  \A i \in 1 .. m : Flat(ss)[i] = Flat(tt)[i]
<1> DEFINE Same == {i \in Nat : i >= 1 /\ i <= m => Flat(ss)[i] = Flat(tt)[i]}
<1>1. 0 \in Same
  OBVIOUS
<1>2. ASSUME NEW i \in Nat, i \in Same PROVE i + 1 \in Same
  <2> SUFFICES ASSUME i + 1 <= m PROVE Flat(ss)[i + 1] = Flat(tt)[i + 1]
    OBVIOUS
  <2>1. i + 1 \in 1 .. Len(ss) /\ i + 1 \in 1 .. Len(tt) /\ ss[i + 1] = tt[i + 1]
    OBVIOUS
  <2>2. /\ Flat(ss)[i + 1] = IF i = 0 THEN ss[i + 1] ELSE Flat(ss)[i] \o ss[i + 1]
        /\ Flat(tt)[i + 1] = IF i = 0 THEN tt[i + 1] ELSE Flat(tt)[i] \o tt[i + 1]
    <3>1. (i + 1) - 1 = i /\ (i + 1 = 1 <=> i = 0)
      OBVIOUS
    <3>2. Flat(ss)[i + 1] = IF i + 1 = 1 THEN ss[i + 1] ELSE Flat(ss)[(i + 1) - 1] \o ss[i + 1]
      BY <2>1, FlatSteps
    <3>3. Flat(tt)[i + 1] = IF i + 1 = 1 THEN tt[i + 1] ELSE Flat(tt)[(i + 1) - 1] \o tt[i + 1]
      BY <2>1, FlatSteps
    <3>4. QED
      BY <3>1, <3>2, <3>3
  <2>3. i # 0 => Flat(ss)[i] = Flat(tt)[i]
    BY <1>2
  <2>4. QED
    BY <2>1, <2>2, <2>3
<1> HIDE DEF Same
<1>3. Nat \subseteq Same
  BY <1>1, <1>2, Induction
<1>4. QED
  BY <1>3 DEF Same

LEMMA FlattenAppend ==
  ASSUME NEW T, NEW ss \in Seq(Seq(T)), NEW s \in Seq(T)
  PROVE  FlattenSeq(Append(ss, s)) = FlattenSeq(ss) \o s
<1> DEFINE tt == Append(ss, s)
           n  == Len(ss)
<1>1. /\ tt \in Seq(Seq(T)) /\ Len(tt) = n + 1 /\ tt[n + 1] = s
      /\ \A i \in 1 .. n : tt[i] = ss[i]
  BY AppendProperties
<1>2. n \in Nat
  OBVIOUS
<1> HIDE DEF tt
<1>3. FlattenSeq(tt) = Flat(tt)[n + 1]
  BY <1>1, <1>2, FlattenIsFlat
<1>4. Flat(tt)[n + 1] = IF n + 1 = 1 THEN tt[n + 1] ELSE Flat(tt)[(n + 1) - 1] \o tt[n + 1]
  <2>1. n + 1 \in 1 .. Len(tt)
    BY <1>1, <1>2
  <2>2. QED
    BY <1>1, <2>1, FlatSteps
<1>5. CASE n = 0
  <2>1. FlattenSeq(ss) = <<>>
    BY <1>5, FlattenIsFlat, EmptySeq
  <2>2. QED
    BY <1>1, <1>3, <1>4, <1>5, <2>1, ConcatEmptySeq DEF tt
<1>6. CASE n # 0
  <2>1. FlattenSeq(ss) = Flat(ss)[n]
    BY <1>6, FlattenIsFlat
  <2>2. Flat(tt)[n] = Flat(ss)[n]
    <3>1. n \in 1 .. n /\ n <= Len(ss) /\ n <= Len(tt)
      BY <1>1, <1>2, <1>6
    <3>2. \A i \in 1 .. n : Flat(tt)[i] = Flat(ss)[i]
      BY <1>1, <1>2, <3>1, FlatPrefix
    <3>3. QED
      BY <3>1, <3>2
  <2>3. (n + 1) - 1 = n /\ n + 1 # 1
    BY <1>2, <1>6
  <2>4. QED
    BY <1>1, <1>3, <1>4, <2>1, <2>2, <2>3 DEF tt
<1>7. QED
  BY <1>5, <1>6

LEMMA FlattenOne ==
  ASSUME NEW T, NEW s \in Seq(T) PROVE FlattenSeq(<<s>>) = s
<1>1. <<>> \in Seq(Seq(T)) /\ <<s>> = Append(<<>>, s)
  OBVIOUS
<1>2. FlattenSeq(<<s>>) = FlattenSeq(<<>>) \o s
  BY <1>1, FlattenAppend
<1>3. QED
  BY <1>2, FlattenEmpty, ConcatEmptySeq

LEMMA FlattenCatAppend ==
  ASSUME NEW T, NEW ss \in Seq(Seq(T)), NEW pp \in Seq(Seq(T)), NEW s \in Seq(T),
         FlattenSeq(ss \o pp) = FlattenSeq(ss) \o FlattenSeq(pp)
  PROVE  FlattenSeq(ss \o Append(pp, s)) = FlattenSeq(ss) \o FlattenSeq(Append(pp, s))
<1>1. ss \o Append(pp, s) = Append(ss \o pp, s)
  OBVIOUS
<1>2. FlattenSeq(ss \o Append(pp, s)) = FlattenSeq(ss \o pp) \o s
  <2>1. ss \o pp \in Seq(Seq(T))
    BY ConcatProperties
  <2>2. QED
    BY <1>1, <2>1, FlattenAppend
<1>3. FlattenSeq(Append(pp, s)) = FlattenSeq(pp) \o s
  BY FlattenAppend
<1>4. FlattenSeq(ss) \in Seq(T) /\ FlattenSeq(pp) \in Seq(T)
  BY FlattenType
<1>5. (FlattenSeq(ss) \o FlattenSeq(pp)) \o s = FlattenSeq(ss) \o (FlattenSeq(pp) \o s)
  BY <1>4, ConcatAssociative
<1>6. QED
  BY <1>2, <1>3, <1>5

LEMMA FlattenCat ==
  ASSUME NEW T, NEW ss \in Seq(Seq(T)), NEW tt \in Seq(Seq(T))
  PROVE  FlattenSeq(ss \o tt) = FlattenSeq(ss) \o FlattenSeq(tt)
<1> DEFINE Part(n) == SubSeq(tt, 1, n)
           Holds == {n \in Nat : n <= Len(tt) =>
                      FlattenSeq(ss \o Part(n)) = FlattenSeq(ss) \o FlattenSeq(Part(n))}
<1>1. 0 \in Holds
  <2>1. Part(0) = <<>>
    OBVIOUS
  <2>2. ss \o <<>> = ss /\ FlattenSeq(ss) \o <<>> = FlattenSeq(ss)
    BY ConcatEmptySeq, FlattenType
  <2>3. QED
    BY <2>1, <2>2, FlattenEmpty
<1>2. ASSUME NEW n \in Nat, n \in Holds PROVE n + 1 \in Holds
  <2> SUFFICES ASSUME n + 1 <= Len(tt)
               PROVE  FlattenSeq(ss \o Part(n + 1)) = FlattenSeq(ss) \o FlattenSeq(Part(n + 1))
    OBVIOUS
  <2>1. /\ Part(n) \in Seq(Seq(T)) /\ tt[n + 1] \in Seq(T)
        /\ Part(n + 1) = Append(Part(n), tt[n + 1])
    OBVIOUS
  <2>2. FlattenSeq(ss \o Part(n)) = FlattenSeq(ss) \o FlattenSeq(Part(n))
    BY <1>2
  <2>3. QED
    BY <2>1, <2>2, FlattenCatAppend
<1>3. Len(tt) \in Nat /\ Part(Len(tt)) = tt
  BY SubSeqFull
<1> HIDE DEF Holds, Part
<1>4. Len(tt) \in Holds
  BY <1>1, <1>2, <1>3, Induction
<1>5. QED
  BY <1>3, <1>4 DEF Holds

-----------------------------------------------------------------------------
LEMMA JoinInOrder ==
  ASSUME NEW T, NEW s, NEW t, NEW u, NEW v,
         s \in Seq(T), t \in Seq(T), u \in Seq(T), v = t \o u
  PROVE  (s \o t) \o u = s \o v
  BY ConcatAssociative

(* A sequence cut in its second part: what was taken and what is left make *)
(* up the whole.                                                           *)
Whole(T, o, head, tail, all) == o \o head \in Seq(T) /\ (o \o head) \o tail = o \o all

LEMMA CutAndJoin ==
  ASSUME NEW T, NEW o \in Seq(T), NEW a \in Seq(T), NEW b \in Seq(T), NEW c \in Seq(T),
         NEW k \in Nat, k <= Len(b)
  PROVE  Whole(T, o, SubSeq((a \o b) \o c, 1, Len(a) + k), SubSeq(b, k + 1, Len(b)) \o c,
               (a \o b) \o c)
<1> DEFINE all  == (a \o b) \o c
           head == SubSeq(all, 1, Len(a) + k)
           tail == SubSeq(b, k + 1, Len(b)) \o c
<1>1. /\ all \in Seq(T) /\ Len(all) = Len(a) + Len(b) + Len(c)
      /\ head \in Seq(T) /\ Len(head) = Len(a) + k
      /\ \A i \in 1 .. Len(a) + k : head[i] = all[i]
  OBVIOUS
<1>2. /\ tail \in Seq(T) /\ Len(tail) = Len(b) - k + Len(c)
      /\ \A i \in 1 .. Len(b) - k + Len(c) : tail[i] = all[Len(a) + k + i]
  <2> DEFINE rest == SubSeq(b, k + 1, Len(b))
  <2>1. /\ rest \in Seq(T) /\ Len(rest) = Len(b) - k
        /\ \A i \in 1 .. Len(b) - k : rest[i] = b[k + i]
    OBVIOUS
  <2>2. Len(a) \in Nat /\ Len(b) \in Nat /\ Len(c) \in Nat
    OBVIOUS
  <2> HIDE DEF rest
  <2>3. /\ rest \o c \in Seq(T) /\ Len(rest \o c) = Len(b) - k + Len(c)
        /\ \A i \in 1 .. Len(b) - k + Len(c) :
             (rest \o c)[i] = IF i <= Len(b) - k THEN b[k + i] ELSE c[i - (Len(b) - k)]
    <3>1. /\ rest \o c \in Seq(T) /\ Len(rest \o c) = Len(rest) + Len(c)
          /\ \A i \in 1 .. Len(rest) + Len(c) :
               (rest \o c)[i] = IF i <= Len(rest) THEN rest[i] ELSE c[i - Len(rest)]
      BY <2>1, ConcatProperties, Zenon
    <3>2. QED
      BY <2>1, <2>2, <3>1
  <2>4. \A i \in 1 .. Len(a) + Len(b) + Len(c) :
          all[i] = IF i <= Len(a) THEN a[i]
                   ELSE IF i <= Len(a) + Len(b) THEN b[i - Len(a)]
                   ELSE c[i - (Len(a) + Len(b))]
    OBVIOUS
  <2>5. ASSUME NEW i \in 1 .. Len(b) - k + Len(c)
        PROVE  (rest \o c)[i] = all[Len(a) + k + i]
    <3>1. /\ Len(a) + k + i \in 1 .. Len(a) + Len(b) + Len(c) /\ ~(Len(a) + k + i <= Len(a))
          /\ (Len(a) + k + i <= Len(a) + Len(b)) <=> (i <= Len(b) - k)
          /\ (Len(a) + k + i) - Len(a) = k + i
          /\ (Len(a) + k + i) - (Len(a) + Len(b)) = i - (Len(b) - k)
      BY <2>2
    <3> HIDE DEF all
    <3>2. QED
      BY <2>3, <2>4, <3>1
  <2>6. QED
    BY <2>3, <2>5 DEF rest
<1> HIDE DEF all, head, tail
<1>3. all = head \o tail
  <2>1. Len(a) \in Nat /\ Len(b) \in Nat /\ Len(c) \in Nat
    OBVIOUS
  <2>2. /\ head \o tail \in Seq(T) /\ Len(head \o tail) = Len(head) + Len(tail)
        /\ \A i \in 1 .. Len(head) + Len(tail) :
             (head \o tail)[i] = IF i <= Len(head) THEN head[i] ELSE tail[i - Len(head)]
    <3>1. head \in Seq(T) /\ tail \in Seq(T)
      BY <1>1, <1>2
    <3>2. QED
      BY <3>1, ConcatProperties, Zenon
  <2>3. Len(head) + Len(tail) = Len(all)
    BY <1>1, <1>2, <2>1
  <2>4. ASSUME NEW i \in 1 .. Len(all) PROVE (head \o tail)[i] = all[i]
    <3>1. CASE i <= Len(head)
      BY <1>1, <2>1, <2>2, <2>3, <3>1
    <3>2. CASE ~(i <= Len(head))
      <4>1. (head \o tail)[i] = tail[i - Len(head)]
        BY <2>2, <2>3, <3>2
      <4>2. i - Len(head) \in 1 .. Len(b) - k + Len(c) /\ Len(a) + k + (i - Len(head)) = i
        BY <1>1, <2>1, <3>2
      <4>3. QED
        BY <1>2, <4>1, <4>2
    <3>3. QED
      BY <3>1, <3>2
  <2>5. QED
    BY <1>1, <2>2, <2>3, <2>4, SeqEqual
<1>4. (o \o head) \o tail = o \o all
  <2>1. head \in Seq(T) /\ tail \in Seq(T)
    BY <1>1, <1>2
  <2>2. QED
    BY <1>3, <2>1, JoinInOrder
<1>5. o \o head \in Seq(T)
  BY <1>1, ConcatProperties
<1>6. Whole(T, o, head, tail, all)
  BY <1>4, <1>5 DEF Whole
<1>7. QED
  BY <1>6 DEF all, head, tail

LEMMA FirstAlone ==
  ASSUME NEW T, NEW s \in Seq(T), 1 \in 1 .. Len(s) PROVE SubSeq(s, 1, 1) = <<s[1]>>
<1>1. /\ SubSeq(s, 1, 1) \in Seq(T) /\ Len(SubSeq(s, 1, 1)) = 1
      /\ SubSeq(s, 1, 1)[1] = s[1] /\ s[1] \in T
  OBVIOUS
<1>2. <<s[1]>> \in Seq(T) /\ Len(<<s[1]>>) = 1 /\ <<s[1]>>[1] = s[1]
  BY <1>1
<1> DEFINE u == SubSeq(s, 1, 1)
           v == <<s[1]>>
<1>3. /\ u \in Seq(T) /\ v \in Seq(T) /\ Len(u) = 1 /\ Len(v) = 1 /\ u[1] = v[1]
  BY <1>1, <1>2
<1> HIDE DEF u, v
<1>4. u = v
  BY <1>3, SeqEqual
<1>5. QED
  BY <1>4 DEF u, v

LEMMA RestOfCat ==
  ASSUME NEW T, NEW s \in Seq(T), NEW t \in Seq(T), NEW k \in Nat, k <= Len(s)
  PROVE  SubSeq(s \o t, k + 1, Len(s \o t)) = SubSeq(s, k + 1, Len(s)) \o t
<1> DEFINE c == s \o t
           r == SubSeq(s, k + 1, Len(s))
           u == SubSeq(c, k + 1, Len(c))
           v == r \o t
<1>1. /\ c \in Seq(T) /\ Len(c) = Len(s) + Len(t) /\ Len(s) \in Nat /\ Len(t) \in Nat
      /\ \A i \in 1 .. Len(s) + Len(t) : c[i] = IF i <= Len(s) THEN s[i] ELSE t[i - Len(s)]
  BY ConcatProperties, LenProperties
<1>2. /\ r \in Seq(T) /\ Len(r) = Len(s) - k
      /\ \A i \in 1 .. Len(s) - k : r[i] = s[k + i]
  OBVIOUS
<1> HIDE DEF c
<1>3. /\ u \in Seq(T) /\ Len(u) = Len(c) - k
      /\ \A i \in 1 .. Len(c) - k : u[i] = c[k + i]
  BY <1>1
<1> HIDE DEF r
<1>4. /\ v \in Seq(T) /\ Len(v) = Len(r) + Len(t)
      /\ \A i \in 1 .. Len(r) + Len(t) : v[i] = IF i <= Len(r) THEN r[i] ELSE t[i - Len(r)]
  BY <1>2, ConcatProperties, Zenon
<1> HIDE DEF u, v
<1>5. Len(u) = Len(v)
  BY <1>1, <1>2, <1>3, <1>4
<1>6. ASSUME NEW i \in 1 .. Len(u) PROVE u[i] = v[i]
  <2>1. /\ i \in 1 .. Len(c) - k /\ i \in 1 .. Len(r) + Len(t)
        /\ k + i \in 1 .. Len(s) + Len(t)
        /\ (k + i <= Len(s)) <=> (i <= Len(r))
        /\ (k + i) - Len(s) = i - Len(r)
        /\ i <= Len(r) => i \in 1 .. Len(s) - k
    BY <1>1, <1>2, <1>3
  <2>2. u[i] = c[k + i]
    BY <1>3, <2>1
  <2>3. c[k + i] = IF k + i <= Len(s) THEN s[k + i] ELSE t[(k + i) - Len(s)]
    BY <1>1, <2>1
  <2>4. v[i] = IF i <= Len(r) THEN r[i] ELSE t[i - Len(r)]
    BY <1>4, <2>1
  <2>5. i <= Len(r) => r[i] = s[k + i]
    BY <1>2, <2>1
  <2>6. QED
    BY <2>1, <2>2, <2>3, <2>4, <2>5
<1>7. u = v
  BY <1>3, <1>4, <1>5, <1>6, SeqEqual
<1>8. QED
  BY <1>7 DEF u, v, r, c

LEMMA RestOfRest ==
  ASSUME NEW T, NEW s \in Seq(T), NEW i \in Nat, NEW k \in Nat, i + k <= Len(s),
         NEW r, r = SubSeq(s, i + 1, Len(s))
  PROVE  SubSeq(s, (i + k) + 1, Len(s)) = SubSeq(r, k + 1, Len(r))
<1>1. /\ r \in Seq(T) /\ Len(r) = Len(s) - i /\ Len(s) \in Nat
      /\ \A j \in 1 .. Len(s) - i : r[j] = s[i + j]
  OBVIOUS
<1> DEFINE t == SubSeq(s, (i + k) + 1, Len(s))
           u == SubSeq(r, k + 1, Len(r))
<1>2. /\ t \in Seq(T) /\ Len(t) = Len(s) - (i + k)
      /\ \A j \in 1 .. Len(s) - (i + k) : t[j] = s[(i + k) + j]
  OBVIOUS
<1>3. /\ u \in Seq(T) /\ Len(u) = Len(r) - k
      /\ \A j \in 1 .. Len(r) - k : u[j] = r[k + j]
  BY <1>1
<1> HIDE DEF t, u
<1>4. ASSUME NEW j \in 1 .. Len(t) PROVE t[j] = u[j]
  <2>1. k + j \in 1 .. Len(s) - i /\ i + (k + j) = (i + k) + j /\ j \in 1 .. Len(r) - k
    BY <1>1, <1>2
  <2>2. QED
    BY <1>1, <1>2, <1>3, <2>1
<1>5. Len(t) = Len(u)
  BY <1>1, <1>2, <1>3
<1>6. t = u
  BY <1>2, <1>3, <1>4, <1>5, SeqEqual
<1>7. QED
  BY <1>6 DEF t, u

(* A set of integers with a bound has a greatest element.                  *)
LEMMA GreatestElement ==
  ASSUME NEW N, N \subseteq Int, N # {}, NEW b \in Int, \A n \in N : n <= b
  PROVE  Max(N) \in N /\ \A n \in N : n <= Max(N)
<1> DEFINE Below == {k \in Nat : b - k \in N}
<1>1. Below # {}
  <2>1. PICK n \in N : TRUE
    OBVIOUS
  <2>2. b - n \in Nat /\ b - (b - n) = n
    BY <2>1
  <2>3. QED
    BY <2>1, <2>2
<1>2. PICK k \in Below : \A j \in Below : k <= j
  BY <1>1, LeastElement
<1>3. \A n \in N : b - n \in Below
  <2>1. \A n \in N : b - n \in Nat /\ b - (b - n) = n
    OBVIOUS
  <2>2. QED
    BY <2>1
<1>4. b - k \in N /\ \A n \in N : b - k >= n
  BY <1>2, <1>3
<1>5. QED
  BY <1>4 DEF Max

LEMMA SmallerOfTwo ==
  ASSUME NEW a \in Int, NEW b \in Int
  PROVE  Min({a, b}) = IF a <= b THEN a ELSE b
<1> DEFINE m == IF a <= b THEN a ELSE b
<1>1. m \in {a, b} /\ \A y \in {a, b} : m <= y
  OBVIOUS
<1>2. \A x \in {a, b} : (\A y \in {a, b} : x <= y) => x = m
  OBVIOUS
<1>3. QED
  BY <1>1, <1>2 DEF Min
-----------------------------------------------------------------------------
(* Slices of output: n of the sequences ss, read up to position p of slice *)
(* t, the slices counted from 0.                                           *)
AtSlice(T, ss, n, t, p) ==
  /\ ss \in Seq(Seq(T)) /\ n \in Nat /\ n <= Len(ss)
  /\ \A u \in 0 .. n - 1 : ss[u + 1] # <<>>
  /\ t \in Nat /\ t <= n /\ p \in Nat
  /\ t < n => p < Len(ss[t + 1])

(* What is left of a slice, what is left before it, and what follows.      *)
SliceRest(ss, t, p, u) == IF u = t THEN SubSeq(ss[u + 1], p + 1, Len(ss[u + 1])) ELSE ss[u + 1]
SlicesTo(ss, t, p, u)  == FlattenSeq([i \in 1 .. u - t |-> SliceRest(ss, t, p, t + i - 1)])
SlicesAfter(ss, n, u)  == FlattenSeq([i \in 1 .. n - u |-> ss[(u + i - 1) + 1]])


LEMMA SliceRestType ==
  ASSUME NEW T, NEW ss, NEW n, NEW t, NEW p, AtSlice(T, ss, n, t, p),
         NEW u \in Nat, t <= u, u < n
  PROVE  /\ ss[u + 1] \in Seq(T) /\ SliceRest(ss, t, p, u) \in Seq(T)
         /\ u = t => Len(SliceRest(ss, t, p, u)) = Len(ss[u + 1]) - p
         /\ u # t => SliceRest(ss, t, p, u) = ss[u + 1]
         /\ Len(SliceRest(ss, t, p, u)) > 0
<1>1. u + 1 \in 1 .. Len(ss) /\ u \in 0 .. n - 1
  BY DEF AtSlice
<1>2. ss[u + 1] \in Seq(T)
  <2>1. ss \in Seq(Seq(T))
    BY DEF AtSlice
  <2>2. QED
    BY <1>1, <2>1, ElementOfSeq
<1>3. ss[u + 1] # <<>>
  BY <1>1 DEF AtSlice
<1>4. CASE u = t
  <2>1. p \in Nat /\ p < Len(ss[u + 1])
    BY <1>4 DEF AtSlice
  <2> DEFINE s == ss[u + 1]
  <2>2. s \in Seq(T) /\ p \in Nat /\ p < Len(s)
    BY <1>2, <2>1
  <2> HIDE DEF s
  <2>3. /\ SubSeq(s, p + 1, Len(s)) \in Seq(T)
        /\ Len(SubSeq(s, p + 1, Len(s))) = Len(s) - p
    BY <2>2
  <2>4. SliceRest(ss, t, p, u) = SubSeq(s, p + 1, Len(s))
    BY <1>4 DEF SliceRest, s
  <2>5. QED
    BY <1>2, <1>4, <2>2, <2>3, <2>4 DEF s
<1>5. CASE u # t
  BY <1>2, <1>3, <1>5 DEF SliceRest
<1>6. QED
  BY <1>4, <1>5

(* What is written up to a slice, that slice, and what follows.            *)
LEMMA SlicesSplit ==
  ASSUME NEW T, NEW ss, NEW n, NEW t, NEW p, AtSlice(T, ss, n, t, p),
         NEW u \in Nat, t <= u, u < n
  PROVE  /\ SlicesTo(ss, t, p, u) \in Seq(T) /\ SlicesAfter(ss, n, u + 1) \in Seq(T)
         /\ SlicesTo(ss, t, p, u + 1) = SlicesTo(ss, t, p, u) \o SliceRest(ss, t, p, u)
         /\ SlicesTo(ss, t, p, n)
              = (SlicesTo(ss, t, p, u) \o SliceRest(ss, t, p, u)) \o SlicesAfter(ss, n, u + 1)
<1> DEFINE before == [i \in 1 .. u - t |-> SliceRest(ss, t, p, t + i - 1)]
           after  == [i \in 1 .. n - (u + 1) |-> ss[((u + 1) + i - 1) + 1]]
           upTo   == [i \in 1 .. (u + 1) - t |-> SliceRest(ss, t, p, t + i - 1)]
           all    == [i \in 1 .. n - t |-> SliceRest(ss, t, p, t + i - 1)]
<1>1. t \in Nat /\ n \in Nat
  BY DEF AtSlice
<1>2. \A v \in Nat : t <= v /\ v < n =>
        /\ SliceRest(ss, t, p, v) \in Seq(T) /\ ss[(v) + 1] \in Seq(T)
        /\ v # t => SliceRest(ss, t, p, v) = ss[(v) + 1]
  BY SliceRestType
<1>3. before \in Seq(Seq(T)) /\ Len(before) = u - t
  <2>1. \A i \in 1 .. u - t : SliceRest(ss, t, p, t + i - 1) \in Seq(T)
    BY <1>1, <1>2
  <2>2. QED
    BY <1>1, <2>1
<1>4. after \in Seq(Seq(T)) /\ Len(after) = n - (u + 1)
  <2>1. ASSUME NEW i \in 1 .. n - (u + 1) PROVE ss[((u + 1) + i - 1) + 1] \in Seq(T)
    <3> DEFINE v == (u + 1) + i - 1
    <3>1. v \in Nat /\ t <= v /\ v < n
      BY <1>1
    <3> HIDE DEF v
    <3>2. ss[v + 1] \in Seq(T)
      BY <1>2, <3>1
    <3>3. QED
      BY <3>2 DEF v
  <2>2. QED
    BY <1>1, <2>1
<1>5. upTo = Append(before, SliceRest(ss, t, p, u))
  <2>1. upTo \in Seq(Seq(T)) /\ Len(upTo) = (u + 1) - t
    <3>1. \A i \in 1 .. (u + 1) - t : SliceRest(ss, t, p, t + i - 1) \in Seq(T)
      BY <1>1, <1>2
    <3>2. QED
      BY <1>1, <3>1
  <2>2. /\ Append(before, SliceRest(ss, t, p, u)) \in Seq(Seq(T))
        /\ Len(Append(before, SliceRest(ss, t, p, u))) = (u - t) + 1
        /\ \A i \in 1 .. u - t : Append(before, SliceRest(ss, t, p, u))[i] = before[i]
        /\ Append(before, SliceRest(ss, t, p, u))[(u - t) + 1] = SliceRest(ss, t, p, u)
    <3>1. SliceRest(ss, t, p, u) \in Seq(T)
      BY <1>2
    <3> HIDE DEF before
    <3>2. QED
      BY <1>3, <3>1, AppendProperties
  <2>3. ASSUME NEW i \in 1 .. (u + 1) - t PROVE upTo[i] = Append(before, SliceRest(ss, t, p, u))[i]
    <3>1. CASE i <= u - t
      BY <1>1, <2>2, <3>1
    <3>2. CASE i = (u - t) + 1
      <4>1. upTo[i] = SliceRest(ss, t, p, t + i - 1) /\ t + i - 1 = u
        BY <1>1, <3>2
      <4>2. QED
        BY <2>2, <3>2, <4>1
    <3>3. QED
      BY <1>1, <3>1, <3>2
  <2> HIDE DEF upTo, before
  <2>4. Len(upTo) = Len(Append(before, SliceRest(ss, t, p, u)))
    BY <1>1, <2>1, <2>2
  <2>5. QED
    BY <2>1, <2>2, <2>3, <2>4, SeqEqual
<1>6. all = upTo \o after
  <2>1. all \in Seq(Seq(T)) /\ Len(all) = n - t
    <3>1. \A i \in 1 .. n - t : SliceRest(ss, t, p, t + i - 1) \in Seq(T)
      BY <1>1, <1>2
    <3>2. QED
      BY <1>1, <3>1
  <2>2. upTo \in Seq(Seq(T)) /\ Len(upTo) = (u + 1) - t
    <3>1. \A i \in 1 .. (u + 1) - t : SliceRest(ss, t, p, t + i - 1) \in Seq(T)
      BY <1>1, <1>2
    <3>2. QED
      BY <1>1, <3>1
  <2>3. ASSUME NEW i \in 1 .. n - t
        PROVE  all[i] = IF i <= (u + 1) - t THEN upTo[i] ELSE after[i - ((u + 1) - t)]
    <3>1. CASE i <= (u + 1) - t
      BY <1>1, <3>1
    <3>2. CASE ~(i <= (u + 1) - t)
      <4> DEFINE j == i - ((u + 1) - t)
      <4>1. /\ j \in 1 .. n - (u + 1) /\ (u + 1) + j - 1 = t + i - 1
            /\ t + i - 1 \in Nat /\ t < t + i - 1
            /\ t + i - 1 < n
        BY <1>1, <3>2
      <4>2. after[j] = ss[(t + i - 1) + 1]
        BY <4>1
      <4>3. SliceRest(ss, t, p, t + i - 1) = ss[(t + i - 1) + 1]
        BY <1>1, <1>2, <4>1
      <4>4. QED
        BY <3>2, <4>2, <4>3
    <3>3. QED
      BY <3>1, <3>2
  <2> HIDE DEF all, upTo, after
  <2>4. /\ upTo \o after \in Seq(Seq(T))
        /\ Len(upTo \o after) = n - t
        /\ \A i \in 1 .. n - t : (upTo \o after)[i] =
             IF i <= (u + 1) - t THEN upTo[i] ELSE after[i - ((u + 1) - t)]
    <3>1. Len(upTo) + Len(after) = n - t
      BY <1>1, <1>4, <2>2
    <3>2. upTo \in Seq(Seq(T)) /\ after \in Seq(Seq(T))
      BY <1>4, <2>2
    <3>3. /\ upTo \o after \in Seq(Seq(T))
          /\ Len(upTo \o after) = Len(upTo) + Len(after)
          /\ \A i \in 1 .. Len(upTo) + Len(after) :
               (upTo \o after)[i] = IF i <= Len(upTo) THEN upTo[i] ELSE after[i - Len(upTo)]
      BY <3>2, ConcatProperties, Zenon
    <3>4. QED
      BY <2>2, <3>1, <3>3
  <2>5. QED
    BY <2>1, <2>3, <2>4, SeqEqual
<1>7. /\ SlicesTo(ss, t, p, u) = FlattenSeq(before) /\ SlicesAfter(ss, n, u + 1) = FlattenSeq(after)
      /\ SlicesTo(ss, t, p, u + 1) = FlattenSeq(upTo) /\ SlicesTo(ss, t, p, n) = FlattenSeq(all)
  BY DEF SlicesTo, SlicesAfter
<1> HIDE DEF before, after, upTo, all
<1>8. SliceRest(ss, t, p, u) \in Seq(T)
  BY <1>2
<1>9. FlattenSeq(before) \in Seq(T) /\ FlattenSeq(after) \in Seq(T)
  BY <1>3, <1>4, FlattenType
<1>10. FlattenSeq(upTo) = FlattenSeq(before) \o SliceRest(ss, t, p, u)
  BY <1>3, <1>5, <1>8, FlattenAppend
<1>11. FlattenSeq(all) = FlattenSeq(upTo) \o FlattenSeq(after)
  <2>1. upTo \in Seq(Seq(T))
    BY <1>3, <1>5, <1>8, AppendProperties
  <2>2. QED
    BY <1>4, <1>6, <2>1, FlattenCat
<1>12. QED
  BY <1>7, <1>9, <1>10, <1>11

LEMMA SlicesToHere ==
  ASSUME NEW T, NEW ss, NEW n, NEW t, NEW p, AtSlice(T, ss, n, t, p)
  PROVE  SlicesTo(ss, t, p, t) = <<>>
<1>1. t - t = 0
  BY DEF AtSlice
<1>2. SlicesTo(ss, t, p, t) = FlattenSeq([i \in 1 .. 0 |-> SliceRest(ss, t, p, t + i - 1)])
  BY <1>1, Zenon DEF SlicesTo
<1>3. [i \in 1 .. 0 |-> SliceRest(ss, t, p, t + i - 1)] = <<>>
  OBVIOUS
<1>4. QED
  BY <1>2, <1>3, FlattenEmpty

LEMMA SlicesToEnd ==
  ASSUME NEW T, NEW ss, NEW n, NEW t, NEW p, AtSlice(T, ss, n, t, p)
  PROVE  /\ SlicesTo(ss, t, p, n) \in Seq(T)
         /\ t = n => SlicesTo(ss, t, p, n) = <<>>
         /\ t < n => Len(SlicesTo(ss, t, p, n)) > 0
<1>1. CASE t = n
  <2>1. SlicesTo(ss, t, p, n) = <<>>
    BY <1>1, SlicesToHere, Zenon DEF SlicesTo
  <2>2. ~(t < n)
    BY <1>1 DEF AtSlice
  <2>3. QED
    BY <2>1, <2>2, EmptySeq
<1>2. CASE t < n
  <2>1. t \in Nat
    BY DEF AtSlice
  <2>2. /\ SlicesTo(ss, t, p, t) \in Seq(T) /\ SlicesAfter(ss, n, t + 1) \in Seq(T)
        /\ SlicesTo(ss, t, p, n) = (SlicesTo(ss, t, p, t) \o SliceRest(ss, t, p, t)) \o SlicesAfter(ss, n, t + 1)
    BY <1>2, <2>1, SlicesSplit
  <2>3. SliceRest(ss, t, p, t) \in Seq(T) /\ Len(SliceRest(ss, t, p, t)) > 0
    BY <1>2, <2>1, SliceRestType
  <2> DEFINE a == SlicesTo(ss, t, p, t)
             b == SliceRest(ss, t, p, t)
             c == SlicesAfter(ss, n, t + 1)
  <2>4. a \in Seq(T) /\ b \in Seq(T) /\ c \in Seq(T) /\ Len(b) > 0
    BY <2>2, <2>3
  <2> HIDE DEF a, b, c
  <2>5. (a \o b) \o c \in Seq(T) /\ Len((a \o b) \o c) > 0
    BY <2>4
  <2>6. SlicesTo(ss, t, p, n) = (a \o b) \o c
    BY <2>2 DEF a, b, c
  <2>7. t # n
    BY <1>2 DEF AtSlice
  <2>8. QED
    BY <2>5, <2>6, <2>7
<1>3. QED
  BY <1>1, <1>2 DEF AtSlice

LEMMA SlicesFromHere ==
  ASSUME NEW T, NEW ss, NEW n, NEW t, NEW p, AtSlice(T, ss, n, t, p), t < n
  PROVE  SlicesTo(ss, t, p, n) = SliceRest(ss, t, p, t) \o SlicesAfter(ss, n, t + 1)
<1>1. t \in Nat
  BY DEF AtSlice
<1>2. SlicesTo(ss, t, p, n) = (SlicesTo(ss, t, p, t) \o SliceRest(ss, t, p, t)) \o SlicesAfter(ss, n, t + 1)
  BY <1>1, SlicesSplit
<1>3. <<>> \o SliceRest(ss, t, p, t) = SliceRest(ss, t, p, t)
  BY <1>1, SliceRestType, ConcatEmptySeq
<1>4. QED
  BY <1>2, <1>3, SlicesToHere

(* The second of two sequences is what comes after the first.              *)
LEMMA RestOfFirst ==
  ASSUME NEW T, NEW s \in Seq(T), NEW t \in Seq(T)
  PROVE  t = SubSeq(s \o t, Len(s) + 1, Len(s \o t))
<1>1. SubSeq(s \o t, Len(s) + 1, Len(s \o t)) = SubSeq(s, Len(s) + 1, Len(s)) \o t
  BY RestOfCat, LenProperties
<1>2. SubSeq(s, Len(s) + 1, Len(s)) = <<>>
  BY LenProperties
<1>3. QED
  BY <1>1, <1>2, ConcatEmptySeq

(* A sequence is what comes before a cut and what comes after it.          *)
LEMMA CutAnywhere ==
  ASSUME NEW T, NEW s \in Seq(T), NEW k \in Nat, k <= Len(s)
  PROVE  /\ SubSeq(s, 1, k) \in Seq(T) /\ SubSeq(s, k + 1, Len(s)) \in Seq(T)
         /\ Len(SubSeq(s, 1, k)) = k /\ Len(SubSeq(s, k + 1, Len(s))) = Len(s) - k
         /\ SubSeq(s, 1, k) \o SubSeq(s, k + 1, Len(s)) = s
<1> DEFINE a == SubSeq(s, 1, k)
           b == SubSeq(s, k + 1, Len(s))
<1>1. /\ a \in Seq(T) /\ Len(a) = k /\ \A i \in 1 .. k : a[i] = s[i]
      /\ b \in Seq(T) /\ Len(b) = Len(s) - k /\ \A i \in 1 .. Len(s) - k : b[i] = s[k + i]
  OBVIOUS
<1> HIDE DEF a, b
<1>2. /\ a \o b \in Seq(T) /\ Len(a \o b) = Len(a) + Len(b)
      /\ \A i \in 1 .. Len(a) + Len(b) : (a \o b)[i] = IF i <= Len(a) THEN a[i] ELSE b[i - Len(a)]
  BY <1>1, ConcatProperties, Zenon
<1>3. Len(s) \in Nat
  BY LenProperties
<1>4. Len(a \o b) = Len(s)
  BY <1>1, <1>2, <1>3
<1>5. ASSUME NEW i \in 1 .. Len(s) PROVE (a \o b)[i] = s[i]
  <2>1. CASE i <= k
    BY <1>1, <1>2, <1>3, <2>1
  <2>2. CASE ~(i <= k)
    <3>1. i - k \in 1 .. Len(s) - k /\ k + (i - k) = i /\ i \in 1 .. Len(a) + Len(b)
      BY <1>1, <1>3, <2>2
    <3>2. b[i - k] = s[k + (i - k)]
      BY <1>1, <3>1
    <3>3. QED
      BY <1>1, <1>2, <2>2, <3>1, <3>2
  <2>3. QED
    BY <2>1, <2>2
<1>6. a \o b = s
  BY <1>2, <1>4, <1>5, SeqEqual
<1>7. QED
  BY <1>1, <1>6 DEF a, b

LEMMA SlicesSplitAnywhere ==
  ASSUME NEW T, NEW ss, NEW n, NEW t, NEW p, AtSlice(T, ss, n, t, p)
  PROVE  \A v \in Nat : t <= v /\ v < n =>
           /\ SlicesTo(ss, t, p, v) \in Seq(T) /\ SlicesAfter(ss, n, v + 1) \in Seq(T)
           /\ SlicesTo(ss, t, p, v + 1) = SlicesTo(ss, t, p, v) \o SliceRest(ss, t, p, v)
           /\ SlicesTo(ss, t, p, n)
                = (SlicesTo(ss, t, p, v) \o SliceRest(ss, t, p, v)) \o SlicesAfter(ss, n, v + 1)
<1> SUFFICES ASSUME NEW v \in Nat, t <= v, v < n
             PROVE  /\ SlicesTo(ss, t, p, v) \in Seq(T) /\ SlicesAfter(ss, n, v + 1) \in Seq(T)
                    /\ SlicesTo(ss, t, p, v + 1) = SlicesTo(ss, t, p, v) \o SliceRest(ss, t, p, v)
                    /\ SlicesTo(ss, t, p, n)
                         = (SlicesTo(ss, t, p, v) \o SliceRest(ss, t, p, v)) \o SlicesAfter(ss, n, v + 1)
  OBVIOUS
<1>1. QED
  BY SlicesSplit

(* To take k from the slices is to go to the last slice that is reached.   *)
SliceReached(ss, t, p, n, k) == Max({u \in t .. n : Len(SlicesTo(ss, t, p, u)) <= k})
PlaceReached(ss, t, p, n, k) ==
  (IF SliceReached(ss, t, p, n, k) = t THEN p ELSE 0)
    + k - Len(SlicesTo(ss, t, p, SliceReached(ss, t, p, n, k)))

LEMMA SlicesTake ==
  ASSUME NEW T, NEW ss, NEW n, NEW t, NEW p, AtSlice(T, ss, n, t, p),
         NEW k \in Nat, k <= Len(SlicesTo(ss, t, p, n))
  PROVE  /\ SliceReached(ss, t, p, n, k) \in t .. n
         /\ AtSlice(T, ss, n, SliceReached(ss, t, p, n, k), PlaceReached(ss, t, p, n, k))
         /\ SlicesTo(ss, SliceReached(ss, t, p, n, k), PlaceReached(ss, t, p, n, k), n)
              = SubSeq(SlicesTo(ss, t, p, n), k + 1, Len(SlicesTo(ss, t, p, n)))
         /\ SliceReached(ss, t, p, n, k) = n <=> k = Len(SlicesTo(ss, t, p, n))
         /\ SliceReached(ss, t, p, n, k) = n /\ (t = n => p = 0) => PlaceReached(ss, t, p, n, k) = 0
<1>a. \A v, x : AtSlice(T, ss, n, v, x) /\ v < n =>
        SlicesTo(ss, v, x, n) = SliceRest(ss, v, x, v) \o SlicesAfter(ss, n, v + 1)
  BY SlicesFromHere, Zenon
<1>b. \A v \in Nat : t <= v /\ v < n =>
        /\ SlicesTo(ss, t, p, v) \in Seq(T) /\ SlicesAfter(ss, n, v + 1) \in Seq(T)
        /\ SlicesTo(ss, t, p, v + 1) = SlicesTo(ss, t, p, v) \o SliceRest(ss, t, p, v)
        /\ SlicesTo(ss, t, p, n)
             = (SlicesTo(ss, t, p, v) \o SliceRest(ss, t, p, v)) \o SlicesAfter(ss, n, v + 1)
  BY SlicesSplitAnywhere
<1> DEFINE all  == SlicesTo(ss, t, p, n)
           next == SliceReached(ss, t, p, n, k)
           q    == PlaceReached(ss, t, p, n, k)
           ready == {u \in t .. n : Len(SlicesTo(ss, t, p, u)) <= k}
           base  == IF next = t THEN p ELSE 0
<1>d. /\ all = SlicesTo(ss, t, p, n) /\ k <= Len(all)
      /\ next = Max(ready)
      /\ q = base + k - Len(SlicesTo(ss, t, p, next))
  BY DEF SliceReached, PlaceReached
<1> HIDE DEF all, next, q
<1> SUFFICES /\ next \in t .. n /\ AtSlice(T, ss, n, next, q)
             /\ SlicesTo(ss, next, q, n) = SubSeq(all, k + 1, Len(all))
             /\ next = n <=> k = Len(all)
             /\ next = n /\ (t = n => p = 0) => q = 0
  BY DEF all, next, q
<1>1. /\ t \in Nat /\ n \in Nat /\ p \in Nat /\ t <= n /\ ss \in Seq(Seq(T)) /\ n <= Len(ss)
      /\ \A u \in 0 .. n - 1 : ss[u + 1] # <<>>
  BY DEF AtSlice
<1>2. all \in Seq(T) /\ Len(all) \in Nat
  BY <1>d, SlicesToEnd, LenProperties
<1>3. SlicesTo(ss, t, p, t) = <<>> /\ Len(SlicesTo(ss, t, p, t)) = 0
  BY SlicesToHere, EmptySeq
<1>4. /\ next \in t .. n /\ Len(SlicesTo(ss, t, p, next)) <= k
      /\ \A u \in ready : u <= next
  <2>1. ready \subseteq Int /\ t \in ready /\ \A u \in ready : u <= n
    BY <1>1, <1>3
  <2>2. next = Max(ready)
    BY <1>d
  <2> HIDE DEF ready
  <2>3. n \in Int /\ ready # {}
    BY <1>1, <2>1
  <2>4. Max(ready) \in ready /\ \A u \in ready : u <= Max(ready)
    BY <2>1, <2>3, GreatestElement
  <2>5. QED
    BY <2>2, <2>4 DEF ready
<1> HIDE DEF ready
<1>q. q = base + k - Len(SlicesTo(ss, t, p, next)) /\ base \in Nat
      /\ (next # t => base = 0) /\ (next = t => base = p)
  BY <1>1, <1>d
<1> HIDE DEF base
<1>5. CASE next = n
  <2>1. k = Len(all) /\ Len(SlicesTo(ss, t, p, next)) = Len(all)
    BY <1>2, <1>4, <1>5, <1>d
  <2>2. q = base /\ q \in Nat
    <3>1. q = base + k - Len(all)
      BY <1>q, <2>1
    <3>2. QED
      BY <1>2, <1>q, <2>1, <3>1
  <2>3. AtSlice(T, ss, n, next, q)
    <3>1. next \in Nat /\ next <= n /\ ~(next < n)
      BY <1>1, <1>5
    <3>2. QED
      BY <1>1, <2>2, <3>1 DEF AtSlice
  <2>4. SlicesTo(ss, next, q, n) = <<>>
    BY <1>5, <2>3, SlicesToHere
  <2>5. SubSeq(all, k + 1, Len(all)) = <<>>
    BY <1>2, <2>1
  <2>6. QED
    BY <1>4, <1>5, <1>q, <2>1, <2>2, <2>3, <2>4, <2>5
<1>6. CASE next # n
  <2> DEFINE b == SlicesTo(ss, t, p, next)
             r == SliceRest(ss, t, p, next)
             a == SlicesAfter(ss, n, next + 1)
             j == k - Len(b)
             s == ss[next + 1]
  <2>1. next \in Nat /\ t <= next /\ next < n
    BY <1>1, <1>4, <1>6
  <2>2. /\ b \in Seq(T) /\ a \in Seq(T)
        /\ SlicesTo(ss, t, p, next + 1) = b \o r
        /\ all = (b \o r) \o a
    <3>1. /\ SlicesTo(ss, t, p, next) \in Seq(T) /\ SlicesAfter(ss, n, next + 1) \in Seq(T)
          /\ SlicesTo(ss, t, p, next + 1) = SlicesTo(ss, t, p, next) \o SliceRest(ss, t, p, next)
          /\ SlicesTo(ss, t, p, n)
               = (SlicesTo(ss, t, p, next) \o SliceRest(ss, t, p, next)) \o SlicesAfter(ss, n, next + 1)
      BY <2>1, <1>b, Zenon
    <3>2. QED
      BY <1>d, <3>1
  <2>3. /\ s \in Seq(T) /\ r \in Seq(T) /\ Len(r) > 0
        /\ r = SubSeq(s, base + 1, Len(s)) /\ Len(r) = Len(s) - base
        /\ base \in Nat /\ base < Len(s)
    <3>1. /\ s \in Seq(T) /\ r \in Seq(T) /\ Len(r) > 0
          /\ next = t => Len(r) = Len(s) - p
          /\ next # t => r = s
      BY <2>1, SliceRestType
    <3>2. CASE next = t
      <4>1. r = SubSeq(s, p + 1, Len(s))
        BY <3>2 DEF SliceRest
      <4>2. p < Len(s)
        BY <2>1, <3>2 DEF AtSlice
      <4>3. base = p
        BY <1>q, <3>2
      <4> HIDE DEF s, r
      <4>4. QED
        BY <1>1, <3>1, <3>2, <4>1, <4>2, <4>3
    <3>3. CASE next # t
      <4>1. SubSeq(s, 1, Len(s)) = s /\ Len(s) \in Nat
        BY <3>1, SubSeqFull, LenProperties
      <4>2. base = 0 /\ base + 1 = 1
        BY <1>q, <3>3
      <4> HIDE DEF s, r
      <4>3. QED
        BY <3>1, <3>3, <4>1, <4>2
    <3>4. QED
      BY <3>2, <3>3
  <2>4. q = base + k - Len(b)
    BY <1>q
  <2> HIDE DEF b, r, a, s
  <2>5. Len(b) \in Nat /\ Len(r) \in Nat /\ Len(a) \in Nat /\ Len(s) \in Nat
    BY <2>2, <2>3, LenProperties
  <2>6. b \o r \in Seq(T) /\ Len(b \o r) = Len(b) + Len(r)
    BY <2>2, <2>3, ConcatProperties
  <2>7. Len(all) = Len(b) + Len(r) + Len(a)
    BY <2>2, <2>6, ConcatProperties
  <2>8. j \in Nat /\ j < Len(r) /\ k = Len(b) + j
    <3>1. Len(b) <= k
      BY <1>4 DEF b
    <3>2. ~(Len(SlicesTo(ss, t, p, next + 1)) <= k)
      <4>1. next + 1 \in t .. n /\ ~(next + 1 <= next)
        BY <1>1, <2>1
      <4>2. next + 1 \notin ready
        BY <1>4, <4>1
      <4>3. QED
        BY <4>1, <4>2 DEF ready
    <3>3. QED
      BY <2>2, <2>5, <2>6, <3>1, <3>2
  <2> HIDE DEF j
  <2>9. q = base + j /\ q \in Nat /\ q < Len(s)
    BY <2>3, <2>4, <2>5, <2>8
  <2>10. AtSlice(T, ss, n, next, q)
    BY <1>1, <2>1, <2>9 DEF AtSlice, s
  <2>11. SlicesTo(ss, next, q, n) = SubSeq(s, q + 1, Len(s)) \o a
    <3>1. SlicesTo(ss, next, q, n) = SliceRest(ss, next, q, next) \o SlicesAfter(ss, n, next + 1)
      BY <2>1, <2>10, <1>a, Zenon
    <3>2. SliceRest(ss, next, q, next) = SubSeq(s, q + 1, Len(s))
      BY DEF SliceRest, s
    <3>3. QED
      BY <3>1, <3>2 DEF a
  <2>12. SubSeq(s, q + 1, Len(s)) = SubSeq(r, j + 1, Len(r))
    <3>1. base + j <= Len(s)
      BY <2>3, <2>5, <2>8
    <3>2. SubSeq(s, (base + j) + 1, Len(s)) = SubSeq(r, j + 1, Len(r))
      BY <2>3, <2>8, <3>1, RestOfRest
    <3>3. QED
      BY <2>9, <3>2
  <2>13. SubSeq(all, k + 1, Len(all)) = SubSeq(r, j + 1, Len(r)) \o a
    <3> DEFINE v == b \o r
    <3>1. /\ v \in Seq(T) /\ k <= Len(v) /\ all = v \o a
      BY <2>2, <2>5, <2>6, <2>8
    <3> HIDE DEF v
    <3>2. SubSeq(v \o a, k + 1, Len(v \o a)) = SubSeq(v, k + 1, Len(v)) \o a
      BY <2>2, <3>1, RestOfCat
    <3>3. SubSeq(v, k + 1, Len(v)) = SubSeq(r, j + 1, Len(r))
      <4>1. r = SubSeq(v, Len(b) + 1, Len(v))
        BY <2>2, <2>3, RestOfFirst DEF v
      <4>2. Len(b) + j <= Len(v)
        BY <2>5, <2>6, <2>8 DEF v
      <4>3. SubSeq(v, (Len(b) + j) + 1, Len(v)) = SubSeq(r, j + 1, Len(r))
        BY <2>5, <2>8, <3>1, <4>1, <4>2, RestOfRest
      <4>4. QED
        BY <2>8, <4>3
    <3>4. QED
      BY <3>1, <3>2, <3>3
  <2>14. k # Len(all)
    BY <2>5, <2>7, <2>8
  <2>15. QED
    BY <1>4, <1>6, <2>10, <2>11, <2>12, <2>13, <2>14
<1>7. QED
  BY <1>5, <1>6

(* Three sequences, one after another, cut at one place: what comes before *)
(* the cut and what comes after it make up the three.                      *)
LEMMA CutEnds ==
  ASSUME NEW T, NEW s \in Seq(T)
  PROVE  /\ SubSeq(s, 1, 0) = <<>> /\ SubSeq(s, 1, Len(s)) = s
         /\ SubSeq(s, 0 + 1, Len(s)) = s /\ SubSeq(s, Len(s) + 1, Len(s)) = <<>>
<1>1. Len(s) \in Nat /\ SubSeq(s, 1, Len(s)) = s
  BY LenProperties, SubSeqFull
<1>2. SubSeq(s, 1, 0) = <<>> /\ SubSeq(s, Len(s) + 1, Len(s)) = <<>>
  BY <1>1
<1>3. QED
  BY <1>1, <1>2

LEMMA InAnyOrder ==
  ASSUME NEW T, NEW x, NEW y, NEW z, x \in Seq(T), y \in Seq(T), z \in Seq(T)
  PROVE  (x \o y) \o z = x \o (y \o z)
  BY ConcatAssociative

CutThree(a1, b1, c1, a2, b2, c2, a, b, c) ==
  (a1 \o b1 \o c1) \o (a2 \o b2 \o c2) = a \o b \o c

LEMMA CutInFirst ==
  ASSUME NEW T, NEW x, NEW y, NEW b, NEW c,
         x \in Seq(T), y \in Seq(T), b \in Seq(T), c \in Seq(T)
  PROVE  CutThree(x, <<>>, <<>>, y, b, c, x \o y, b, c)
<1>1. y \o b \in Seq(T)
  BY ConcatProperties, Zenon
<1>2. (x \o (y \o b)) \o c = x \o ((y \o b) \o c)
  <2> DEFINE w == y \o b
  <2>1. w \in Seq(T)
    BY <1>1
  <2> HIDE DEF w
  <2>2. (x \o w) \o c = x \o (w \o c)
    BY <2>1, InAnyOrder
  <2>3. QED
    BY <2>2 DEF w
<1>3. (x \o y) \o b = x \o (y \o b)
  BY InAnyOrder
<1>4. x \o <<>> = x
  BY ConcatEmptySeq
<1>5. QED
  BY <1>2, <1>3, <1>4 DEF CutThree

LEMMA CutInSecond ==
  ASSUME NEW T, NEW a, NEW x, NEW y, NEW c,
         a \in Seq(T), x \in Seq(T), y \in Seq(T), c \in Seq(T)
  PROVE  CutThree(a, x, <<>>, <<>>, y, c, a, x \o y, c)
<1>1. a \o x \in Seq(T)
  BY ConcatProperties, Zenon
<1>2. ((a \o x) \o y) \o c = (a \o x) \o (y \o c)
  <2> DEFINE w == a \o x
  <2>1. w \in Seq(T)
    BY <1>1
  <2> HIDE DEF w
  <2>2. (w \o y) \o c = w \o (y \o c)
    BY <2>1, InAnyOrder
  <2>3. QED
    BY <2>2 DEF w
<1>3. (a \o x) \o y = a \o (x \o y)
  BY InAnyOrder
<1>4. <<>> \o y = y /\ (a \o x) \o <<>> = a \o x
  BY <1>1, ConcatEmptySeq
<1>5. QED
  BY <1>2, <1>3, <1>4 DEF CutThree

LEMMA CutInThird ==
  ASSUME NEW T, NEW a, NEW b, NEW x, NEW y,
         a \in Seq(T), b \in Seq(T), x \in Seq(T), y \in Seq(T)
  PROVE  CutThree(a, b, x, <<>>, <<>>, y, a, b, x \o y)
<1>1. a \o b \in Seq(T)
  BY ConcatProperties, Zenon
<1>2. ((a \o b) \o x) \o y = (a \o b) \o (x \o y)
  <2> DEFINE w == a \o b
  <2>1. w \in Seq(T)
    BY <1>1
  <2> HIDE DEF w
  <2>2. (w \o x) \o y = w \o (x \o y)
    BY <2>1, InAnyOrder
  <2>3. QED
    BY <2>2 DEF w
<1>3. <<>> \o <<>> = <<>> /\ <<>> \o y = y
  BY ConcatEmptySeq, EmptySeq
<1>4. QED
  BY <1>2, <1>3 DEF CutThree

LEMMA CutFirst ==
  ASSUME NEW T, NEW a \in Seq(T), NEW b \in Seq(T), NEW c \in Seq(T), NEW h \in Nat, h <= Len(a)
  PROVE  CutThree(SubSeq(a, 1, h), <<>>, <<>>, SubSeq(a, h + 1, Len(a)), b, c, a, b, c)
<1> DEFINE x == SubSeq(a, 1, h)
           y == SubSeq(a, h + 1, Len(a))
<1>1. x \in Seq(T) /\ y \in Seq(T)
  BY CutAnywhere
<1>2. x \o y = a
  BY CutAnywhere
<1> HIDE DEF x, y
<1>3. CutThree(x, <<>>, <<>>, y, b, c, x \o y, b, c)
  BY <1>1, CutInFirst
<1>4. QED
  BY <1>2, <1>3 DEF x, y

LEMMA CutSecond ==
  ASSUME NEW T, NEW a \in Seq(T), NEW b \in Seq(T), NEW c \in Seq(T), NEW p \in Nat, p <= Len(b)
  PROVE  CutThree(a, SubSeq(b, 1, p), <<>>, <<>>, SubSeq(b, p + 1, Len(b)), c, a, b, c)
<1> DEFINE x == SubSeq(b, 1, p)
           y == SubSeq(b, p + 1, Len(b))
<1>1. x \in Seq(T) /\ y \in Seq(T)
  BY CutAnywhere
<1>2. x \o y = b
  BY CutAnywhere
<1> HIDE DEF x, y
<1>3. CutThree(a, x, <<>>, <<>>, y, c, a, x \o y, c)
  BY <1>1, CutInSecond
<1>4. QED
  BY <1>2, <1>3 DEF x, y

LEMMA CutThird ==
  ASSUME NEW T, NEW a \in Seq(T), NEW b \in Seq(T), NEW c \in Seq(T), NEW t \in Nat, t <= Len(c)
  PROVE  CutThree(a, b, SubSeq(c, 1, t), <<>>, <<>>, SubSeq(c, t + 1, Len(c)), a, b, c)
<1> DEFINE x == SubSeq(c, 1, t)
           y == SubSeq(c, t + 1, Len(c))
<1>1. x \in Seq(T) /\ y \in Seq(T)
  BY CutAnywhere
<1>2. x \o y = c
  BY CutAnywhere
<1> HIDE DEF x, y
<1>3. CutThree(a, b, x, <<>>, <<>>, y, a, b, x \o y)
  BY <1>1, CutInThird
<1>4. QED
  BY <1>2, <1>3 DEF x, y

LEMMA CutOfThree ==
  ASSUME NEW T, NEW a \in Seq(T), NEW b \in Seq(T), NEW c \in Seq(T),
         NEW h \in Nat, NEW p \in Nat, NEW t \in Nat,
         h <= Len(a), p <= Len(b), t <= Len(c),
         h < Len(a) => p = 0 /\ t = 0, p < Len(b) => t = 0
  PROVE  CutThree(SubSeq(a, 1, h), SubSeq(b, 1, p), SubSeq(c, 1, t), SubSeq(a, h + 1, Len(a)),
                  SubSeq(b, p + 1, Len(b)), SubSeq(c, t + 1, Len(c)), a, b, c)
<1>1. CASE h < Len(a)
  <2>1. /\ SubSeq(b, 1, p) = <<>> /\ SubSeq(b, p + 1, Len(b)) = b
        /\ SubSeq(c, 1, t) = <<>> /\ SubSeq(c, t + 1, Len(c)) = c
    BY <1>1, CutEnds
  <2>2. CutThree(SubSeq(a, 1, h), <<>>, <<>>, SubSeq(a, h + 1, Len(a)), b, c, a, b, c)
    BY CutFirst
  <2>3. QED
    BY <2>1, <2>2
<1>2. CASE h = Len(a) /\ p < Len(b)
  <2>1. /\ SubSeq(a, 1, h) = a /\ SubSeq(a, h + 1, Len(a)) = <<>>
        /\ SubSeq(c, 1, t) = <<>> /\ SubSeq(c, t + 1, Len(c)) = c
    BY <1>2, CutEnds
  <2>2. CutThree(a, SubSeq(b, 1, p), <<>>, <<>>, SubSeq(b, p + 1, Len(b)), c, a, b, c)
    BY CutSecond
  <2>3. QED
    BY <2>1, <2>2
<1>3. CASE h = Len(a) /\ p = Len(b)
  <2>1. /\ SubSeq(a, 1, h) = a /\ SubSeq(a, h + 1, Len(a)) = <<>>
        /\ SubSeq(b, 1, p) = b /\ SubSeq(b, p + 1, Len(b)) = <<>>
    BY <1>3, CutEnds
  <2>2. CutThree(a, b, SubSeq(c, 1, t), <<>>, <<>>, SubSeq(c, t + 1, Len(c)), a, b, c)
    BY CutThird
  <2>3. QED
    BY <2>1, <2>2
<1>4. Len(a) \in Nat /\ Len(b) \in Nat
  BY LenProperties
<1>5. QED
  BY <1>1, <1>2, <1>3, <1>4
=============================================================================
