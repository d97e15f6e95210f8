---------------------------- MODULE DStreamLemmas ----------------------------
(***************************************************************************)
(* The inductive invariant of DStreamMt, and what each part of a call does *)
(* to it.                                                                  *)
(*                                                                         *)
(* IInv says where in the stream everything is: there is an o such that    *)
(* node i of the chain holds the bytes after o + (i - 1) * Step, blocks    *)
(* begin where the one before them ends, at a dictionary reset, and what   *)
(* is in no node but was taken is in the overlap or the digest, up to      *)
(* where the input is.  The lemmas are about states as values (s a stream, *)
(* m and f the two records, in the input), so that each is one small step  *)
(* of an action; DStreamMtProofs puts them together.                       *)
(***************************************************************************)
EXTENDS DStreamMt, SequenceLemmas, FiniteSetTheorems

-----------------------------------------------------------------------------
(* Along, which a fold defines: the decoder before the first byte and      *)
(* after each.                                                             *)
Fold(s, d, bytes) ==
  CHOOSE f : f = [u \in SUBSET DOMAIN bytes |->
    IF u = {} THEN <<d>>
    ELSE Append(f[u \ {Max(u)}], Fed(Last(f[u \ {Max(u)}]), s[bytes[Max(u)]]))]

LEMMA AlongIsFold == \A s, d, bytes : Along(s, d, bytes) = Fold(s, d, bytes)[DOMAIN bytes]
  BY DEF Along, FoldLeft, MapThenFoldSet, Fold

LEMMA GreatestIs ==
  ASSUME NEW n \in Nat, NEW u, u \subseteq 1 .. n + 1, n + 1 \in u
  PROVE  Max(u) = n + 1 /\ u \ {n + 1} \subseteq 1 .. n
<1>1. Max(u) \in u /\ \A i \in u : i <= Max(u)
  <2>1. u \subseteq Int /\ u # {} /\ \A i \in u : i <= n + 1
    OBVIOUS
  <2>2. QED
    BY <2>1, GreatestElement
<1>2. \A m \in u : (\A i \in u : i <= m) => m = n + 1
  <2>1. \A m \in u : m \in Int /\ m <= n + 1
    OBVIOUS
  <2>2. QED
    BY <2>1
<1>3. u \ {n + 1} \subseteq 1 .. n
  OBVIOUS
<1>4. QED
  BY <1>1, <1>2, <1>3, Zenon

FoldsUp(F, s, d, bytes, n) ==
  \A u \in SUBSET (1 .. n) :
    F[u] = IF u = {} THEN <<d>>
           ELSE Append(F[u \ {Max(u)}], Fed(Last(F[u \ {Max(u)}]), s[bytes[Max(u)]]))

LEMMA FoldDefined ==
  ASSUME NEW s, NEW d, NEW bytes, NEW n \in Nat, DOMAIN bytes = 1 .. n
  PROVE  FoldsUp(Fold(s, d, bytes), s, d, bytes, n)
<1> DEFINE Rec(f, u) ==
             IF u = {} THEN <<d>>
             ELSE Append(f[u \ {Max(u)}], Fed(Last(f[u \ {Max(u)}]), s[bytes[Max(u)]]))
           Body(f, k) == [u \in SUBSET (1 .. k) |-> Rec(f, u)]
           Defined == {k \in Nat : \E f : f = Body(f, k)}
<1>1. ASSUME NEW f, NEW g, NEW u, u # {} => f[u \ {Max(u)}] = g[u \ {Max(u)}]
      PROVE  Rec(f, u) = Rec(g, u)
  BY <1>1
<1>2. \A f : Rec(f, {}) = <<d>>
  OBVIOUS
<1> HIDE DEF Rec
<1>3. 0 \in Defined
  <2>1. 1 .. 0 = {} /\ SUBSET {} = {{}}
    OBVIOUS
  <2> DEFINE g == [u \in {{}} |-> <<d>>]
  <2>2. g = Body(g, 0)
    BY <1>2, <2>1
  <2>3. QED
    BY <2>2
<1>4. ASSUME NEW f, NEW k
      PROVE  /\ Body(f, k) = [u \in SUBSET (1 .. k) |-> Body(f, k)[u]]
             /\ \A u \in SUBSET (1 .. k) : Body(f, k)[u] = Rec(f, u)
  OBVIOUS
<1> HIDE DEF Body
<1>5. ASSUME NEW k \in Nat, k \in Defined PROVE k + 1 \in Defined
  <2>1. PICK f : f = Body(f, k)
    BY <1>5
  <2> DEFINE g == [u \in SUBSET (1 .. k + 1) |-> IF u \in SUBSET (1 .. k) THEN f[u] ELSE Rec(f, u)]
  <2>2. /\ g = [u \in SUBSET (1 .. k + 1) |-> g[u]]
        /\ \A u \in SUBSET (1 .. k + 1) : g[u] = IF u \in SUBSET (1 .. k) THEN f[u] ELSE Rec(f, u)
    OBVIOUS
  <2>3. SUBSET (1 .. k) \subseteq SUBSET (1 .. k + 1)
    OBVIOUS
  <2> HIDE DEF g
  <2>4. ASSUME NEW u \in SUBSET (1 .. k + 1) PROVE g[u] = Body(g, k + 1)[u]
    <3>1. Body(g, k + 1)[u] = Rec(g, u)
      BY <1>4
    <3>2. u # {} => u \ {Max(u)} \in SUBSET (1 .. k)
      <4>1. CASE k + 1 \in u
        BY <4>1, GreatestIs
      <4>2. CASE ~(k + 1 \in u)
        <5>1. u \subseteq 1 .. k
          BY <4>2
        <5>2. \A x : u \ {x} \subseteq u
          OBVIOUS
        <5>3. QED
          BY <5>1, <5>2, Zenon
      <4>3. QED
        BY <4>1, <4>2
    <3>3. u # {} => g[u \ {Max(u)}] = f[u \ {Max(u)}]
      BY <2>2, <2>3, <3>2
    <3>4. Rec(g, u) = Rec(f, u)
      BY <1>1, <3>3
    <3>5. CASE u \in SUBSET (1 .. k)
      <4>1. f[u] = Rec(f, u)
        BY <1>4, <2>1, <3>5, ZenonT(40)
      <4>2. QED
        BY <2>2, <3>1, <3>4, <3>5, <4>1
    <3>6. CASE ~(u \in SUBSET (1 .. k))
      BY <2>2, <3>1, <3>4, <3>6
    <3>7. QED
      BY <3>5, <3>6
  <2>5. g = Body(g, k + 1)
    <3>1. Body(g, k + 1) = [u \in SUBSET (1 .. k + 1) |-> Body(g, k + 1)[u]]
      BY <1>4
    <3>2. QED
      BY <2>2, <2>4, <3>1
  <2>6. QED
    BY <2>5
<1> HIDE DEF Defined
<1>6. n \in Defined
  <2>1. Nat \subseteq Defined
    BY <1>3, <1>5, Induction
  <2>2. QED
    BY <2>1
<1>7. PICK f : f = Body(f, n)
  BY <1>6 DEF Defined
<1> DEFINE F == Fold(s, d, bytes)
<1>8. F = Body(F, n)
  BY <1>7, ZenonT(40) DEF Fold, Body, Rec
<1> HIDE DEF F
<1>9. \A u \in SUBSET (1 .. n) : F[u] = Rec(F, u)
  BY <1>4, <1>8, ZenonT(40)
<1>10. QED
  BY <1>9 DEF F, Rec, FoldsUp

DecState == [header : Nat, left : Nat, state : {"ok", "bad", "finished"}]

LEMMA FedType ==
  ASSUME NEW d \in DecState, NEW b \in Byte PROVE Fed(d, b) \in DecState
<1> USE Lzma2Assumption
<1>1. b.kind = "control" => b.size \in Nat
  BY DEF Byte
<1>2. HeaderSize - 1 \in Nat
  OBVIOUS
<1>3. d.header \in Nat /\ d.left \in Nat /\ d.state \in {"ok", "bad", "finished"}
  BY DEF DecState
<1>4. /\ d.header > 0 => d.header - 1 \in Nat
      /\ d.left > 0 => d.left - 1 \in Nat
  BY <1>3
<1>5. CASE d.state # "ok"
  BY <1>5 DEF Fed
<1>6. CASE d.state = "ok" /\ d.header > 0
  <2>1. Fed(d, b) = IF b.kind = "header" THEN [d EXCEPT !.header = @ - 1] ELSE [d EXCEPT !.state = "bad"]
    BY <1>6 DEF Fed
  <2>2. QED
    BY <1>4, <1>6, <2>1 DEF DecState
<1>7. CASE d.state = "ok" /\ ~(d.header > 0) /\ d.left > 0
  <2>1. Fed(d, b) = IF b.kind = "data" THEN [d EXCEPT !.left = @ - 1] ELSE [d EXCEPT !.state = "bad"]
    BY <1>3, <1>7 DEF Fed
  <2>2. QED
    BY <1>4, <1>7, <2>1 DEF DecState
<1>8. CASE d.state = "ok" /\ ~(d.header > 0) /\ ~(d.left > 0)
  <2>1. Fed(d, b) = CASE b.kind = "control" -> [d EXCEPT !.header = HeaderSize - 1, !.left = b.size]
                      [] b.kind = "end"     -> [d EXCEPT !.state = "finished"]
                      [] OTHER              -> [d EXCEPT !.state = "bad"]
    BY <1>3, <1>8 DEF Fed
  <2>2. QED
    BY <1>1, <1>2, <2>1 DEF DecState
<1>9. QED
  BY <1>5, <1>6, <1>7, <1>8

(* The first i + 1 of what Along gives depend on the first i bytes only.   *)
LEMMA FoldSteps ==
  ASSUME NEW s \in Seq(Byte), NEW d \in DecState, NEW bytes \in Seq(1 .. Len(s)), NEW i \in 0 .. Len(bytes)
  PROVE  LET F(j) == Fold(s, d, bytes)[1 .. j]
         IN  /\ F(0) = <<d>>
             /\ i > 0 => F(i) = Append(F(i - 1), Fed(Last(F(i - 1)), s[bytes[i]]))
<1> DEFINE n == Len(bytes)
<1>1. DOMAIN bytes = 1 .. n /\ n \in Nat
  OBVIOUS
<1>2. FoldsUp(Fold(s, d, bytes), s, d, bytes, n)
  BY <1>1, FoldDefined
<1>3. 1 .. 0 = {}
  OBVIOUS
<1>4. ASSUME i > 0
      PROVE  /\ 1 .. i \in SUBSET (1 .. n) /\ 1 .. i # {} /\ Max(1 .. i) = i
             /\ (1 .. i) \ {i} = 1 .. i - 1
  <2>1. i - 1 \in Nat /\ 1 .. i \subseteq 1 .. (i - 1) + 1 /\ (i - 1) + 1 \in 1 .. i
    BY <1>4
  <2> DEFINE u == 1 .. i
  <2>2. /\ Max(u) = (i - 1) + 1 /\ u \ {(i - 1) + 1} \subseteq 1 .. (i - 1)
    BY <2>1, GreatestIs, Zenon
  <2>3. u \subseteq 1 .. n /\ u # {} /\ (i - 1) + 1 = i /\ u \ {i} = 1 .. i - 1
    <3>1. i \in Nat /\ i <= n /\ i \in u /\ n \in Nat
      BY <1>1, <1>4
    <3>2. \A j \in Int : j \in u \ {i} <=> j \in 1 .. i - 1
      BY <3>1
    <3>3. u \subseteq Int /\ 1 .. i - 1 \subseteq Int
      OBVIOUS
    <3>4. u \subseteq 1 .. n
      BY <3>1
    <3>5. u \ {i} = 1 .. i - 1
      <4>1. u \ {i} \subseteq 1 .. i - 1
        BY <3>2, <3>3
      <4>2. 1 .. i - 1 \subseteq u \ {i}
        BY <3>2, <3>3
      <4>3. QED
        BY <4>1, <4>2
    <3>6. u # {} /\ (i - 1) + 1 = i
      <4>1. i \in u /\ (i - 1) + 1 = i
        BY <3>1
      <4> HIDE DEF u
      <4>2. QED
        BY <4>1
    <3>7. QED
      BY <3>4, <3>5, <3>6, Zenon
  <2> HIDE DEF u
  <2>4. QED
    BY <2>2, <2>3 DEF u
<1> DEFINE G == Fold(s, d, bytes)
<1> HIDE DEF G
<1>5. {} \in SUBSET (1 .. n) /\ G[{}] = <<d>>
  BY <1>2 DEF FoldsUp, G
<1>6. ASSUME i > 0
      PROVE  G[1 .. i] = Append(G[1 .. i - 1], Fed(Last(G[1 .. i - 1]), s[bytes[i]]))
  BY <1>2, <1>4, <1>6 DEF FoldsUp, G
<1>7. QED
  BY <1>3, <1>5, <1>6 DEF G

LEMMA AlongSteps ==
  ASSUME NEW s \in Seq(Byte), NEW d \in DecState, NEW bytes \in Seq(1 .. Len(s))
  PROVE  /\ Along(s, d, bytes) \in Seq(DecState)
         /\ Len(Along(s, d, bytes)) = Len(bytes) + 1
         /\ Along(s, d, bytes)[1] = d
         /\ \A i \in 1 .. Len(bytes) :
              Along(s, d, bytes)[i + 1] = Fed(Along(s, d, bytes)[i], s[bytes[i]])
<1> DEFINE n == Len(bytes)
           F(i) == Fold(s, d, bytes)[1 .. i]
           Steps(i) == /\ F(i) \in Seq(DecState)
                       /\ Len(F(i)) = i + 1
                       /\ F(i)[1] = d
                       /\ \A j \in 1 .. i : F(i)[j + 1] = Fed(F(i)[j], s[bytes[j]])
           Good == {i \in Nat : i <= n => Steps(i)}
<1>1. n \in Nat /\ DOMAIN bytes = 1 .. n
  OBVIOUS
<1>2. F(0) = <<d>> /\ \A i \in 1 .. n : F(i) = Append(F(i - 1), Fed(Last(F(i - 1)), s[bytes[i]]))
  <2>1. 0 \in 0 .. n /\ \A i \in 1 .. n : i \in 0 .. n /\ i > 0
    BY <1>1
  <2>2. QED
    BY <2>1, FoldSteps
<1> HIDE DEF F
<1>3. 0 \in Good
  <2>1. /\ <<d>> \in Seq(DecState) /\ Len(<<d>>) = 0 + 1 /\ <<d>>[1] = d
    OBVIOUS
  <2>2. F(0) = <<d>>
    BY <1>2
  <2>3. /\ F(0) \in Seq(DecState) /\ Len(F(0)) = 0 + 1 /\ F(0)[1] = d
    BY <2>1, <2>2
  <2>4. Steps(0)
    BY <2>3
  <2> HIDE DEF Steps
  <2>5. QED
    BY <2>4
<1>4. ASSUME NEW i \in Nat, i \in Good PROVE i + 1 \in Good
  <2> SUFFICES ASSUME i + 1 <= n PROVE Steps(i + 1)
    OBVIOUS
  <2>1. Steps(i)
    BY <1>1, <1>4, SMTT(30)
  <2> DEFINE f == F(i)
             x == Fed(f[i + 1], s[bytes[i + 1]])
  <2>2. F(i + 1) = Append(f, Fed(Last(f), s[bytes[i + 1]]))
    <3>1. i + 1 \in 1 .. n /\ (i + 1) - 1 = i
      BY <1>1
    <3>2. QED
      BY <1>2, <3>1
  <2>3. f \in Seq(DecState) /\ Len(f) = i + 1 /\ Last(f) = f[i + 1] /\ f[i + 1] \in DecState
    BY <2>1 DEF Last
  <2>4. s[bytes[i + 1]] \in Byte
    BY <1>1
  <2>5. x \in DecState
    BY <2>3, <2>4, FedType
  <2>6. F(i + 1) = Append(f, x)
    BY <2>2, <2>3
  <2> HIDE DEF x
  <2>7. /\ F(i + 1) \in Seq(DecState) /\ Len(F(i + 1)) = i + 2
        /\ \A j \in 1 .. i + 1 : F(i + 1)[j] = f[j]
        /\ F(i + 1)[i + 2] = x
    <3> HIDE DEF f
    <3>1. i + 1 \in Nat /\ (i + 1) + 1 = i + 2
      OBVIOUS
    <3>2. /\ Append(f, x) \in Seq(DecState) /\ Len(Append(f, x)) = Len(f) + 1
          /\ \A j \in 1 .. Len(f) : Append(f, x)[j] = f[j]
          /\ Append(f, x)[Len(f) + 1] = x
      <4>1. \A S : \A e \in Seq(S) : \A y \in S :
              /\ Append(e, y) \in Seq(S) /\ Len(Append(e, y)) = Len(e) + 1
              /\ \A j \in 1 .. Len(e) : Append(e, y)[j] = e[j]
              /\ Append(e, y)[Len(e) + 1] = y
        BY AppendProperties
      <4>2. QED
        BY <2>3, <2>5, <4>1, ZenonT(40)
    <3>3. QED
      BY <2>3, <2>6, <3>1, <3>2
  <2>8. ASSUME NEW j \in 1 .. i + 1
        PROVE  F(i + 1)[j + 1] = Fed(F(i + 1)[j], s[bytes[j]])
    <3>1. CASE j = i + 1
      BY <2>7, <3>1 DEF x
    <3>2. CASE j # i + 1
      <4>1. j \in 1 .. i /\ j + 1 \in 1 .. i + 1
        BY <3>2
      <4>2. QED
        BY <2>1, <2>7, <4>1
    <3>3. QED
      BY <3>1, <3>2
  <2>9. F(i + 1)[1] = d
    BY <2>1, <2>7
  <2>10. (i + 1) + 1 = i + 2
    OBVIOUS
  <2>11. QED
    BY <2>7, <2>8, <2>9, <2>10
<1> HIDE DEF Good, Steps
<1>5. n \in Good
  <2>1. Nat \subseteq Good
    BY <1>3, <1>4, Induction
  <2>2. QED
    BY <1>1, <2>1
<1>6. Along(s, d, bytes) = F(n)
  BY <1>1, AlongIsFold DEF F
<1>7. Steps(n)
  BY <1>1, <1>5 DEF Good
<1>8. QED
  BY <1>6, <1>7 DEF Steps

(* The bytes whose positions are in data, of the first i.                  *)
Picked(bytes, data, i) == FlattenSeq([j \in 1 .. i |-> IF j \in data THEN <<bytes[j]>> ELSE <<>>])

LEMMA PickedSteps ==
  ASSUME NEW T, NEW bytes \in Seq(T), NEW data, NEW i \in 0 .. Len(bytes)
  PROVE  /\ Picked(bytes, data, 0) = <<>>
         /\ Picked(bytes, data, i) \in Seq(T)
         /\ i > 0 => Picked(bytes, data, i) =
                       Picked(bytes, data, i - 1) \o (IF i \in data THEN <<bytes[i]>> ELSE <<>>)
<1> DEFINE One(j) == IF j \in data THEN <<bytes[j]>> ELSE <<>>
           All(n) == [j \in 1 .. n |-> One(j)]
<1>1. \A j \in 1 .. Len(bytes) : One(j) \in Seq(T)
  <2>1. \A j \in 1 .. Len(bytes) : bytes[j] \in T
    BY ElementOfSeq
  <2>2. \A x \in T : <<x>> \in Seq(T)
    OBVIOUS
  <2>3. <<>> \in Seq(T)
    OBVIOUS
  <2>4. QED
    BY <2>1, <2>2, <2>3
<1> HIDE DEF One
<1>2. /\ All(0) = <<>>
      /\ \A n \in 0 .. Len(bytes) : All(n) \in Seq(Seq(T))
      /\ i > 0 => All(i) = Append(All(i - 1), One(i))
  <2>1. All(0) = <<>>
    OBVIOUS
  <2>2. \A n \in 0 .. Len(bytes) : All(n) \in Seq(Seq(T))
    <3> SUFFICES ASSUME NEW n \in 0 .. Len(bytes) PROVE All(n) \in Seq(Seq(T))
      OBVIOUS
    <3>1. \A j \in 1 .. n : One(j) \in Seq(T)
      BY <1>1
    <3>2. n \in Nat
      OBVIOUS
    <3>3. QED
      BY <3>1, <3>2, IsASeq
  <2>3. ASSUME i > 0 PROVE All(i) = Append(All(i - 1), One(i))
    <3>1. i \in Nat /\ i - 1 \in Nat /\ i - 1 \in 0 .. Len(bytes) /\ (i - 1) + 1 = i
      BY <2>3
    <3>2. All(i - 1) \in Seq(Seq(T)) /\ Len(All(i - 1)) = i - 1
      BY <2>2, <3>1
    <3>3. QED
      BY <3>1, <3>2
  <2>4. QED
    BY <2>1, <2>2, <2>3
<1>3. FlattenSeq(All(0)) = <<>>
  BY <1>2, FlattenEmpty
<1>4. FlattenSeq(All(i)) \in Seq(T)
  BY <1>2, FlattenType
<1>5. i > 0 => FlattenSeq(All(i)) = FlattenSeq(All(i - 1)) \o One(i)
  <2>1. i > 0 => All(i - 1) \in Seq(Seq(T)) /\ One(i) \in Seq(T)
    BY <1>1, <1>2
  <2>2. QED
    BY <1>2, <2>1, FlattenAppend
<1>6. QED
  BY <1>3, <1>4, <1>5 DEF Picked, One

LEMMA PickedLen ==
  ASSUME NEW T, NEW bytes \in Seq(T), NEW data \in SUBSET (1 .. Len(bytes)), NEW i \in 0 .. Len(bytes)
  PROVE  Len(Picked(bytes, data, i)) = Cardinality({j \in data : j <= i})
<1> DEFINE n == Len(bytes)
           P(k) == Picked(bytes, data, k)
           C(k) == {j \in data : j <= k}
           Good == {k \in Nat : k <= n => Len(P(k)) = Cardinality(C(k)) /\ IsFiniteSet(C(k))}
<1>1. n \in Nat /\ \A j \in data : j \in Int /\ 1 <= j /\ j <= n
  OBVIOUS
<1>2. 0 \in Good
  <2>1. C(0) = {}
    <3>1. \A j \in data : ~(j <= 0)
      BY <1>1
    <3>2. QED
      BY <3>1
  <2>2. P(0) = <<>>
    BY <1>1, PickedSteps
  <2>3. Len(<<>>) = 0
    OBVIOUS
  <2>4. QED
    BY <2>1, <2>2, <2>3, FS_EmptySet
<1>3. ASSUME NEW k \in Nat, k \in Good PROVE k + 1 \in Good
  <2> SUFFICES ASSUME k + 1 <= n
               PROVE  Len(P(k + 1)) = Cardinality(C(k + 1)) /\ IsFiniteSet(C(k + 1))
    OBVIOUS
  <2> DEFINE x == IF k + 1 \in data THEN <<bytes[k + 1]>> ELSE <<>>
  <2>1. Len(P(k)) = Cardinality(C(k)) /\ IsFiniteSet(C(k))
    BY <1>1, <1>3
  <2>2. P(k + 1) = P(k) \o x /\ P(k) \in Seq(T)
    <3> DEFINE m == k + 1
    <3>1. k \in 0 .. n /\ m \in 0 .. n /\ m > 0 /\ m - 1 = k
      BY <1>1
    <3>2. P(k) \in Seq(T)
      BY <3>1, PickedSteps
    <3> HIDE DEF m
    <3>3. P(m) = P(m - 1) \o (IF m \in data THEN <<bytes[m]>> ELSE <<>>)
      <4>1. \A u \in 0 .. Len(bytes) : u > 0 =>
              P(u) = P(u - 1) \o (IF u \in data THEN <<bytes[u]>> ELSE <<>>)
        BY PickedSteps
      <4>2. QED
        BY <3>1, <4>1
    <3>4. QED
      BY <3>1, <3>2, <3>3 DEF m
  <2>3. bytes[k + 1] \in T
    BY <1>1
  <2> HIDE DEF P
  <2>4. CASE k + 1 \in data
    <3>1. C(k + 1) = C(k) \cup {k + 1} /\ k + 1 \notin C(k)
      <4>1. \A j \in data : j <= k + 1 <=> j <= k \/ j = k + 1
        BY <1>1
      <4>2. ~(k + 1 <= k)
        OBVIOUS
      <4>3. k + 1 <= k + 1
        OBVIOUS
      <4>4. QED
        BY <2>4, <4>1, <4>2, <4>3
    <3> HIDE DEF C
    <3>2. Cardinality(C(k + 1)) = Cardinality(C(k)) + 1 /\ IsFiniteSet(C(k + 1))
      BY <2>1, <3>1, FS_AddElement
    <3>3. x \in Seq(T) /\ Len(x) = 1
      BY <2>3, <2>4
    <3>4. Len(P(k + 1)) = Len(P(k)) + 1
      BY <2>2, <3>3, ConcatProperties
    <3>5. QED
      BY <2>1, <3>2, <3>4
  <2>5. CASE k + 1 \notin data
    <3>1. C(k + 1) = C(k)
      <4>1. \A j \in data : j <= k + 1 <=> j <= k
        BY <1>1, <2>5
      <4>2. QED
        BY <4>1
    <3>2. x = <<>>
      BY <2>5
    <3>3. P(k + 1) = P(k)
      BY <2>2, <3>2, ConcatEmptySeq
    <3>4. QED
      BY <2>1, <3>1, <3>3
  <2>6. QED
    BY <2>4, <2>5
<1> HIDE DEF Good
<1>4. i \in Good
  <2>1. Nat \subseteq Good
    BY <1>2, <1>3, Induction
  <2>2. QED
    BY <2>1
<1>5. QED
  BY <1>4 DEF Good

-----------------------------------------------------------------------------
(* What Decode gives: how much is used, and that it is the decoder after   *)
(* the bytes used, between chunks' headers, and what their data gave.      *)
DecodedTo(s, d, bytes, space, o) ==
  LET ds == Along(s, d, bytes)
  IN  /\ o.used \in 0 .. Len(bytes)
      /\ o.dec = ds[o.used + 1] /\ o.dec.header = 0
      /\ o.dec.state \in {"ok", "finished"}
      /\ o.res = (IF o.dec.state = "finished" THEN "finished" ELSE "ok")
      /\ o.out = Picked(bytes, DataBytes(ds), o.used)
      /\ Len(o.out) <= space
      /\ o.used \in StopsAt(s, bytes, ds, DataBytes(ds), space)
      /\ o.dec.state = "finished" => o.used = 0 \/ ds[o.used].state = "ok"

LEMMA DataBytesType ==
  ASSUME NEW ds \in Seq(DecState), NEW n \in Nat, Len(ds) = n + 1
  PROVE  DataBytes(ds) \in SUBSET (1 .. n)
  BY DEF DataBytes

LEMMA DecodeGives ==
  ASSUME NEW s \in Seq(Byte), NEW d \in DecState, NEW bytes \in Seq(1 .. Len(s)), NEW space \in Int,
         NEW o \in Decode(s, d, bytes, space)
  PROVE  \/ /\ o.res = "corrupt" /\ o.used = 0 /\ o.out = <<>>
            /\ o.dec = [d EXCEPT !.state = "bad"]
            /\ StopsAt(s, bytes, Along(s, d, bytes), DataBytes(Along(s, d, bytes)), space) = {}
         \/ DecodedTo(s, d, bytes, space, o)
<1> DEFINE ds == Along(s, d, bytes)
           data == DataBytes(ds)
           stops == StopsAt(s, bytes, ds, data, space)
<1>1. /\ ds \in Seq(DecState) /\ Len(ds) = Len(bytes) + 1 /\ ds[1] = d
  BY AlongSteps
<1> HIDE DEF ds
<1>2. data \in SUBSET (1 .. Len(bytes))
  BY <1>1, DataBytesType
<1> HIDE DEF data
<1>3. o \in ResultsAt(bytes, ds, data, stops)
  BY DEF Decode, DecodedAlong, DecodedBy, ds, data
<1>4. CASE stops = {}
  BY <1>1, <1>3, <1>4 DEF ResultsAt, ds, data
<1>5. CASE stops # {}
  <2> HIDE DEF stops
  <2>1. PICK i \in stops :
          o = [dec |-> ds[i + 1], used |-> i,
               out |-> FlattenSeq([j \in 1 .. i |-> IF j \in data THEN <<bytes[j]>> ELSE <<>>]),
               res |-> IF ds[i + 1].state = "finished" THEN "finished" ELSE "ok"]
    BY <1>3, <1>5 DEF ResultsAt
  <2>2. o.out = Picked(bytes, data, i)
    BY <2>1 DEF Picked
  <2>3. /\ i \in 0 .. Len(bytes)
        /\ ds[i + 1].state # "bad" /\ ds[i + 1].header = 0
        /\ Cardinality({j \in data : j <= i}) <= space
        /\ ds[i + 1].state = "finished" => i = 0 \/ ds[i].state = "ok"
    <3> HIDE DEF data
    <3>1. /\ i \in 0 .. Len(bytes)
          /\ ds[i + 1].state # "bad" /\ ds[i + 1].header = 0
          /\ Cardinality({j \in data : j <= i}) <= space
          /\ ds[i + 1].state = "finished" => i = 0 \/ ds[(i - 1) + 1].state = "ok"
      BY DEF stops, StopsAt
    <3>2. (i - 1) + 1 = i
      BY <3>1
    <3>3. QED
      BY <3>1, <3>2
  <2>4. Len(o.out) <= space
    BY <1>2, <2>2, <2>3, PickedLen
  <2>5. ds[i + 1].state \in {"ok", "bad", "finished"}
    <3>1. ds[i + 1] \in DecState
      BY <1>1, <2>3
    <3>2. QED
      BY <3>1 DEF DecState
  <2>6. /\ o.used = i /\ o.dec = ds[i + 1]
        /\ o.res = (IF o.dec.state = "finished" THEN "finished" ELSE "ok")
    BY <2>1
  <2>7. DecodedTo(s, d, bytes, space, o)
    BY <2>2, <2>3, <2>4, <2>5, <2>6 DEF DecodedTo, ds, data, stops
  <2>8. QED
    BY <2>7
<1>6. QED
  BY <1>4, <1>5

(* As far as the invariants of the chain need it.                          *)
LEMMA DecodeType ==
  ASSUME NEW s \in Seq(Byte), NEW d \in DecState, NEW bytes \in Seq(1 .. Len(s)), NEW space \in Nat,
         NEW o \in Decode(s, d, bytes, space)
  PROVE  /\ o.used \in 0 .. Len(bytes)
         /\ o.dec \in DecState
         /\ o.out \in Seq(Nat) /\ Len(o.out) <= space
         /\ o.res \in {"ok", "finished", "corrupt"}
         /\ o.res = "ok" => o.dec.state = "ok"
         /\ d.state = "ok" /\ o.res = "finished" =>
              /\ o.used > 0
              /\ s[bytes[o.used]].kind = "end"
<1> DEFINE ds == Along(s, d, bytes)
<1>1. /\ ds \in Seq(DecState) /\ Len(ds) = Len(bytes) + 1 /\ ds[1] = d
      /\ \A i \in 1 .. Len(bytes) : ds[i + 1] = Fed(ds[i], s[bytes[i]])
  BY AlongSteps
<1>2. Len(bytes) \in Nat
  OBVIOUS
<1>3. CASE o.res = "corrupt" /\ o.used = 0 /\ o.out = <<>> /\ o.dec = [d EXCEPT !.state = "bad"]
  <2>1. o.dec \in DecState
    BY <1>3 DEF DecState
  <2>2. <<>> \in Seq(Nat) /\ Len(<<>>) <= space
    OBVIOUS
  <2>3. QED
    BY <1>2, <1>3, <2>1, <2>2
<1>4. CASE DecodedTo(s, d, bytes, space, o)
  <2> HIDE DEF ds
  <2>1. /\ o.used \in 0 .. Len(bytes) /\ o.dec = ds[o.used + 1]
        /\ o.dec.state \in {"ok", "finished"}
        /\ o.res = (IF o.dec.state = "finished" THEN "finished" ELSE "ok")
        /\ o.out = Picked(bytes, DataBytes(ds), o.used) /\ Len(o.out) <= space
        /\ o.dec.state = "finished" => o.used = 0 \/ ds[o.used].state = "ok"
    BY <1>4 DEF DecodedTo, ds
  <2>2. o.dec \in DecState
    BY <1>1, <2>1
  <2>3. o.out \in Seq(Nat)
    <3>1. Picked(bytes, DataBytes(ds), o.used) \in Seq(1 .. Len(s))
      BY <2>1, PickedSteps
    <3>2. 1 .. Len(s) \subseteq Nat
      OBVIOUS
    <3>3. QED
      BY <2>1, <3>1, <3>2, SeqMonotonic
  <2>4. ASSUME d.state = "ok", o.res = "finished"
        PROVE  o.used > 0 /\ s[bytes[o.used]].kind = "end"
    <3>1. ds[o.used + 1].state = "finished"
      BY <2>1, <2>4
    <3>2. o.used # 0
      BY <1>1, <2>4, <3>1
    <3>3. ds[o.used].state = "ok"
      BY <2>1, <3>1, <3>2
    <3>4. o.used \in 1 .. Len(bytes)
      BY <1>2, <2>1, <3>2
    <3>5. ds[o.used + 1] = Fed(ds[o.used], s[bytes[o.used]])
      BY <1>1, <3>4
    <3>6. s[bytes[o.used]].kind = "end"
      <4>1. \A e, b : e.state = "ok" /\ Fed(e, b).state = "finished" => b.kind = "end"
        BY DEF Fed
      <4>2. QED
        BY <3>1, <3>3, <3>5, <4>1
    <3>7. QED
      BY <3>4, <3>6
  <2>5. QED
    BY <2>1, <2>2, <2>3, <2>4
<1>5. QED
  BY <1>3, <1>4, DecodeGives

-----------------------------------------------------------------------------
(* The inductive invariant.  The nodes of the chain are pieces of the      *)
(* stream that begin Step bytes apart, the first one at o; Tip is where    *)
(* the chain ends, Begin and End where a block does.                       *)
Run(a, n) == [i \in 1 .. n |-> a + i]
Step == NodeSize - Required
At(o, i) == o + (i - 1) * Step

Nodes(m, o) ==
  \A i \in 1 .. Len(m.chain) :
    /\ m.chain[i] = Run(At(o, i), Len(m.chain[i]))
    /\ i < Len(m.chain) => Len(m.chain[i]) = NodeSize

Tip(m, o) == At(o, Len(m.chain)) + Len(m.chain[Len(m.chain)])

Begin(m, o, t) == At(o, m.threads[t].first) + m.threads[t].startPos
End(m, o, t)   == At(o, m.threads[t].last) + m.threads[t].endPos

KindAt(s, q, k) == q \in 1 .. Len(s) /\ s[q].kind = k
IsReset(s, q)   == KindAt(s, q, "control") /\ s[q].reset
EndAfter(s, a)  == \A q \in 1 .. Len(s) : s[q].kind = "end" => q > a

LeadsOff(s, a)       == a # 0 /\ KindAt(s, a + 1, "control") => IsReset(s, a + 1)
Independent(s, a, b) ==
  /\ a # 0 /\ b > a + 1 => IsReset(s, a + 1)
  /\ \A q \in a + 2 .. b : ~IsReset(s, q)
GoesOn(s, a)         == LeadsOff(s, a) /\ BeginsChunk(s, a + 1) /\ EndAfter(s, a)

Block(s, m, o, t) ==
  /\ m.threads[t].last \in 1 .. Len(m.chain) /\ m.threads[t].first \in 1 .. m.threads[t].last
  /\ Begin(m, o, t) <= End(m, o, t)
  /\ Independent(s, Begin(m, o, t), End(m, o, t))

Complete(s, m, o, t) ==
  /\ Block(s, m, o, t)
  /\ Begin(m, o, t) < End(m, o, t)
  /\ m.threads[t].endPos <= Len(m.chain[m.threads[t].last])
  /\ t > 0 => Begin(m, o, t) = End(m, o, t - 1)

(* The block that is parsed, in the last node, and those before it.        *)
InProgress(s, m, o, n) ==
  /\ n < Threads
  /\ Block(s, m, o, n)
  /\ m.threads[n].last = Len(m.chain)
  /\ IF m.threads[n].unpackSize = 0 THEN End(m, o, n) = Begin(m, o, n)
                                    ELSE End(m, o, n) > Begin(m, o, n) + 1
  /\ LeadsOff(s, Begin(m, o, n))
  /\ BeginsChunk(s, End(m, o, n) + 1) /\ EndAfter(s, End(m, o, n))
  /\ \A t \in 0 .. n - 1 : Complete(s, m, o, t) /\ End(m, o, t) <= Begin(m, o, n)
  /\ n > 0 => Begin(m, o, n) = End(m, o, n - 1)

(* p is the step the call is at, r what parsing said, pos the input's.     *)
Parsing(s, m, o, p, r, pos) ==
  LET n == m.numThreads
      e == End(m, o, n)
  IN
  /\ InProgress(s, m, o, n)
  /\ p = "parse" => m.threads[n].endPos < Len(LastNode(m))
  /\ p \in {"load", "read"} /\ r = "moreData" => e < pos /\ ~KindAt(s, e + 1, "end")
  /\ p = "read" /\ r = "moreData" => pos < e + HeaderSize
  /\ p \notin {"load", "parse", "read"} => EndAfter(s, pos - 1)

Decoding(m, t) ==
  LET th == m.threads[t] IN
  th.res = "running" => th.cur \in th.first .. th.last /\ Len(th.outBuf) <= th.bufSize

Blocks(s, m, o, pos) ==
  LET n == m.numThreads IN
  /\ n > 0
  /\ \A t \in 0 .. n - 1 : Complete(s, m, o, t) /\ Decoding(m, t)
  /\ m.threads[n - 1].last = Len(m.chain)
  /\ ~m.isFinal => GoesOn(s, End(m, o, n - 1))
  /\ EndAfter(s, pos - 1)

Writing(s, m, o, pos) ==
  /\ Len(m.chain) = 1
  /\ ~m.isFinal => InProgress(s, m, o, 0)
  /\ m.srcThread < m.numThreads
  /\ m.srcPos <= m.threads[m.srcThread].bufSize
  /\ EndAfter(s, pos - 1)

FailPending(s, m, pos) ==
  /\ m.chain[1] # <<>>
  /\ m.threads[0].first \in 1 .. Len(m.chain)
  /\ EndAfter(s, pos - 1)

SeveralThreads(s, m, f, in, p, r, o) ==
  /\ f.stage \in {"decomp", "mtWrite"} => EndAfter(s, in.base - 1)
  /\ f.stage = "decomp" =>
       /\ p = "blocks" => Blocks(s, m, o, in.pos)
       /\ p = "failed" => FailPending(s, m, in.pos)
       /\ p \notin {"blocks", "failed"} => Parsing(s, m, o, p, r, in.pos)
  /\ f.stage = "mtWrite" => Writing(s, m, o, in.pos)

(* d is the decoder that goes on.                                          *)
FromChain(s, m, d, stage, in, o) ==
  /\ m.cur \in 1 .. Len(m.chain)
  /\ stage = "decomp" => d.state = "ok" /\ EndAfter(s, in.pos - 1)
  /\ stage = "hash" => At(o, m.cur) + m.curPos >= Tip(m, o)

OneThread(s, m, f, in, o) ==
  /\ f.stage # "mtWrite"
  /\ f.stage = "decomp" => f.dec.state = "ok"
  /\ m.chain[1] # <<>> => FromChain(s, m, f.dec, f.stage, in, o)

(* What was read so far, up to the input's position.                       *)
UpTo(s, p) == Len(s) <= p /\ s = Run(p - Len(s), Len(s))

Accounted(m, f, in, o) ==
  /\ Nodes(m, o)
  /\ f.stage \in {"decomp", "mtWrite"} =>
       /\ f.hash = <<>>
       /\ m.chain[1] # <<>> \/ ~m.failState => Tip(m, o) = in.pos
  /\ m.chain[1] # <<>> \/ ~m.failState => f.overlap = <<>>
  /\ f.stage # "finished" =>
       /\ UpTo(f.overlap, in.pos) /\ UpTo(f.hash, in.pos)
       /\ f.hash # <<>> => f.overlap = <<>>

Core(s, m, f, in, p, r, o) ==
  /\ Accounted(m, f, in, o)
  /\ p # "error" => IF m.failState THEN OneThread(s, m, f, in, o)
                                   ELSE SeveralThreads(s, m, f, in, p, r, o)

(* What the fields are.                                                    *)
ThreadState ==
  [first : Nat, last : Nat, startPos : Nat, endPos : Nat, unpackSize : Nat, bufSize : Nat,
   allocated : BOOLEAN, outBuf : Seq(Nat), res : {"ok", "running", "canceled", "corrupt"},
   cur : Nat, inPos : Nat, dec : DecState]

Mt(s, m) ==
  /\ m \in [chain : Seq(Seq(1 .. Len(s))), threads : [Thread -> ThreadState],
            numThreads : 0 .. Threads, srcThread : Nat, srcPos : Nat, memTotal : {m.memTotal},
            isFinal : BOOLEAN, failState : BOOLEAN, cur : Nat, curPos : Nat]
  /\ Len(m.chain) > 0
  /\ \A i \in 1 .. Len(m.chain) : Len(m.chain[i]) <= NodeSize

Own(s, f) ==
  /\ f \in [stage : {"decomp", "mtWrite", "hash", "finished"}, dec : DecState,
            overlap : Seq(1 .. Len(s)), hash : Seq(1 .. Len(s)), loopCount : Nat]
  /\ Len(f.overlap) <= 2 * Required /\ Len(f.hash) <= HashSize

Buffer(s, in) ==
  /\ in \in [base : Nat, pos : Nat, size : Nat]
  /\ in.base <= in.pos /\ in.pos <= in.size /\ in.size <= Len(s)

Types ==
  /\ stream \in Streams
  /\ Mt(stream, decmt) /\ Own(stream, fds) /\ Buffer(stream, input)
  /\ room \in Nat /\ out \in Seq(Nat)
  /\ thread \in BOOLEAN /\ wait \in BOOLEAN /\ busy \in BOOLEAN

(* Who is where: a call that goes on is the caller's or decompressThread's. *)
Places ==
  /\ pc \in {"idle", "load", "parse", "read", "blocks", "write", "failed", "direct", "hash",
             "report", "error", "canceling", "overrun"}
  /\ user \in {"free", "calling", "waiting", "canceling"}
  /\ wait => busy
  /\ pc = "idle" => ~wait
  /\ pc # "idle" =>
       /\ status = "going"
       /\ \/ user = "calling" /\ ~thread /\ ~busy /\ ~wait
          \/ thread /\ busy /\ wait /\ user # "calling"
  /\ pc = "canceling" => thread

Phases ==
  /\ pc \in {"load", "parse", "read", "blocks"} => fds.stage = "decomp" /\ ~decmt.failState
  /\ pc = "write" => fds.stage = "mtWrite" /\ ~decmt.failState
  /\ pc = "failed" => decmt.failState \/ fds.stage = "decomp"
  /\ pc = "direct" => decmt.failState /\ decmt.chain[1] = <<>>
  /\ pc = "error" => ret \in {"corrupt", "memory", "canceled"}

Somewhere ==
  status = "going" /\ pc # "overrun" =>
    \E o \in 0 .. Len(stream) : Core(stream, decmt, fds, input, pc, parsed, o)

IInv == Types /\ Places /\ Phases /\ Somewhere

-----------------------------------------------------------------------------
(* Runs of consecutive numbers, cut and joined.                            *)
LEMMA RunIs ==
  ASSUME NEW a \in Int, NEW n \in Nat
  PROVE  /\ Run(a, n) \in Seq(Int) /\ Len(Run(a, n)) = n
         /\ \A i \in 1 .. n : Run(a, n)[i] = a + i
  BY DEF Run

LEMMA RunEmpty == \A a : Run(a, 0) = <<>>
  BY DEF Run

LEMMA RunEquals ==
  ASSUME NEW T, NEW s \in Seq(T), NEW a \in Int, \A i \in 1 .. Len(s) : s[i] = a + i
  PROVE  s = Run(a, Len(s))
  BY DEF Run

LEMMA RunWithin ==
  ASSUME NEW a \in Nat, NEW n \in Nat, NEW b \in Nat, a + n <= b
  PROVE  Run(a, n) \in Seq(1 .. b)
<1>1. \A i \in 1 .. n : a + i \in 1 .. b
  OBVIOUS
<1>2. QED
  BY <1>1 DEF Run

LEMMA RunCut ==
  ASSUME NEW a \in Int, NEW n \in Nat, NEW j \in Nat, NEW k \in Nat, j + k <= n
  PROVE  SubSeq(Run(a, n), j + 1, j + k) = Run(a + j, k)
<1> DEFINE s == SubSeq(Run(a, n), j + 1, j + k)
<1>1. s \in Seq(Int) /\ Len(s) = k /\ \A i \in 1 .. k : s[i] = (a + j) + i
  <2>1. Run(a, n) \in Seq(Int) /\ Len(Run(a, n)) = n
    BY RunIs
  <2>2. \A i \in 1 .. n : Run(a, n)[i] = a + i
    BY RunIs
  <2>3. /\ s \in Seq(Int) /\ Len(s) = k
        /\ \A i \in 1 .. k : s[i] = Run(a, n)[j + i]
    <3> DEFINE r == Run(a, n)
    <3> HIDE DEF r
    <3>1. r \in Seq(Int) /\ Len(r) = n
      BY <2>1 DEF r
    <3>2. \A i \in j + 1 .. j + k : r[i] \in Int
      BY <3>1, ElementOfSeq
    <3>3. /\ SubSeq(r, j + 1, j + k) \in Seq(Int)
          /\ Len(SubSeq(r, j + 1, j + k)) = IF j + 1 <= j + k THEN (j + k) - (j + 1) + 1 ELSE 0
          /\ \A i \in 1 .. (j + k) - (j + 1) + 1 : SubSeq(r, j + 1, j + k)[i] = r[(j + 1) + i - 1]
      BY <3>1, <3>2, SubSeqProperties
    <3>4. /\ SubSeq(r, j + 1, j + k) \in Seq(Int) /\ Len(SubSeq(r, j + 1, j + k)) = k
          /\ \A i \in 1 .. k : SubSeq(r, j + 1, j + k)[i] = r[j + i]
      BY <3>3
    <3>5. QED
      BY <3>4 DEF r
  <2>4. \A i \in 1 .. k : j + i \in 1 .. n
    OBVIOUS
  <2>5. QED
    BY <2>2, <2>3, <2>4
<1> HIDE DEF s
<1>2. a + j \in Int
  OBVIOUS
<1>3. s = Run(a + j, Len(s))
  BY <1>1, <1>2, RunEquals
<1>4. QED
  BY <1>1, <1>3 DEF s

(* What is after the first k numbers, if anything is.                      *)
LEMMA RunRest ==
  ASSUME NEW a \in Int, NEW n \in Nat, NEW k \in Nat
  PROVE  SubSeq(Run(a, n), k + 1, n) = IF k <= n THEN Run(a + k, n - k) ELSE <<>>
<1>1. CASE k <= n
  <2>1. n - k \in Nat /\ k + (n - k) = n
    BY <1>1
  <2>2. SubSeq(Run(a, n), k + 1, k + (n - k)) = Run(a + k, n - k)
    <3> DEFINE x == n - k
    <3>1. x \in Nat /\ k + x <= n
      BY <2>1
    <3> HIDE DEF x
    <3>2. SubSeq(Run(a, n), k + 1, k + x) = Run(a + k, x)
      BY <3>1, RunCut
    <3>3. QED
      BY <3>2 DEF x
  <2>3. QED
    BY <1>1, <2>1, <2>2
<1>2. CASE ~(k <= n)
  <2>1. Run(a, n) \in Seq(Int)
    BY RunIs
  <2>2. SubSeq(Run(a, n), k + 1, n) = <<>>
    BY <1>2, <2>1
  <2>3. QED
    BY <1>2, <2>2
<1>3. QED
  BY <1>1, <1>2

LEMMA RunFirst ==
  ASSUME NEW a \in Int, NEW n \in Nat, NEW k \in Nat, k <= n
  PROVE  SubSeq(Run(a, n), 1, k) = Run(a, k)
<1>1. SubSeq(Run(a, n), 0 + 1, 0 + k) = Run(a + 0, k)
  <2> DEFINE z == 0
  <2>1. z \in Nat /\ z + k <= n
    OBVIOUS
  <2> HIDE DEF z
  <2>2. SubSeq(Run(a, n), z + 1, z + k) = Run(a + z, k)
    BY <2>1, RunCut
  <2>3. QED
    BY <2>2 DEF z
<1>2. 0 + 1 = 1 /\ 0 + k = k /\ a + 0 = a
  OBVIOUS
<1>3. QED
  BY <1>1, <1>2

LEMMA RunJoin ==
  ASSUME NEW a \in Int, NEW n \in Nat, NEW b \in Int, NEW k \in Nat, b = a + n
  PROVE  Run(a, n) \o Run(b, k) = Run(a, n + k)
<1> DEFINE x == Run(a, n)
           y == Run(b, k)
<1>1. /\ x \in Seq(Int) /\ Len(x) = n /\ \A i \in 1 .. n : x[i] = a + i
      /\ y \in Seq(Int) /\ Len(y) = k /\ \A i \in 1 .. k : y[i] = b + i
  BY RunIs
<1> HIDE DEF x, y
<1>2. /\ x \o y \in Seq(Int) /\ Len(x \o y) = n + k
      /\ \A i \in 1 .. n + k : (x \o y)[i] = IF i <= n THEN x[i] ELSE y[i - n]
  BY <1>1, ConcatProperties, ZenonT(40)
<1>3. \A i \in 1 .. n + k : (x \o y)[i] = a + i
  <2> TAKE i \in 1 .. n + k
  <2>1. CASE i <= n
    BY <1>1, <1>2, <2>1
  <2>2. CASE ~(i <= n)
    <3>1. i - n \in 1 .. k /\ b + (i - n) = a + i
      BY <2>2
    <3>2. QED
      BY <1>1, <1>2, <2>2, <3>1
  <2>3. QED
    BY <2>1, <2>2
<1>4. x \o y = Run(a, Len(x \o y))
  BY <1>2, <1>3, RunEquals
<1>5. QED
  BY <1>2, <1>4 DEF x, y

LEMMA RunConsecutive ==
  ASSUME NEW a \in Int, NEW n \in Nat
  PROVE  Consecutive(Run(a, n)) /\ (n > 0 => Run(a, n) # <<>> /\ Last(Run(a, n)) = a + n)
<1>1. /\ Run(a, n) \in Seq(Int) /\ Len(Run(a, n)) = n
      /\ \A i \in 1 .. n : Run(a, n)[i] = a + i
  BY RunIs
<1>2. \A i \in 1 .. n - 1 : i \in 1 .. n /\ i + 1 \in 1 .. n
  OBVIOUS
<1>3. Consecutive(Run(a, n))
  BY <1>1, <1>2 DEF Consecutive
<1>4. n > 0 => Run(a, n) # <<>> /\ Last(Run(a, n)) = a + n
  BY <1>1 DEF Last
<1>5. QED
  BY <1>3, <1>4

-----------------------------------------------------------------------------
(* Where the nodes are.                                                    *)
LEMMA StepPositive == Step \in Nat /\ Step > 0 /\ Required \in Nat /\ NodeSize \in Nat
  /\ NodeSize - Required = Step /\ HeaderSize \in Nat /\ HeaderSize >= 2 /\ HeaderSize <= Required
  BY DStreamAssumption, Lzma2Assumption DEF Step

LEMMA AtFirst == ASSUME NEW o \in Int PROVE At(o, 1) = o
<1>1. (1 - 1) * Step = 0
  BY StepPositive
<1>2. QED
  BY <1>1 DEF At

LEMMA AtNat == ASSUME NEW o \in Nat, NEW i \in Nat, i >= 1 PROVE At(o, i) \in Nat
<1>1. i - 1 \in Nat /\ Step \in Nat
  BY StepPositive
<1>2. (i - 1) * Step \in Nat
  BY <1>1
<1>3. QED
  BY <1>2 DEF At

LEMMA AtNext == ASSUME NEW o \in Int, NEW i \in Int PROVE At(o, i + 1) = At(o, i) + Step
<1> DEFINE k == Step
<1>1. k \in Int
  BY StepPositive
<1> HIDE DEF k
<1>2. ((i + 1) - 1) * k = (i - 1) * k + k
  BY <1>1
<1>3. (i - 1) * k \in Int
  BY <1>1
<1>4. At(o, i + 1) = o + ((i + 1) - 1) * k /\ At(o, i) = o + (i - 1) * k
  BY DEF At, k
<1>5. QED
  BY <1>1, <1>2, <1>3, <1>4 DEF k

LEMMA AtGrows ==
  ASSUME NEW o \in Nat, NEW i \in Nat, NEW j \in Nat, 1 <= i, i <= j
  PROVE  At(o, i) <= At(o, j)
<1> DEFINE Good == {d \in Nat : At(o, i) <= At(o, i + d)}
<1>1. 0 \in Good
  BY AtNat
<1>2. ASSUME NEW d \in Nat, d \in Good PROVE d + 1 \in Good
  <2>1. At(o, (i + d) + 1) = At(o, i + d) + Step
    BY AtNext
  <2>2. At(o, i) \in Nat /\ At(o, i + d) \in Nat /\ (i + d) + 1 = i + (d + 1) /\ At(o, i) <= At(o, i + d)
    BY <1>2, AtNat
  <2>3. QED
    BY <2>1, <2>2, StepPositive
<1>3. Nat \subseteq Good
  <2> HIDE DEF Good
  <2>1. QED
    BY <1>1, <1>2, Induction
<1>4. j - i \in Nat /\ i + (j - i) = j
  OBVIOUS
<1>5. j - i \in Good
  BY <1>3, <1>4
<1>6. QED
  BY <1>4, <1>5

-----------------------------------------------------------------------------
(* What the operators on UF2_decMt change.                                 *)
SameBlock(a, b) ==
  /\ a.first = b.first /\ a.last = b.last /\ a.startPos = b.startPos /\ a.endPos = b.endPos
  /\ a.unpackSize = b.unpackSize /\ a.bufSize = b.bufSize

SameBlocks(m, r) == \A t \in Thread : SameBlock(m.threads[t], r.threads[t])

LEMMA ThreadIs == Threads \in Nat /\ Threads > 1 /\ 0 \in Thread /\ Thread = 0 .. Threads - 1
  BY DStreamAssumption DEF Thread

LEMMA MtFields ==
  ASSUME NEW s, NEW m, Mt(s, m)
  PROVE  /\ m.chain \in Seq(Seq(1 .. Len(s))) /\ Len(m.chain) \in Nat /\ Len(m.chain) > 0
         /\ m.threads \in [Thread -> ThreadState] /\ m.numThreads \in 0 .. Threads
         /\ m.srcThread \in Nat /\ m.srcPos \in Nat /\ m.isFinal \in BOOLEAN
         /\ m.failState \in BOOLEAN /\ m.cur \in Nat /\ m.curPos \in Nat
         /\ \A i \in 1 .. Len(m.chain) :
              m.chain[i] \in Seq(1 .. Len(s)) /\ Len(m.chain[i]) \in Nat /\ Len(m.chain[i]) <= NodeSize
         /\ \A t \in Thread : m.threads[t] \in ThreadState
<1>1. /\ m.chain \in Seq(Seq(1 .. Len(s))) /\ Len(m.chain) \in Nat /\ Len(m.chain) > 0
      /\ m.threads \in [Thread -> ThreadState] /\ m.numThreads \in 0 .. Threads
      /\ m.srcThread \in Nat /\ m.srcPos \in Nat /\ m.isFinal \in BOOLEAN
      /\ m.failState \in BOOLEAN /\ m.cur \in Nat /\ m.curPos \in Nat
      /\ \A i \in 1 .. Len(m.chain) : Len(m.chain[i]) <= NodeSize
  BY DEF Mt
<1>2. \A i \in 1 .. Len(m.chain) : m.chain[i] \in Seq(1 .. Len(s)) /\ Len(m.chain[i]) \in Nat
  BY <1>1
<1>3. QED
  BY <1>1, <1>2

LEMMA ThreadFields ==
  ASSUME NEW th \in ThreadState
  PROVE  /\ th.first \in Nat /\ th.last \in Nat /\ th.startPos \in Nat /\ th.endPos \in Nat
         /\ th.unpackSize \in Nat /\ th.bufSize \in Nat /\ th.cur \in Nat /\ th.inPos \in Nat
         /\ th.outBuf \in Seq(Nat) /\ th.dec \in DecState
  BY DEF ThreadState

(* A record with these fields is a state.                                  *)
WithFields(r) ==
  r = [chain |-> r.chain, threads |-> r.threads, numThreads |-> r.numThreads,
       srcThread |-> r.srcThread, srcPos |-> r.srcPos, memTotal |-> r.memTotal,
       isFinal |-> r.isFinal, failState |-> r.failState, cur |-> r.cur, curPos |-> r.curPos]

LEMMA MtOf ==
  ASSUME NEW s, NEW r, WithFields(r),
         r.chain \in Seq(Seq(1 .. Len(s))), Len(r.chain) > 0,
         \A i \in 1 .. Len(r.chain) : Len(r.chain[i]) <= NodeSize,
         r.threads \in [Thread -> ThreadState], r.numThreads \in 0 .. Threads,
         r.srcThread \in Nat, r.srcPos \in Nat, r.isFinal \in BOOLEAN, r.failState \in BOOLEAN,
         r.cur \in Nat, r.curPos \in Nat
  PROVE  Mt(s, r)
  BY DEF Mt, WithFields

LEMMA NewBlockIs ==
  ASSUME NEW th \in ThreadState, NEW node \in Nat, NEW pos \in Nat
  PROVE  /\ NewBlock(th, node, pos) \in ThreadState
         /\ NewBlock(th, node, pos).first = node /\ NewBlock(th, node, pos).last = node
         /\ NewBlock(th, node, pos).startPos = pos /\ NewBlock(th, node, pos).endPos = pos
         /\ NewBlock(th, node, pos).unpackSize = 0
  BY DEF NewBlock, ThreadState

LEMMA OneNode ==
  ASSUME NEW s
  PROVE  /\ << <<>> >> \in Seq(Seq(1 .. Len(s))) /\ Len(<< <<>> >>) = 1 /\ << <<>> >>[1] = <<>>
         /\ \A i \in 1 .. Len(<< <<>> >>) : Len(<< <<>> >>[i]) <= NodeSize
<1>1. <<>> \in Seq(1 .. Len(s)) /\ Len(<<>>) = 0
  OBVIOUS
<1>2. 0 <= NodeSize
  BY StepPositive
<1>3. QED
  BY <1>1, <1>2

LEMMA FreedIs ==
  ASSUME NEW s, NEW m, Mt(s, m), NEW r, r = FreeOutputBuffers(m)
  PROVE  /\ Mt(s, r) /\ r.chain = m.chain /\ r.numThreads = 0 /\ r.isFinal = m.isFinal
         /\ r.failState = m.failState /\ r.cur = m.cur /\ r.curPos = m.curPos
         /\ SameBlocks(m, r)
<1> DEFINE ts == [t \in Thread |-> [m.threads[t] EXCEPT !.allocated = FALSE]]
<1>1. r = [m EXCEPT !.memTotal = Minus(@, BufferSum(m, HeldBy(m))), !.threads = ts, !.numThreads = 0]
  BY DEF FreeOutputBuffers
<1>2. \A t \in Thread : /\ ts[t] \in ThreadState
                        /\ SameBlock(m.threads[t], ts[t])
  <2> SUFFICES ASSUME NEW t \in Thread
               PROVE  ts[t] \in ThreadState /\ SameBlock(m.threads[t], ts[t])
    OBVIOUS
  <2> DEFINE th == m.threads[t]
  <2>1. th \in ThreadState
    BY MtFields
  <2> HIDE DEF th
  <2>2. [th EXCEPT !.allocated = FALSE] \in ThreadState /\ SameBlock(th, [th EXCEPT !.allocated = FALSE])
    BY <2>1 DEF ThreadState, SameBlock
  <2>3. ts[t] = [th EXCEPT !.allocated = FALSE]
    BY DEF th
  <2>4. QED
    BY <2>2, <2>3 DEF th
<1>3. ts \in [Thread -> ThreadState]
  BY <1>2
<1> HIDE DEF ts
<1>4. /\ r.chain = m.chain /\ r.threads = ts /\ r.numThreads = 0 /\ r.isFinal = m.isFinal
      /\ r.failState = m.failState /\ r.cur = m.cur /\ r.curPos = m.curPos
  BY <1>1 DEF Mt
<1>5. r.srcThread = m.srcThread /\ r.srcPos = m.srcPos /\ WithFields(r)
  BY <1>1 DEF Mt, WithFields
<1>6. Mt(s, r)
  <2>1. /\ r.threads \in [Thread -> ThreadState] /\ r.numThreads \in 0 .. Threads
        /\ r.srcThread \in Nat /\ r.srcPos \in Nat /\ r.isFinal \in BOOLEAN
        /\ r.failState \in BOOLEAN /\ r.cur \in Nat /\ r.curPos \in Nat
    BY <1>3, <1>4, <1>5, MtFields, ThreadIs
  <2>2. /\ r.chain \in Seq(Seq(1 .. Len(s))) /\ Len(r.chain) > 0
        /\ \A i \in 1 .. Len(r.chain) : Len(r.chain[i]) <= NodeSize
    BY <1>4, MtFields
  <2>3. QED
    BY <1>5, <2>1, <2>2, MtOf, Zenon
<1>7. QED
  BY <1>2, <1>4, <1>6 DEF SameBlocks

LEMMA FreedExtraIs ==
  ASSUME NEW s, NEW m, Mt(s, m), NEW r, r = FreeExtraInbufNodes(m)
  PROVE  /\ Mt(s, r) /\ r.chain = << <<>> >> /\ r.numThreads = m.numThreads /\ r.isFinal = m.isFinal
         /\ r.failState = m.failState /\ r.cur = m.cur /\ r.curPos = m.curPos
         /\ r.threads = m.threads
<1>1. r = [m EXCEPT !.memTotal = Minus(@, (Len(m.chain) - 1) * NodeSize), !.chain = << <<>> >>]
  BY DEF FreeExtraInbufNodes
<1>2. /\ r.chain = << <<>> >> /\ r.numThreads = m.numThreads /\ r.isFinal = m.isFinal
      /\ r.failState = m.failState /\ r.cur = m.cur /\ r.curPos = m.curPos
      /\ r.threads = m.threads
  BY <1>1 DEF Mt
<1>3. r.srcThread = m.srcThread /\ r.srcPos = m.srcPos
  BY <1>1 DEF Mt
<1>4. WithFields(r)
  BY <1>1 DEF Mt, WithFields
<1>5. /\ r.chain \in Seq(Seq(1 .. Len(s))) /\ Len(r.chain) > 0
      /\ \A i \in 1 .. Len(r.chain) : Len(r.chain[i]) <= NodeSize
  <2>1. 1 > 0
    OBVIOUS
  <2>2. QED
    BY <1>2, <2>1, OneNode, Zenon
<1>6. Mt(s, r)
  <2>1. /\ r.threads \in [Thread -> ThreadState] /\ r.numThreads \in 0 .. Threads
        /\ r.srcThread \in Nat /\ r.srcPos \in Nat /\ r.isFinal \in BOOLEAN
        /\ r.failState \in BOOLEAN /\ r.cur \in Nat /\ r.curPos \in Nat
    BY <1>2, <1>3, MtFields
  <2>2. QED
    BY <1>4, <1>5, <2>1, MtOf, Zenon
<1>7. QED
  BY <1>2, <1>6

LEMMA CleanedIs ==
  ASSUME NEW s, NEW m, Mt(s, m), NEW r, r = Cleanup(m)
  PROVE  /\ Mt(s, r) /\ r.chain = << <<>> >> /\ r.numThreads = 0 /\ r.isFinal = m.isFinal
         /\ r.failState = m.failState /\ r.cur = m.cur /\ r.curPos = m.curPos
         /\ SameBlocks(m, r)
<1> DEFINE f == FreeOutputBuffers(m)
<1>1. /\ Mt(s, f) /\ f.chain = m.chain /\ f.numThreads = 0 /\ f.isFinal = m.isFinal
      /\ f.failState = m.failState /\ f.cur = m.cur /\ f.curPos = m.curPos
      /\ SameBlocks(m, f)
  BY FreedIs
<1> HIDE DEF f
<1>2. r = FreeExtraInbufNodes(f)
  BY DEF Cleanup, f
<1>3. /\ Mt(s, r) /\ r.chain = << <<>> >> /\ r.numThreads = f.numThreads /\ r.isFinal = f.isFinal
      /\ r.failState = f.failState /\ r.cur = f.cur /\ r.curPos = f.curPos
      /\ r.threads = f.threads
  BY <1>1, <1>2, FreedExtraIs
<1>4. QED
  BY <1>1, <1>3 DEF SameBlocks

Fresh(s, m) ==
  /\ Mt(s, m) /\ m.chain = << <<>> >> /\ m.numThreads = 0
  /\ m.threads[0].first = 1 /\ m.threads[0].last = 1 /\ m.threads[0].startPos = 0
  /\ m.threads[0].endPos = 0 /\ m.threads[0].unpackSize = 0

LEMMA InitMtIs ==
  ASSUME NEW s, NEW m, Mt(s, m), NEW low \in BOOLEAN, NEW r, r = InitMt(m, low)
  PROVE  Fresh(s, r)
<1> DEFINE z == [m EXCEPT !.memTotal = 0]
           freed == Cleanup(z)
<1>1. Mt(s, z)
  BY DEF Mt
<1> HIDE DEF z
<1>2. Mt(s, freed) /\ freed.chain = << <<>> >> /\ freed.numThreads = 0
  BY <1>1, CleanedIs, ZenonT(40)
<1>3. r = [freed EXCEPT !.cur = 0, !.isFinal = FALSE, !.failState = low,
                        !.threads[0] = NewBlock(@, 1, 0)]
  BY DEF InitMt, z
<1> HIDE DEF freed
<1> DEFINE nb == NewBlock(freed.threads[0], 1, 0)
<1>4. /\ nb \in ThreadState /\ nb.first = 1 /\ nb.last = 1 /\ nb.startPos = 0 /\ nb.endPos = 0
      /\ nb.unpackSize = 0
  <2>1. freed.threads[0] \in ThreadState
    BY <1>2, ThreadIs, MtFields
  <2>2. QED
    BY <2>1, NewBlockIs
<1> HIDE DEF nb
<1>5. r = [freed EXCEPT !.cur = 0, !.isFinal = FALSE, !.failState = low,
                        !.threads = [@ EXCEPT ![0] = nb]]
  BY <1>3 DEF nb
<1>6. /\ r.chain = freed.chain /\ r.numThreads = 0 /\ r.isFinal = FALSE
      /\ r.failState = low /\ r.threads[0] = nb
  BY <1>2, <1>5, ThreadIs, SMTT(30) DEF Mt
<1>7. /\ r.threads = [freed.threads EXCEPT ![0] = nb] /\ WithFields(r)
      /\ r.srcThread = freed.srcThread /\ r.srcPos = freed.srcPos /\ r.cur = 0
      /\ r.curPos = freed.curPos
  BY <1>2, <1>5 DEF Mt, WithFields
<1>8. Mt(s, r)
  <2>1. r.threads \in [Thread -> ThreadState]
    BY <1>2, <1>4, <1>7, MtFields, ZenonT(40)
  <2>2. /\ r.numThreads \in 0 .. Threads
        /\ r.srcThread \in Nat /\ r.srcPos \in Nat /\ r.isFinal \in BOOLEAN
        /\ r.failState \in BOOLEAN /\ r.cur \in Nat /\ r.curPos \in Nat
    <3>1. freed.srcThread \in Nat /\ freed.srcPos \in Nat /\ freed.curPos \in Nat
      BY <1>2, MtFields
    <3>2. 0 \in 0 .. Threads /\ 0 \in Nat /\ FALSE \in BOOLEAN
      BY ThreadIs
    <3>3. QED
      BY <1>6, <1>7, <3>1, <3>2, Zenon
  <2>3. /\ r.chain \in Seq(Seq(1 .. Len(s))) /\ Len(r.chain) > 0
        /\ \A i \in 1 .. Len(r.chain) : Len(r.chain[i]) <= NodeSize
    BY <1>2, <1>6, MtFields
  <2>4. QED
    BY <1>7, <2>1, <2>2, <2>3, MtOf, Zenon
<1>9. QED
  BY <1>2, <1>4, <1>6, <1>8 DEF Fresh

-----------------------------------------------------------------------------
(* What the parts of the invariant say of a state that changed elsewhere.  *)
LEMMA StreamIs ==
  ASSUME NEW s \in Streams
  PROVE  /\ IsStream(s) /\ s \in Seq(Byte) /\ Len(s) \in Nat
         /\ \A p \in 1 .. Len(s) : s[p] \in Byte
<1>1. IsStream(s)
  BY StreamsAssumption
<1>2. s \in Seq(Byte)
  BY <1>1 DEF IsStream
<1>3. QED
  BY <1>1, <1>2

LEMMA BlockPlace ==
  ASSUME NEW s, NEW m, Mt(s, m), NEW o \in Nat, NEW t \in Thread, Block(s, m, o, t)
  PROVE  /\ Begin(m, o, t) \in Nat /\ End(m, o, t) \in Nat
         /\ m.threads[t].first \in Nat /\ m.threads[t].last \in Nat
         /\ 1 <= m.threads[t].first /\ m.threads[t].first <= m.threads[t].last
         /\ m.threads[t].last <= Len(m.chain)
         /\ m.threads[t].startPos \in Nat /\ m.threads[t].endPos \in Nat
         /\ At(o, m.threads[t].first) \in Nat /\ At(o, m.threads[t].last) \in Nat
<1>1. m.threads[t] \in ThreadState /\ Len(m.chain) \in Nat
  BY MtFields
<1>2. /\ m.threads[t].first \in Nat /\ m.threads[t].last \in Nat
      /\ m.threads[t].startPos \in Nat /\ m.threads[t].endPos \in Nat
  BY <1>1, ThreadFields
<1>3. /\ 1 <= m.threads[t].first /\ m.threads[t].first <= m.threads[t].last
      /\ m.threads[t].last <= Len(m.chain)
  BY <1>1, <1>2 DEF Block
<1>4. At(o, m.threads[t].first) \in Nat /\ At(o, m.threads[t].last) \in Nat
  <2>1. 1 <= m.threads[t].last
    BY <1>2, <1>3
  <2>2. QED
    BY <1>2, <1>3, <2>1, AtNat
<1>5. QED
  BY <1>2, <1>3, <1>4, SMTT(30) DEF Begin, End

LEMMA TipIs ==
  ASSUME NEW s, NEW m, Mt(s, m), NEW o \in Nat
  PROVE  Tip(m, o) \in Nat /\ At(o, Len(m.chain)) \in Nat /\ Len(m.chain[Len(m.chain)]) \in Nat
<1>1. Len(m.chain) \in Nat /\ Len(m.chain) >= 1 /\ Len(m.chain[Len(m.chain)]) \in Nat
  BY MtFields
<1>2. At(o, Len(m.chain)) \in Nat
  BY <1>1, AtNat
<1>3. QED
  BY <1>1, <1>2 DEF Tip

LEMMA SameNodes ==
  ASSUME NEW m, NEW r, r.chain = m.chain, NEW o
  PROVE  (Nodes(m, o) => Nodes(r, o)) /\ Tip(r, o) = Tip(m, o)
  BY DEF Nodes, Tip

LEMMA SamePlace ==
  ASSUME NEW m, NEW r, NEW o, NEW t, SameBlock(m.threads[t], r.threads[t])
  PROVE  Begin(r, o, t) = Begin(m, o, t) /\ End(r, o, t) = End(m, o, t)
  BY DEF Begin, End, SameBlock

LEMMA KeepsBlock ==
  ASSUME NEW s, NEW m, NEW r, Len(m.chain) \in Nat, Len(r.chain) \in Nat, Len(m.chain) <= Len(r.chain),
         NEW o, NEW t, SameBlock(m.threads[t], r.threads[t]), Block(s, m, o, t)
  PROVE  Block(s, r, o, t)
<1>1. Begin(r, o, t) = Begin(m, o, t) /\ End(r, o, t) = End(m, o, t)
  BY SamePlace
<1>2. r.threads[t].first = m.threads[t].first /\ r.threads[t].last = m.threads[t].last
  BY DEF SameBlock
<1>3. r.threads[t].last \in 1 .. Len(r.chain)
  BY <1>2 DEF Block
<1>4. QED
  BY <1>1, <1>2, <1>3, Zenon DEF Block

LEMMA KeepsComplete ==
  ASSUME NEW s, NEW m, NEW r, Len(m.chain) \in Nat, Len(r.chain) \in Nat, Len(m.chain) <= Len(r.chain),
         NEW o, NEW t \in Nat, SameBlock(m.threads[t], r.threads[t]),
         t > 0 => SameBlock(m.threads[t - 1], r.threads[t - 1]), Complete(s, m, o, t),
         m.threads[t].endPos <= Len(r.chain[m.threads[t].last])
  PROVE  Complete(s, r, o, t)
<1>1. Begin(r, o, t) = Begin(m, o, t) /\ End(r, o, t) = End(m, o, t)
  BY SamePlace
<1>2. r.threads[t].first = m.threads[t].first /\ r.threads[t].last = m.threads[t].last
      /\ r.threads[t].endPos = m.threads[t].endPos
  BY DEF SameBlock
<1>3. Block(s, m, o, t)
  BY DEF Complete
<1>4. Block(s, r, o, t)
  BY <1>3, KeepsBlock
<1>5. t > 0 => End(r, o, t - 1) = End(m, o, t - 1)
  BY DEF End, SameBlock
<1>6. QED
  BY <1>1, <1>2, <1>4, <1>5, Zenon DEF Complete

(* With the same blocks and no less in the chain.                          *)
NoLess(m, r) ==
  /\ Len(r.chain) = Len(m.chain) /\ Len(m.chain) \in Nat
  /\ \A i \in 1 .. Len(m.chain) :
       Len(m.chain[i]) \in Nat /\ Len(r.chain[i]) \in Nat /\ Len(m.chain[i]) <= Len(r.chain[i])

LEMMA KeepsInProgress ==
  ASSUME NEW s, NEW m, NEW r, Mt(s, m), NoLess(m, r), SameBlocks(m, r), NEW o, NEW n \in Nat, InProgress(s, m, o, n)
  PROVE  InProgress(s, r, o, n)
<1>1. n < Threads /\ n \in Thread /\ \A t \in 0 .. n - 1 : t \in Thread
  BY ThreadIs DEF InProgress
<1>2. \A t \in 0 .. n : SameBlock(m.threads[t], r.threads[t])
  BY <1>1 DEF SameBlocks
<1>3. \A t \in 0 .. n : Begin(r, o, t) = Begin(m, o, t) /\ End(r, o, t) = End(m, o, t)
  BY <1>2, SamePlace
<1>4. n \in 0 .. n /\ (n > 0 => n - 1 \in 0 .. n)
  OBVIOUS
<1>5. r.threads[n].last = m.threads[n].last /\ r.threads[n].unpackSize = m.threads[n].unpackSize
  BY <1>2, <1>4 DEF SameBlock
<1>6. Block(s, r, o, n)
  <2>1. Block(s, m, o, n) /\ SameBlock(m.threads[n], r.threads[n])
    BY <1>2, <1>4 DEF InProgress
  <2>2. Len(m.chain) \in Nat /\ Len(r.chain) \in Nat /\ Len(m.chain) <= Len(r.chain)
    BY DEF NoLess
  <2>3. QED
    BY <2>1, <2>2, KeepsBlock
<1>7. ASSUME NEW t \in 0 .. n - 1 PROVE Complete(s, r, o, t) /\ End(r, o, t) <= Begin(r, o, n)
  <2>1. Complete(s, m, o, t) /\ End(m, o, t) <= Begin(m, o, n)
    BY DEF InProgress
  <2>2. t \in Nat /\ t \in 0 .. n /\ t \in Thread /\ (t > 0 => t - 1 \in 0 .. n)
    BY <1>1
  <2>3. m.threads[t].endPos <= Len(r.chain[m.threads[t].last])
    <3>1. /\ m.threads[t].last \in 1 .. Len(m.chain)
          /\ m.threads[t].endPos <= Len(m.chain[m.threads[t].last])
      BY <2>1 DEF Complete, Block
    <3>2. m.threads[t].endPos \in Nat
      BY <2>2, MtFields, ThreadFields
    <3> DEFINE l == m.threads[t].last
    <3>3. l \in 1 .. Len(m.chain) /\ m.threads[t].endPos <= Len(m.chain[l])
      BY <3>1
    <3> HIDE DEF l
    <3>4. Len(m.chain[l]) \in Nat /\ Len(r.chain[l]) \in Nat /\ Len(m.chain[l]) <= Len(r.chain[l])
      BY <3>3 DEF NoLess
    <3>5. m.threads[t].endPos <= Len(r.chain[l])
      BY <3>2, <3>3, <3>4
    <3>6. QED
      BY <3>5 DEF l
  <2>4. Len(m.chain) \in Nat /\ Len(r.chain) \in Nat /\ Len(m.chain) <= Len(r.chain)
    BY DEF NoLess
  <2>5. Complete(s, r, o, t)
    BY <1>2, <2>1, <2>2, <2>3, <2>4, KeepsComplete
  <2>6. QED
    BY <1>3, <1>4, <2>1, <2>2, <2>5
<1>8. Len(r.chain) = Len(m.chain)
  BY DEF NoLess
<1>9. QED
  BY <1>1, <1>3, <1>4, <1>5, <1>6, <1>7, <1>8, Zenon DEF InProgress

LEMMA SameIsNoLess ==
  ASSUME NEW s, NEW m, NEW r, Mt(s, m), r.chain = m.chain PROVE NoLess(m, r)
<1>1. \A i \in 1 .. Len(m.chain) : Len(m.chain[i]) \in Nat
  BY MtFields
<1>2. Len(m.chain) \in Nat
  BY MtFields
<1>3. QED
  BY <1>1, <1>2 DEF NoLess

LEMMA SameIsSame ==
  ASSUME NEW m, NEW r, r.threads = m.threads PROVE SameBlocks(m, r)
  BY DEF SameBlocks, SameBlock

(* An end mark that is not before b is not before a smaller place either.  *)
LEMMA EndAfterLess ==
  ASSUME NEW s, NEW a \in Int, NEW b \in Int, a <= b, EndAfter(s, b) PROVE EndAfter(s, a)
  BY DEF EndAfter

-----------------------------------------------------------------------------
(* The beginning of a stream, and of a call.                               *)
LEMMA FreshChain ==
  ASSUME NEW s, NEW m, m.chain = << <<>> >>, NEW o \in Nat
  PROVE  Nodes(m, o) /\ Tip(m, o) = o /\ m.chain[1] = <<>> /\ Len(m.chain) = 1
<1>1. Len(m.chain) = 1 /\ m.chain[1] = <<>> /\ Len(m.chain[1]) = 0
  OBVIOUS
<1>2. At(o, 1) = o
  BY AtFirst
<1>3. Run(At(o, 1), 0) = <<>>
  BY RunEmpty
<1>4. \A i \in 1 .. Len(m.chain) : i = 1
  BY <1>1
<1>5. QED
  BY <1>1, <1>2, <1>3, <1>4 DEF Nodes, Tip

LEMMA UpToNothing == ASSUME NEW p \in Nat PROVE UpTo(<<>>, p)
<1>1. Len(<<>>) = 0 /\ Run(p - 0, 0) = <<>>
  BY RunEmpty
<1>2. QED
  BY <1>1 DEF UpTo

LEMMA CoreAtStart ==
  ASSUME NEW s \in Streams, NEW m, Mt(s, m), m.chain = << <<>> >>, m.numThreads = 0,
         m.threads[0].first = 1, m.threads[0].last = 1, m.threads[0].startPos = 0,
         m.threads[0].endPos = 0, m.threads[0].unpackSize = 0, NEW r
  PROVE  Core(s, m, Reset, [base |-> 0, pos |-> 0, size |-> 0], "idle", r, 0)
<1> DEFINE in == [base |-> 0, pos |-> 0, size |-> 0]
           f  == Reset
<1>1. /\ in.base = 0 /\ in.pos = 0 /\ f.stage = "decomp" /\ f.dec = InitDecoder /\ f.overlap = <<>>
      /\ f.hash = <<>>
  BY DEF Reset
<1>2. Nodes(m, 0) /\ Tip(m, 0) = 0 /\ m.chain[1] = <<>> /\ Len(m.chain) = 1
  BY FreshChain
<1> HIDE DEF in, f
<1>3. Accounted(m, f, in, 0)
  BY <1>1, <1>2, UpToNothing DEF Accounted
<1>4. OneThread(s, m, f, in, 0)
  <2>1. InitDecoder.state = "ok"
    BY DEF InitDecoder
  <2>2. QED
    BY <1>1, <1>2, <2>1 DEF OneThread
<1>5. \A q \in 1 .. Len(s) : q > 0 /\ q > -1
  BY StreamIs
<1>6. EndAfter(s, 0) /\ EndAfter(s, -1)
  BY <1>5 DEF EndAfter
<1>7. Begin(m, 0, 0) = 0 /\ End(m, 0, 0) = 0
  BY AtFirst DEF Begin, End
<1>8. BeginsChunk(s, 1)
  BY StreamIs DEF IsStream
<1>9. Block(s, m, 0, 0)
  <2>1. 1 \in 1 .. 1 /\ \A q \in 0 + 2 .. 0 : FALSE
    OBVIOUS
  <2>2. Independent(s, 0, 0)
    BY <2>1 DEF Independent
  <2>3. QED
    BY <1>2, <1>7, <2>1, <2>2 DEF Block
<1>10. InProgress(s, m, 0, 0)
  <2>1. LeadsOff(s, 0)
    BY DEF LeadsOff
  <2>2. \A t \in 0 .. 0 - 1 : FALSE
    OBVIOUS
  <2>3. QED
    BY <1>2, <1>6, <1>7, <1>8, <1>9, <2>1, <2>2, ThreadIs DEF InProgress
<1>11. Parsing(s, m, 0, "idle", r, 0)
  <2>1. 0 - 1 = -1
    OBVIOUS
  <2>2. QED
    BY <1>6, <1>10, <2>1 DEF Parsing
<1>12. SeveralThreads(s, m, f, in, "idle", r, 0)
  <2>1. 0 - 1 = -1
    OBVIOUS
  <2>2. QED
    BY <1>1, <1>6, <1>11, <2>1 DEF SeveralThreads
<1>13. QED
  BY <1>3, <1>4, <1>12 DEF Core, in, f

(* The same chain, with nothing parsed or read in between.                 *)
Between == {"idle", "hash", "report", "canceling", "direct", "write"}

LEMMA ParsingBetween ==
  ASSUME NEW s, NEW m, NEW o, NEW p \in Between, NEW q \in Between, NEW r, NEW r2, NEW pos,
         Parsing(s, m, o, p, r, pos)
  PROVE  /\ Parsing(s, m, o, q, r2, pos)
         /\ Parsing(s, m, o, "load", "continue", pos)
         /\ EndAfter(s, pos - 1)
  BY DEF Parsing, Between

LEMMA CoreBetween ==
  ASSUME NEW s, NEW m, NEW f, NEW in, NEW p \in Between, NEW q \in Between, NEW r, NEW r2, NEW o,
         Core(s, m, f, in, p, r, o)
  PROVE  Core(s, m, f, in, q, r2, o)
<1>1. p # "error" /\ q # "error" /\ p \notin {"blocks", "failed"} /\ q \notin {"blocks", "failed"}
  BY DEF Between
<1>2. SeveralThreads(s, m, f, in, p, r, o) => SeveralThreads(s, m, f, in, q, r2, o)
  BY <1>1, ParsingBetween DEF SeveralThreads
<1>3. QED
  BY <1>1, <1>2 DEF Core

LEMMA CoreError ==
  ASSUME NEW s, NEW m, NEW f, NEW in, NEW p, NEW r, NEW r2, NEW o, Core(s, m, f, in, p, r, o)
  PROVE  Core(s, m, f, in, "error", r2, o)
  BY DEF Core

(* The numbers of calls that did nothing do not matter.                    *)
LEMMA CoreLoops ==
  ASSUME NEW s, NEW m, NEW f, NEW g, NEW in, NEW p, NEW r, NEW o, Core(s, m, f, in, p, r, o),
         g.stage = f.stage, g.dec = f.dec, g.overlap = f.overlap, g.hash = f.hash
  PROVE  Core(s, m, g, in, p, r, o)
  BY DEF Core, Accounted, OneThread, SeveralThreads, FromChain

StepFor(m, f) ==
  CASE m.failState                      -> "failed"
    [] ~m.failState /\ f.stage = "decomp"  -> "load"
    [] ~m.failState /\ f.stage = "mtWrite" -> "write"
    [] OTHER                            -> "hash"

LEMMA CoreCall ==
  ASSUME NEW s, NEW m, NEW f, NEW in, NEW in2, NEW r, NEW o, Core(s, m, f, in, "idle", r, o),
         m.failState \in BOOLEAN,
         in2.pos = in.pos, in2.base \in {in.base, in.pos}
  PROVE  Core(s, m, f, in2, StepFor(m, f), "continue", o)
<1>1. Accounted(m, f, in2, o)
  BY DEF Core, Accounted
<1>2. CASE m.failState
  <2>1. StepFor(m, f) = "failed"
    BY <1>2 DEF StepFor
  <2>2. OneThread(s, m, f, in2, o)
    BY <1>2 DEF Core, OneThread, FromChain
  <2>3. QED
    BY <1>1, <1>2, <2>1, <2>2 DEF Core
<1>3. CASE ~m.failState
  <2>1. SeveralThreads(s, m, f, in, "idle", r, o)
    BY <1>3 DEF Core
  <2>2. f.stage \in {"decomp", "mtWrite"} => EndAfter(s, in.pos - 1)
    <3>1. ASSUME f.stage = "mtWrite" PROVE EndAfter(s, in.pos - 1)
      BY <2>1, <3>1 DEF SeveralThreads, Writing
    <3>2. ASSUME f.stage = "decomp" PROVE EndAfter(s, in.pos - 1)
      <4>1. Parsing(s, m, o, "idle", r, in.pos)
        BY <2>1, <3>2 DEF SeveralThreads
      <4>2. QED
        BY <4>1 DEF Parsing
    <3>3. QED
      BY <3>1, <3>2
  <2>3. f.stage \in {"decomp", "mtWrite"} => EndAfter(s, in2.base - 1)
    BY <2>1, <2>2 DEF SeveralThreads
  <2>4. f.stage = "decomp" => Parsing(s, m, o, "load", "continue", in2.pos)
    BY <2>1, ParsingBetween, ZenonT(40) DEF SeveralThreads, Between
  <2>5. f.stage = "mtWrite" => Writing(s, m, o, in2.pos)
    BY <2>1 DEF SeveralThreads
  <2>6. /\ f.stage = "decomp" => StepFor(m, f) = "load"
        /\ StepFor(m, f) \notin {"blocks", "failed", "error"}
    BY <1>3 DEF StepFor
  <2>7. SeveralThreads(s, m, f, in2, StepFor(m, f), "continue", o)
    BY <2>3, <2>4, <2>5, <2>6 DEF SeveralThreads
  <2>8. QED
    BY <1>1, <1>3, <2>7 DEF Core
<1>4. QED
  BY <1>2, <1>3

-----------------------------------------------------------------------------
(* Parsing.                                                                *)
ParseContext(s, m, f, in, o) ==
  /\ s \in Streams /\ Mt(s, m) /\ Own(s, f) /\ Buffer(s, in) /\ o \in 0 .. Len(s)
  /\ f.stage = "decomp" /\ ~m.failState

LEMMA ParseContextIs ==
  ASSUME NEW s, NEW m, NEW f, NEW in, NEW o, ParseContext(s, m, f, in, o), NEW p, NEW r,
         p \notin {"blocks", "failed", "error"}, Core(s, m, f, in, p, r, o)
  PROVE  /\ o \in Nat /\ m.numThreads \in Nat /\ m.numThreads \in Thread /\ m.numThreads < Threads
         /\ Nodes(m, o) /\ Tip(m, o) = in.pos /\ in.pos \in Nat /\ in.base \in Nat
         /\ in.base <= in.pos /\ in.pos <= Len(s)
         /\ EndAfter(s, in.base - 1) /\ Parsing(s, m, o, p, r, in.pos)
         /\ InProgress(s, m, o, m.numThreads)
         /\ m.threads[m.numThreads].last = Len(m.chain)
         /\ m.threads[m.numThreads] \in ThreadState
         /\ m.threads[m.numThreads].endPos \in Nat
         /\ End(m, o, m.numThreads) = At(o, Len(m.chain)) + m.threads[m.numThreads].endPos
         /\ LastNode(m) = m.chain[Len(m.chain)]
         /\ Begin(m, o, m.numThreads) \in Nat /\ End(m, o, m.numThreads) \in Nat
         /\ At(o, Len(m.chain)) \in Nat /\ Len(LastNode(m)) \in Nat /\ Len(LastNode(m)) <= NodeSize
<1> DEFINE n == m.numThreads
<1>1. /\ Nodes(m, o) /\ Tip(m, o) = in.pos /\ EndAfter(s, in.base - 1)
      /\ Parsing(s, m, o, p, r, in.pos)
  BY DEF Core, Accounted, ParseContext, SeveralThreads
<1>2. InProgress(s, m, o, n)
  BY <1>1 DEF Parsing
<1>3. n \in Nat /\ n \in Thread /\ n < Threads
  <2>1. n \in 0 .. Threads
    BY MtFields DEF ParseContext
  <2>2. QED
    BY <1>2, <2>1, ThreadIs DEF InProgress
<1>4. o \in Nat /\ in.pos \in Nat /\ in.base \in Nat /\ in.base <= in.pos /\ in.pos <= Len(s)
  <2>1. Len(s) \in Nat
    BY StreamIs DEF ParseContext
  <2>2. QED
    BY <2>1 DEF ParseContext, Buffer
<1>5. Block(s, m, o, n) /\ m.threads[n].last = Len(m.chain)
  BY <1>2 DEF InProgress
<1>6. Begin(m, o, n) \in Nat /\ End(m, o, n) \in Nat /\ m.threads[n].endPos \in Nat
  BY <1>3, <1>4, <1>5, BlockPlace DEF ParseContext
<1>7. End(m, o, n) = At(o, Len(m.chain)) + m.threads[n].endPos
  BY <1>5 DEF End
<1>8. m.threads[n] \in ThreadState
  BY <1>3, MtFields DEF ParseContext
<1>9. LastNode(m) = m.chain[Len(m.chain)]
  BY <1>5 DEF LastNode, InBlock
<1>10. At(o, Len(m.chain)) \in Nat /\ Len(LastNode(m)) \in Nat
  BY <1>4, <1>9, TipIs DEF ParseContext
<1>11. Len(LastNode(m)) <= NodeSize
  <2>1. Len(m.chain) \in 1 .. Len(m.chain)
    BY MtFields DEF ParseContext
  <2>2. QED
    BY <1>9, <2>1 DEF ParseContext, Mt
<1>12. QED
  BY <1>1, <1>2, <1>3, <1>4, <1>5, <1>6, <1>7, <1>8, <1>9, <1>10, <1>11

(* UF2_loadInputMt: on with parsing, reading, or the end of the call.      *)
LEMMA CoreLoad ==
  ASSUME NEW s, NEW m, NEW f, NEW in, NEW o, ParseContext(s, m, f, in, o), NEW r,
         Core(s, m, f, in, "load", r, o), NEW q,
         q = "parse" => m.threads[m.numThreads].endPos < Len(LastNode(m)),
         q # "parse" => m.threads[m.numThreads].endPos >= Len(LastNode(m)),
         q \in {"parse", "read", "hash"}
  PROVE  Core(s, m, f, in, q, r, o)
<1> DEFINE n == m.numThreads
           e == End(m, o, n)
<1>1. /\ Accounted(m, f, in, o) /\ ~m.failState /\ f.stage = "decomp"
      /\ EndAfter(s, in.base - 1)
  <2>1. EndAfter(s, in.base - 1)
    BY ParseContextIs
  <2>2. QED
    BY <2>1 DEF Core, ParseContext
<1>2. /\ Parsing(s, m, o, "load", r, in.pos) /\ InProgress(s, m, o, n) /\ Tip(m, o) = in.pos
      /\ m.threads[n].endPos \in Nat /\ e \in Nat /\ in.pos \in Nat
      /\ e = At(o, Len(m.chain)) + m.threads[n].endPos
      /\ LastNode(m) = m.chain[Len(m.chain)] /\ At(o, Len(m.chain)) \in Nat /\ Len(LastNode(m)) \in Nat
  BY ParseContextIs
<1>3. in.pos = At(o, Len(m.chain)) + Len(LastNode(m))
  BY <1>2 DEF Tip
<1>4. q # "parse" => e >= in.pos /\ r # "moreData"
  <2>1. q # "parse" => e >= in.pos
    BY <1>2, <1>3
  <2>2. r = "moreData" => e < in.pos
    BY <1>2 DEF Parsing
  <2>3. QED
    BY <1>2, <2>1, <2>2
<1>5. EndAfter(s, e)
  BY <1>2 DEF InProgress
<1>6. q = "hash" => EndAfter(s, in.pos - 1)
  BY <1>2, <1>4, <1>5, EndAfterLess
<1>7. Parsing(s, m, o, q, r, in.pos)
  BY <1>2, <1>4, <1>6 DEF Parsing
<1>8. QED
  BY <1>1, <1>7 DEF Core, SeveralThreads
(* The byte that parsing is at.                                            *)
LEMMA ChunkHere ==
  ASSUME NEW s, NEW m, NEW f, NEW in, NEW o, ParseContext(s, m, f, in, o), NEW r,
         Core(s, m, f, in, "parse", r, o)
  PROVE  LET n == m.numThreads
             e == End(m, o, n)
         IN  /\ LastNode(m)[m.threads[n].endPos + 1] = e + 1 /\ e + 1 \in 1 .. Len(s)
             /\ Len(LastNode(m)) - m.threads[n].endPos = in.pos - e /\ e < in.pos
             /\ s[e + 1] \in Byte
<1> DEFINE n == m.numThreads
           e == End(m, o, n)
           z == m.threads[n].endPos
           c == LastNode(m)
           l == Len(m.chain)
<1>1. /\ Parsing(s, m, o, "parse", r, in.pos) /\ Tip(m, o) = in.pos /\ Nodes(m, o)
      /\ z \in Nat /\ e \in Nat /\ in.pos \in Nat /\ in.pos <= Len(s)
      /\ e = At(o, l) + z
      /\ c = m.chain[l] /\ At(o, l) \in Nat /\ Len(c) \in Nat
  BY ParseContextIs
<1>2. z < Len(c)
  BY <1>1 DEF Parsing
<1>3. in.pos = At(o, l) + Len(c)
  BY <1>1 DEF Tip
<1>4. l \in 1 .. l
  BY MtFields DEF ParseContext
<1>5. c = Run(At(o, l), Len(c))
  BY <1>1, <1>4 DEF Nodes
<1> HIDE DEF c, z, e, l
<1>6. c[z + 1] = At(o, l) + (z + 1)
  <2>1. Run(At(o, l), Len(c))[z + 1] = At(o, l) + (z + 1)
    <3>1. z + 1 \in 1 .. Len(c) /\ At(o, l) \in Int
      BY <1>1, <1>2
    <3>2. QED
      BY <1>1, <3>1, RunIs
  <2>2. QED
    BY <1>5, <2>1
<1>7. Len(s) \in Nat /\ \A q \in 1 .. Len(s) : s[q] \in Byte
  BY StreamIs DEF ParseContext
<1>8. /\ c[z + 1] = e + 1 /\ e + 1 \in 1 .. Len(s)
      /\ Len(c) - z = in.pos - e /\ e < in.pos
  BY <1>1, <1>2, <1>3, <1>6, <1>7, SMTT(30)
<1>9. QED
  BY <1>7, <1>8 DEF c, z, e, l

(* Inside a chunk there is nothing that begins one.                        *)
LEMMA ChunkIs ==
  ASSUME NEW s \in Streams, NEW a \in Nat, a + 1 \in 1 .. Len(s), s[a + 1].kind = "control"
  PROVE  LET next == a + HeaderSize + s[a + 1].size
         IN  /\ s[a + 1].size \in Nat /\ s[a + 1].size > 0 /\ next \in Nat /\ next > a + 1
             /\ BeginsChunk(s, next + 1)
             /\ \A q \in a + 2 .. next : ~IsReset(s, q)
             /\ EndAfter(s, a) => EndAfter(s, next)
<1> DEFINE h == HeaderSize
           p == a + 1
           k == s[a + 1].size
<1>1. s[a + 1] \in Byte /\ Len(s) \in Nat /\ IsStream(s)
  BY StreamIs
<1>2. k \in Nat /\ k > 0
  BY <1>1 DEF Byte
<1>3. h \in Nat /\ h >= 2
  BY StepPositive
<1>4. /\ BeginsChunk(s, p) /\ BeginsChunk(s, p + h + k)
      /\ \A q \in p + h .. (p + h + k) - 1 : q <= Len(s) => s[q].kind \in {"data", "bad"}
  BY <1>1 DEF IsStream
<1>5. \A q \in p + 1 .. p + h - 1 : q <= Len(s) => s[q].kind = "header"
  <2>1. s[p].kind # "end"
    OBVIOUS
  <2>2. QED
    BY <1>4, <2>1 DEF BeginsChunk
<1> HIDE DEF h, k
<1>6. p + h + k = (a + h + k) + 1 /\ a + h + k \in Nat /\ a + h + k > a + 1
  BY <1>2, <1>3
<1>7. ASSUME NEW q \in a + 2 .. a + h + k, q <= Len(s) PROVE s[q].kind \in {"header", "data", "bad"}
  <2>1. CASE q <= a + h
    <3>1. q \in p + 1 .. p + h - 1
      BY <1>3, <2>1
    <3>2. QED
      BY <1>5, <1>7, <3>1
  <2>2. CASE ~(q <= a + h)
    <3>1. q \in p + h .. (p + h + k) - 1
      BY <1>2, <1>3, <2>2
    <3>2. QED
      BY <1>4, <1>7, <3>1
  <2>3. QED
    BY <2>1, <2>2
<1>8. \A q \in a + 2 .. a + h + k : ~IsReset(s, q)
  BY <1>1, <1>7 DEF IsReset, KindAt
<1>9. ASSUME EndAfter(s, a) PROVE EndAfter(s, a + h + k)
  <2> SUFFICES ASSUME NEW q \in 1 .. Len(s), s[q].kind = "end" PROVE q > a + h + k
    BY DEF EndAfter
  <2>1. q > a
    BY <1>9 DEF EndAfter
  <2>2. q # a + 1
    OBVIOUS
  <2>3. q \in Int /\ q <= Len(s)
    OBVIOUS
  <2>4. ~(q \in a + 2 .. a + h + k)
    BY <1>7, <2>3
  <2>5. QED
    BY <1>6, <2>1, <2>2, <2>3, <2>4
<1>10. QED
  BY <1>2, <1>4, <1>6, <1>8, <1>9 DEF h, k

(* Only the block that is parsed grows.                                    *)
GrowsBlock(m, r, n) ==
  /\ r.chain = m.chain /\ r.numThreads = m.numThreads /\ r.failState = m.failState
  /\ r.isFinal = m.isFinal
  /\ \A t \in Thread : t # n => SameBlock(m.threads[t], r.threads[t])
  /\ r.threads[n].first = m.threads[n].first /\ r.threads[n].last = m.threads[n].last
  /\ r.threads[n].startPos = m.threads[n].startPos

LEMMA CoreNextChunk ==
  ASSUME NEW s, NEW m, NEW f, NEW in, NEW o, ParseContext(s, m, f, in, o), NEW r,
         Core(s, m, f, in, "parse", r, o), NEW m2, Mt(s, m2), NEW n, n = m.numThreads,
         GrowsBlock(m, m2, n), NEW b, b = s[End(m, o, n) + 1],
         b.kind = "control", ~b.reset \/ m.threads[n].unpackSize = 0,
         m2.threads[n].endPos = m.threads[n].endPos + HeaderSize + b.size,
         m2.threads[n].unpackSize = m.threads[n].unpackSize + b.size,
         NEW q, q \in {"parse", "read"}, q = "parse" => m2.threads[n].endPos < Len(LastNode(m))
  PROVE  Core(s, m2, f, in, q, "continue", o)
<1> DEFINE e == End(m, o, n)
           a == Begin(m, o, n)
           e2 == e + HeaderSize + b.size
           l == Len(m.chain)
<1>1. /\ Parsing(s, m, o, "parse", r, in.pos) /\ InProgress(s, m, o, n)
      /\ EndAfter(s, in.base - 1) /\ n \in Nat /\ n \in Thread /\ n < Threads
      /\ m.threads[n].last = l /\ m.threads[n].endPos \in Nat
      /\ e = At(o, l) + m.threads[n].endPos /\ a \in Nat /\ e \in Nat
      /\ At(o, l) \in Nat /\ m.threads[n] \in ThreadState
  BY ParseContextIs
<1>2. e + 1 \in 1 .. Len(s) /\ b \in Byte
  BY ChunkHere
<1>3. s \in Streams
  BY SMTT(30) DEF ParseContext
<1>4. /\ b.size \in Nat /\ b.size > 0 /\ e2 \in Nat /\ e2 > e + 1
      /\ BeginsChunk(s, e2 + 1)
      /\ \A j \in e + 2 .. e2 : ~IsReset(s, j)
      /\ EndAfter(s, e) => EndAfter(s, e2)
  BY <1>1, <1>2, <1>3, ChunkIs, ZenonT(40)
<1>5. Begin(m2, o, n) = a /\ End(m2, o, n) = e2
  <2>1. Begin(m2, o, n) = a
    BY DEF Begin, GrowsBlock
  <2>2. End(m2, o, n) = At(o, l) + (m.threads[n].endPos + HeaderSize + b.size)
    BY <1>1 DEF End, GrowsBlock
  <2>3. End(m2, o, n) = e2
    <3> DEFINE z == m.threads[n].endPos
               p == At(o, l)
    <3>1. z \in Nat /\ p \in Nat /\ e = p + z /\ End(m2, o, n) = p + (z + HeaderSize + b.size)
      BY <1>1, <2>2
    <3>2. HeaderSize \in Nat /\ b.size \in Nat
      BY <1>4, StepPositive
    <3> HIDE DEF z, p, e
    <3>3. p + (z + HeaderSize + b.size) = (p + z) + HeaderSize + b.size
      BY <3>1, <3>2
    <3>4. QED
      BY <3>1, <3>3
  <2>4. QED
    BY <2>1, <2>3
<1>6. /\ Block(s, m, o, n) /\ a <= e
      /\ IF m.threads[n].unpackSize = 0 THEN e = a ELSE e > a + 1
      /\ LeadsOff(s, a) /\ EndAfter(s, e) /\ Independent(s, a, e)
  BY <1>1 DEF InProgress, Block
<1> HIDE DEF e, a, e2, l
<1>7. IsReset(s, e + 1) => m.threads[n].unpackSize = 0
  <2>1. IsReset(s, e + 1) => s[e + 1].reset
    BY DEF IsReset
  <2>2. QED
    BY <2>1 DEF e
<1>8. Independent(s, a, e2)
  <2>1. ASSUME a # 0 PROVE IsReset(s, a + 1)
    <3>1. CASE m.threads[n].unpackSize = 0
      <4>1. e = a /\ KindAt(s, a + 1, "control")
        BY <1>2, <1>6, <3>1 DEF KindAt, e
      <4>2. QED
        BY <1>6, <2>1, <4>1 DEF LeadsOff
    <3>2. CASE m.threads[n].unpackSize # 0
      BY <1>6, <2>1, <3>2 DEF Independent
    <3>3. QED
      BY <3>1, <3>2
  <2>2. ASSUME NEW j \in a + 2 .. e2 PROVE ~IsReset(s, j)
    <3>1. CASE j \in a + 2 .. e
      BY <1>6, <3>1 DEF Independent
    <3>2. CASE j \in e + 2 .. e2
      BY <1>4, <3>2
    <3>3. CASE j = e + 1
      <4>1. e # a
        BY <1>1, <2>2, <3>3, SMTT(30)
      <4>2. QED
        BY <1>6, <1>7, <3>3, <4>1
    <3>4. j \in a + 2 .. e \/ j \in e + 2 .. e2 \/ j = e + 1
      <4>1. a \in Nat /\ e \in Nat /\ e2 \in Nat
        BY <1>1, <1>4
      <4>2. QED
        BY <4>1
    <3>5. QED
      BY <3>1, <3>2, <3>3, <3>4
  <2>3. QED
    BY <2>1, <2>2 DEF Independent
<1>9. Block(s, m2, o, n)
  <2>1. /\ m2.threads[n].last \in 1 .. Len(m2.chain)
        /\ m2.threads[n].first \in 1 .. m2.threads[n].last
    BY <1>6 DEF Block, GrowsBlock
  <2>2. a <= e2
    BY <1>1, <1>4, <1>6, SMTT(30)
  <2>3. QED
    BY <1>5, <1>8, <2>1, <2>2 DEF Block
<1>10. ASSUME NEW t \in 0 .. n - 1
       PROVE  Complete(s, m2, o, t) /\ End(m2, o, t) <= Begin(m2, o, n)
  <2>1. Complete(s, m, o, t) /\ End(m, o, t) <= a
    BY <1>1 DEF InProgress, a
  <2>2. t \in Nat /\ t # n /\ t \in Thread /\ (t > 0 => t - 1 \in Thread /\ t - 1 # n)
    BY <1>1, ThreadIs
  <2>3. SameBlock(m.threads[t], m2.threads[t])
    BY <2>2 DEF GrowsBlock
  <2>4. t > 0 => SameBlock(m.threads[t - 1], m2.threads[t - 1])
    BY <2>2 DEF GrowsBlock
  <2>5. m2.chain = m.chain /\ Len(m.chain) \in Nat /\ Len(m.chain) <= Len(m.chain)
    BY MtFields DEF GrowsBlock, ParseContext
  <2>6. m.threads[t].endPos <= Len(m2.chain[m.threads[t].last])
    BY <2>1, <2>5 DEF Complete
  <2>7. Complete(s, m2, o, t)
    BY <2>1, <2>2, <2>3, <2>4, <2>5, <2>6, KeepsComplete
  <2>8. End(m2, o, t) = End(m, o, t)
    BY <2>3 DEF End, SameBlock
  <2>9. QED
    BY <1>5, <2>1, <2>7, <2>8
<1>11. InProgress(s, m2, o, n)
  <2>1. m2.threads[n].last = Len(m2.chain)
    BY <1>1 DEF GrowsBlock, l
  <2>2. IF m2.threads[n].unpackSize = 0 THEN e2 = a ELSE e2 > a + 1
    <3>1. m.threads[n].unpackSize \in Nat
      BY <1>1, ThreadFields
    <3>2. m2.threads[n].unpackSize # 0
      BY <1>4, <3>1
    <3>3. e2 > a + 1
      BY <1>1, <1>4, <1>6, SMTT(30)
    <3>4. QED
      BY <3>2, <3>3
  <2>3. n > 0 => a = End(m2, o, n - 1)
    <3>1. n > 0 => a = End(m, o, n - 1)
      BY <1>1 DEF InProgress, a
    <3>2. n > 0 => n - 1 \in Thread /\ n - 1 # n
      BY <1>1, ThreadIs
    <3>3. n > 0 => SameBlock(m.threads[n - 1], m2.threads[n - 1])
      BY <3>2 DEF GrowsBlock
    <3>4. QED
      BY <3>1, <3>3 DEF SameBlock, End
  <2>4. EndAfter(s, e2) /\ BeginsChunk(s, e2 + 1) /\ LeadsOff(s, a)
    BY <1>4, <1>6
  <2>5. QED
    BY <1>1, <1>5, <1>9, <1>10, <2>1, <2>2, <2>3, <2>4 DEF InProgress
<1>12. Parsing(s, m2, o, q, "continue", in.pos)
  <2>1. m2.numThreads = n /\ LastNode(m2) = LastNode(m)
    BY <1>1 DEF GrowsBlock, LastNode, InBlock
  <2>2. QED
    BY <1>11, <2>1 DEF Parsing
<1>13. Accounted(m2, f, in, o)
  <2>1. Accounted(m, f, in, o)
    BY DEF Core
  <2>2. m2.chain = m.chain /\ m2.failState = m.failState
    BY DEF GrowsBlock
  <2>3. QED
    BY <2>1, <2>2, SameNodes DEF Accounted
<1>14. SeveralThreads(s, m2, f, in, q, "continue", o)
  BY <1>1, <1>12 DEF SeveralThreads, ParseContext
<1>15. ~m2.failState
  BY DEF GrowsBlock, ParseContext
<1>16. QED
  BY <1>13, <1>14, <1>15 DEF Core

(* An incomplete header: more input is read for it.                        *)
LEMMA CoreMoreData ==
  ASSUME NEW s, NEW m, NEW f, NEW in, NEW o, ParseContext(s, m, f, in, o), NEW r,
         Core(s, m, f, in, "parse", r, o), NEW n, n = m.numThreads,
         s[End(m, o, n) + 1].kind # "end",
         Len(LastNode(m)) - m.threads[n].endPos < HeaderSize
  PROVE  Core(s, m, f, in, "read", "moreData", o)
<1> DEFINE e == End(m, o, n)
<1>1. /\ Parsing(s, m, o, "parse", r, in.pos) /\ InProgress(s, m, o, n)
      /\ EndAfter(s, in.base - 1) /\ e \in Nat /\ in.pos \in Nat
  BY ParseContextIs
<1>2. Len(LastNode(m)) - m.threads[n].endPos = in.pos - e /\ e < in.pos
  BY ChunkHere
<1>3. in.pos < e + HeaderSize
  <2>1. in.pos - e < HeaderSize
    BY <1>2
  <2>2. QED
    BY <1>1, <2>1, StepPositive
<1>4. ~KindAt(s, e + 1, "end")
  BY DEF KindAt
<1>5. Parsing(s, m, o, "read", "moreData", in.pos)
  BY <1>1, <1>2, <1>3, <1>4 DEF Parsing
<1>6. Accounted(m, f, in, o) /\ ~m.failState
  BY DEF Core, ParseContext
<1>7. SeveralThreads(s, m, f, in, "read", "moreData", o)
  BY <1>1, <1>5 DEF SeveralThreads, ParseContext
<1>8. QED
  BY <1>6, <1>7 DEF Core

(* What is cut off the last node is what is given back.                    *)
SameButChain(m, r) ==
  /\ r.threads = m.threads /\ r.numThreads = m.numThreads /\ r.failState = m.failState
  /\ r.isFinal = m.isFinal /\ r.cur = m.cur /\ r.curPos = m.curPos
  /\ r.srcThread = m.srcThread /\ r.srcPos = m.srcPos

LEMMA ChainOnly ==
  ASSUME NEW s, NEW m, Mt(s, m), NEW c, NEW r, r = [m EXCEPT !.chain = c],
         c \in Seq(Seq(1 .. Len(s))), Len(c) > 0, \A i \in 1 .. Len(c) : Len(c[i]) <= NodeSize
  PROVE  Mt(s, r) /\ r.chain = c /\ SameButChain(m, r)
<1>1. r.chain = c /\ SameButChain(m, r) /\ WithFields(r)
  BY DEF Mt, SameButChain, WithFields
<1>2. /\ r.threads \in [Thread -> ThreadState] /\ r.numThreads \in 0 .. Threads
      /\ r.srcThread \in Nat /\ r.srcPos \in Nat /\ r.isFinal \in BOOLEAN
      /\ r.failState \in BOOLEAN /\ r.cur \in Nat /\ r.curPos \in Nat
  BY <1>1, MtFields DEF SameButChain
<1>3. /\ r.chain \in Seq(Seq(1 .. Len(s))) /\ Len(r.chain) > 0
      /\ \A i \in 1 .. Len(r.chain) : Len(r.chain[i]) <= NodeSize
  BY <1>1
<1>4. Mt(s, r)
  BY <1>1, <1>2, <1>3, MtOf, Zenon
<1>5. QED
  BY <1>1, <1>4

LastIs(s, m, r, l, x) ==
  /\ Mt(s, r) /\ SameButChain(m, r)
  /\ Len(r.chain) = l /\ r.chain[l] = x /\ \A i \in 1 .. l : i # l => r.chain[i] = m.chain[i]

LEMMA LastReplaced ==
  ASSUME NEW s, NEW m, Mt(s, m), NEW l, l = Len(m.chain), NEW x \in Seq(1 .. Len(s)), Len(x) <= NodeSize,
         NEW r, r = [m EXCEPT !.chain[l] = x]
  PROVE  LastIs(s, m, r, l, x)
<1> DEFINE c == [m.chain EXCEPT ![l] = x]
<1>1. /\ m.chain \in Seq(Seq(1 .. Len(s))) /\ l \in Nat /\ l > 0
      /\ \A i \in 1 .. l : Len(m.chain[i]) <= NodeSize
  BY MtFields
<1>2. l \in 1 .. Len(m.chain)
  BY <1>1
<1>3. /\ c \in Seq(Seq(1 .. Len(s))) /\ Len(c) = l /\ c[l] = x
      /\ \A i \in 1 .. l : i # l => c[i] = m.chain[i]
  BY <1>1, <1>2, ExceptSeq
<1> HIDE DEF c
<1>4. Len(c) > 0 /\ \A i \in 1 .. Len(c) : Len(c[i]) <= NodeSize
  BY <1>1, <1>3
<1>5. r = [m EXCEPT !.chain = c]
  BY DEF c
<1>6. Mt(s, r) /\ r.chain = c /\ SameButChain(m, r)
  BY <1>3, <1>4, <1>5, ChainOnly
<1>7. QED
  BY <1>3, <1>6 DEF LastIs

(* Node l ends at b or later, and the input is where the chain ends.       *)
GivenBack(s, m, r, in, in2, o, l, b) ==
  /\ Mt(s, r) /\ Buffer(s, in2) /\ SameButChain(m, r)
  /\ Len(r.chain) = l /\ \A i \in 1 .. l : i # l => r.chain[i] = m.chain[i]
  /\ b <= Len(r.chain[l]) /\ Len(r.chain[l]) \in Nat
  /\ Nodes(r, o) /\ Tip(r, o) = in2.pos
  /\ in2.base = in.base /\ (in2.pos = in.base \/ in2.pos = At(o, l) + b)

LEMMA RewindIs ==
  ASSUME NEW s \in Streams, NEW m, Mt(s, m), NEW in, Buffer(s, in), NEW o \in Nat, Nodes(m, o),
         Tip(m, o) = in.pos, NEW b \in Nat, NEW l, l = Len(m.chain), b <= Len(m.chain[l]),
         NEW back, back = Min({in.pos - in.base, Len(m.chain[l]) - b}),
         NEW r, r = [m EXCEPT !.chain[l] = SubSeq(@, 1, Len(m.chain[l]) - back)],
         NEW in2, in2 = [in EXCEPT !.pos = @ - back]
  PROVE  GivenBack(s, m, r, in, in2, o, l, b)
<1> DEFINE c == m.chain[l]
           k == Len(c) - back
           x == SubSeq(c, 1, k)
<1>1. /\ l \in Nat /\ l >= 1 /\ l \in 1 .. l /\ c \in Seq(1 .. Len(s)) /\ Len(c) \in Nat
      /\ Len(c) <= NodeSize /\ At(o, l) \in Nat
  <2>1. l \in Nat /\ l > 0
    BY MtFields
  <2>2. l \in 1 .. l /\ l >= 1
    BY <2>1
  <2>3. QED
    BY <2>1, <2>2, MtFields, AtNat
<1>2. /\ in.base \in Nat /\ in.pos \in Nat /\ in.size \in Nat /\ in.base <= in.pos
      /\ in.pos <= in.size /\ in.size <= Len(s)
  BY DEF Buffer
<1> HIDE DEF c
<1>3. back = IF in.pos - in.base <= Len(c) - b THEN in.pos - in.base ELSE Len(c) - b
  <2> DEFINE u == in.pos - in.base
             v == Len(c) - b
  <2>1. u \in Int /\ v \in Int /\ back = Min({u, v})
    BY <1>1, <1>2, SMTT(30) DEF c
  <2> HIDE DEF u, v
  <2>2. back = IF u <= v THEN u ELSE v
    BY <2>1, SmallerOfTwo
  <2>3. QED
    BY <2>2 DEF u, v
<1>4. back \in Nat /\ b <= k /\ k \in Nat /\ k <= Len(c) /\ in.base <= in.pos - back
  <2>1. b <= Len(c)
    BY DEF c
  <2> DEFINE u == in.pos - in.base
             v == Len(c) - b
  <2>2. u \in Nat /\ v \in Nat /\ back = (IF u <= v THEN u ELSE v)
    BY <1>1, <1>2, <1>3, <2>1, SMTT(30)
  <2>3. back \in Nat /\ back <= v /\ back <= u
    <3> HIDE DEF u, v
    <3>1. QED
      BY <2>2
  <2>4. Len(c) \in Nat /\ in.pos \in Nat /\ in.base \in Nat
    BY <1>1, <1>2
  <2>5. back \in Nat /\ back <= Len(c) - b /\ back <= in.pos - in.base
    BY <2>3
  <2> DEFINE n == Len(c)
  <2> HIDE DEF n
  <2>6. n \in Nat /\ back <= n - b /\ k = n - back
    BY <2>4, <2>5 DEF n
  <2>7. b <= k /\ k \in Nat /\ k <= n /\ in.base <= in.pos - back
    <3>1. \A y, z, w \in Nat : \A h \in Nat :
            h <= y - z /\ w = y - h => z <= w /\ w <= y
      OBVIOUS
    <3>2. \A y, z, w \in Nat : w <= y - z => z <= y - w
      OBVIOUS
    <3>3. k \in Nat
      <4>1. \A y, z, h \in Nat : h <= y - z => y - h \in Nat
        OBVIOUS
      <4>2. QED
        BY <2>4, <2>5, <4>1
    <3> HIDE DEF k
    <3>4. b <= k /\ k <= n
      BY <2>5, <2>6, <3>1, <3>3
    <3>5. in.base <= in.pos - back
      BY <2>4, <2>5, <3>2
    <3>6. QED
      BY <3>3, <3>4, <3>5
  <2>8. QED
    BY <2>5, <2>7 DEF n
<1>5. in.pos = At(o, l) + Len(c)
  BY DEF Tip, c
<1>6. in.pos - back = in.base \/ in.pos - back = At(o, l) + b
  BY <1>1, <1>2, <1>3, <1>5
<1>7. x \in Seq(1 .. Len(s)) /\ Len(x) = k /\ x = Run(At(o, l), k)
  <2>1. c = Run(At(o, l), Len(c))
    BY <1>1 DEF Nodes, c
  <2>2. x = Run(At(o, l), k)
    <3>1. At(o, l) \in Int
      BY <1>1
    <3>2. SubSeq(Run(At(o, l), Len(c)), 1, k) = Run(At(o, l), k)
      BY <1>1, <1>4, <3>1, RunFirst, ZenonT(40)
    <3>3. QED
      BY <2>1, <3>2
  <2>3. x \in Seq(1 .. Len(s)) /\ Len(x) = k
    BY <1>1, <1>4, CutAnywhere, ZenonT(40)
  <2>4. QED
    BY <2>2, <2>3
<1> HIDE DEF x, k
<1>8. r = [m EXCEPT !.chain[l] = x]
  BY DEF x, k, c
<1>9. Len(x) <= NodeSize
  BY <1>1, <1>4, <1>7, StepPositive
<1>10. /\ Mt(s, r) /\ SameButChain(m, r)
       /\ Len(r.chain) = l /\ r.chain[l] = x /\ \A i \in 1 .. l : i # l => r.chain[i] = m.chain[i]
  <2>1. LastIs(s, m, r, l, x)
    BY <1>7, <1>8, <1>9, LastReplaced, Zenon
  <2>2. QED
    BY <2>1 DEF LastIs
<1>11. Nodes(r, o)
  <2> SUFFICES ASSUME NEW i \in 1 .. l
               PROVE  /\ r.chain[i] = Run(At(o, i), Len(r.chain[i]))
                      /\ i < l => Len(r.chain[i]) = NodeSize
    BY <1>10 DEF Nodes
  <2>1. CASE i = l
    <3>1. r.chain[i] = x /\ x = Run(At(o, i), k) /\ Len(x) = k /\ ~(i < l)
      BY <1>1, <1>7, <1>10, <2>1
    <3>2. QED
      BY <3>1
  <2>2. CASE i # l
    BY <1>10, <2>2 DEF Nodes
  <2>3. QED
    BY <2>1, <2>2
<1>12. in2.base = in.base /\ in2.pos = in.pos - back /\ Buffer(s, in2)
  <2>1. in.pos - back \in Nat /\ in.pos - back <= in.pos
    BY <1>2, <1>4, SMTT(30)
  <2>2. /\ in2.base = in.base /\ in2.pos = in.pos - back /\ in2.size = in.size
        /\ in2 \in [base : Nat, pos : Nat, size : Nat]
    BY <2>1 DEF Buffer
  <2>3. in2.pos <= in2.size
    BY <1>2, <2>1, <2>2
  <2>4. QED
    BY <1>2, <1>4, <2>2, <2>3 DEF Buffer
<1>13. Tip(r, o) = in2.pos
  <2>1. Tip(r, o) = At(o, l) + k
    BY <1>7, <1>10 DEF Tip
  <2>2. k = Len(c) - back
    BY DEF k
  <2> DEFINE p == At(o, l)
             n == Len(c)
  <2>3. p \in Nat /\ n \in Nat /\ back \in Nat /\ k = n - back /\ in2.pos = (p + n) - back
    BY <1>1, <1>4, <1>5, <1>12, <2>2
  <2>4. Tip(r, o) = p + k
    BY <2>1
  <2> HIDE DEF p, n
  <2>5. QED
    BY <2>3, <2>4
<1>14. b <= Len(r.chain[l]) /\ Len(r.chain[l]) \in Nat
  BY <1>4, <1>7, <1>10
<1>15. QED
  BY <1>6, <1>10, <1>11, <1>12, <1>13, <1>14 DEF GivenBack

(* The block that is parsed is complete, at a reset or at the end mark.    *)
FinishesBlock(m, r, n, fin) ==
  /\ r.chain = m.chain /\ r.failState = m.failState
  /\ \A t \in 0 .. n - 1 : SameBlock(m.threads[t], r.threads[t])
  /\ r.threads[n].first = m.threads[n].first /\ r.threads[n].last = m.threads[n].last
  /\ r.threads[n].startPos = m.threads[n].startPos
  /\ r.threads[n].endPos = m.threads[n].endPos + (IF fin THEN 1 ELSE 0)

Finished(s, m, r, o, n, fin) ==
  /\ \A t \in 0 .. n : Complete(s, r, o, t) /\ End(r, o, t) <= End(r, o, n)
  /\ r.threads[n].last = Len(m.chain) /\ r.threads[n].endPos \in Nat
  /\ r.threads[n].endPos <= Len(m.chain[Len(m.chain)])
  /\ Len(m.chain) = 1 => r.threads[n].endPos > 0
  /\ End(r, o, n) = At(o, Len(m.chain)) + r.threads[n].endPos /\ End(r, o, n) \in Nat
  /\ EndAfter(s, End(r, o, n) - 1)
  /\ ~fin => GoesOn(s, End(r, o, n)) /\ IsReset(s, End(r, o, n) + 1)
  /\ r.threads[0].first \in 1 .. Len(m.chain)

LEMMA BlockEnds ==
  ASSUME NEW s, NEW m, NEW f, NEW in, NEW o, ParseContext(s, m, f, in, o), NEW r,
         Core(s, m, f, in, "parse", r, o), NEW n, n = m.numThreads,
         NEW fin \in BOOLEAN,
         IF fin THEN s[End(m, o, n) + 1].kind = "end"
         ELSE IsReset(s, End(m, o, n) + 1) /\ m.threads[n].unpackSize # 0,
         NEW m2, FinishesBlock(m, m2, n, fin)
  PROVE  Finished(s, m, m2, o, n, fin)
<1> DEFINE e == End(m, o, n)
           a == Begin(m, o, n)
           d == IF fin THEN 1 ELSE 0
           z == m.threads[n].endPos
           l == Len(m.chain)
<1>1. /\ Parsing(s, m, o, "parse", r, in.pos) /\ InProgress(s, m, o, n)
      /\ n \in Nat /\ n \in Thread /\ n < Threads
      /\ m.threads[n].last = l /\ z \in Nat
      /\ e = At(o, l) + z /\ a \in Nat /\ e \in Nat
      /\ At(o, l) \in Nat /\ m.threads[n] \in ThreadState /\ o \in Nat
      /\ LastNode(m) = m.chain[l] /\ Len(LastNode(m)) \in Nat
  BY ParseContextIs
<1>2. e + 1 \in 1 .. Len(s) /\ s \in Streams /\ Mt(s, m)
  BY ChunkHere DEF ParseContext
<1>3. z < Len(m.chain[l])
  BY <1>1 DEF Parsing
<1>4. /\ Block(s, m, o, n) /\ a <= e /\ EndAfter(s, e)
      /\ IF m.threads[n].unpackSize = 0 THEN e = a ELSE e > a + 1
      /\ Independent(s, a, e) /\ BeginsChunk(s, e + 1)
  BY <1>1 DEF InProgress, Block
<1>5. d \in {0, 1} /\ (fin => d = 1) /\ (~fin => d = 0)
  OBVIOUS
<1>6. m2.threads[n].endPos = z + d
  BY DEF FinishesBlock
<1> HIDE DEF e, a, d, z, l
<1>7. Begin(m2, o, n) = a /\ End(m2, o, n) = At(o, l) + (z + d)
  BY <1>1, <1>6 DEF Begin, End, FinishesBlock, a
<1>8. End(m2, o, n) = e + d /\ e + d \in Nat
  BY <1>1, <1>5, <1>7
<1>9. fin => ~IsReset(s, e + 1)
  BY DEF IsReset, KindAt, e
<1>10. a < e + d
  <2>1. CASE fin
    BY <1>1, <1>4, <1>5, <2>1
  <2>2. CASE ~fin
    <3>1. e > a + 1
      BY <1>4, <2>2
    <3>2. QED
      BY <1>1, <1>5, <2>2, <3>1
  <2>3. QED
    BY <2>1, <2>2
<1>11. Independent(s, a, e + d)
  <2>1. CASE ~fin
    BY <1>1, <1>4, <1>5, <2>1
  <2>2. CASE fin
    <3>1. ASSUME a # 0, e + 1 > a + 1 PROVE IsReset(s, a + 1)
      <4>1. e # a
        BY <1>1, <3>1
      <4>2. e > a + 1
        BY <1>4, <4>1
      <4>3. QED
        BY <1>4, <3>1, <4>2 DEF Independent
    <3>2. ASSUME NEW q \in a + 2 .. e + 1 PROVE ~IsReset(s, q)
      <4>1. q \in a + 2 .. e \/ q = e + 1
        BY <1>1
      <4>2. QED
        BY <1>4, <1>9, <2>2, <4>1 DEF Independent
    <3>3. QED
      BY <1>5, <2>2, <3>1, <3>2 DEF Independent
  <2>3. QED
    BY <2>1, <2>2
<1>12. l \in Nat /\ l > 0 /\ m2.chain = m.chain /\ Len(m2.chain) = l
  BY <1>2, MtFields DEF FinishesBlock, l
<1>13. z + d \in Nat /\ z + d <= Len(m.chain[l])
  BY <1>1, <1>3, <1>5
<1>14. Block(s, m2, o, n)
  <2>1. m2.threads[n].last \in 1 .. Len(m2.chain) /\ m2.threads[n].first \in 1 .. m2.threads[n].last
    BY <1>4, <1>12 DEF Block, FinishesBlock, l
  <2>2. a <= e + d
    BY <1>1, <1>8, <1>10
  <2>3. QED
    BY <1>7, <1>8, <1>11, <2>1, <2>2 DEF Block
<1>15. \A t \in 0 .. n - 1 : t \in Nat /\ t \in Thread /\ (t > 0 => t - 1 \in 0 .. n - 1)
  BY <1>1, ThreadIs
<1>16. Complete(s, m2, o, n)
  <2>1. n > 0 => a = End(m2, o, n - 1)
    <3>1. n > 0 => a = End(m, o, n - 1)
      BY <1>1 DEF InProgress, a
    <3>2. n > 0 => SameBlock(m.threads[n - 1], m2.threads[n - 1])
      <4>1. n > 0 => n - 1 \in 0 .. n - 1
        BY <1>1
      <4>2. QED
        BY <4>1 DEF FinishesBlock
    <3>3. QED
      BY <3>1, <3>2 DEF End, SameBlock
  <2>2. m2.threads[n].endPos <= Len(m2.chain[m2.threads[n].last])
    BY <1>1, <1>6, <1>12, <1>13 DEF FinishesBlock
  <2>3. QED
    BY <1>7, <1>8, <1>10, <1>14, <2>1, <2>2 DEF Complete
<1>17. ASSUME NEW t \in 0 .. n - 1 PROVE Complete(s, m2, o, t) /\ End(m2, o, t) <= e + d
  <2>1. Complete(s, m, o, t) /\ End(m, o, t) <= a
    BY <1>1 DEF InProgress, a
  <2>2. SameBlock(m.threads[t], m2.threads[t])
    BY DEF FinishesBlock
  <2>3. t > 0 => SameBlock(m.threads[t - 1], m2.threads[t - 1])
    BY <1>15 DEF FinishesBlock
  <2>4. m.threads[t].endPos <= Len(m2.chain[m.threads[t].last])
    BY <1>12, <2>1 DEF Complete
  <2>5. Len(m.chain) \in Nat /\ Len(m2.chain) \in Nat /\ Len(m.chain) <= Len(m2.chain)
    BY <1>12
  <2>6. Complete(s, m2, o, t)
    BY <1>15, <2>1, <2>2, <2>3, <2>4, <2>5, KeepsComplete
  <2>7. End(m2, o, t) = End(m, o, t)
    BY <2>2 DEF End, SameBlock
  <2>8. End(m, o, t) \in Nat
    BY <1>1, <1>2, <1>15, <2>1, BlockPlace DEF Complete
  <2>9. QED
    BY <1>1, <1>8, <1>10, <2>1, <2>6, <2>7, <2>8
<1>18. l = 1 => z + d > 0
  <2> SUFFICES ASSUME l = 1 PROVE z + d > 0
    OBVIOUS
  <2>1. m.threads[n].first = 1 /\ m.threads[n].startPos \in Nat
    <3>1. /\ m.threads[n].first \in Nat /\ 1 <= m.threads[n].first /\ m.threads[n].first <= m.threads[n].last
          /\ m.threads[n].startPos \in Nat
      BY <1>1, <1>2, <1>4, BlockPlace
    <3>2. QED
      BY <1>1, <3>1
  <2>2. a = At(o, l) + m.threads[n].startPos
    BY <2>1 DEF Begin, a
  <2>3. At(o, l) + m.threads[n].startPos < At(o, l) + z + d
    BY <1>1, <1>5, <1>7, <1>8, <1>10, <2>2
  <2>4. QED
    BY <1>1, <1>5, <2>1, <2>3
<1>19. EndAfter(s, (e + d) - 1)
  BY <1>1, <1>4, <1>5, EndAfterLess
<1>20. ~fin => GoesOn(s, e + d) /\ IsReset(s, (e + d) + 1)
  <2> SUFFICES ASSUME ~fin PROVE GoesOn(s, e + d) /\ IsReset(s, (e + d) + 1)
    OBVIOUS
  <2>1. e + d = e
    BY <1>1, <1>5
  <2>2. IsReset(s, e + 1)
    BY DEF e
  <2>3. QED
    BY <1>4, <2>1, <2>2 DEF GoesOn, LeadsOff
<1>21. m2.threads[0].first \in 1 .. l
  <2>1. Complete(s, m2, o, 0)
    <3>1. n = 0 \/ 0 \in 0 .. n - 1
      BY <1>1
    <3>2. QED
      BY <1>16, <1>17, <3>1
  <2>2. m2.threads[0].last \in 1 .. l /\ m2.threads[0].first \in 1 .. m2.threads[0].last
    BY <1>12, <2>1 DEF Complete, Block
  <2>3. QED
    BY <1>12, <2>2
<1>22. \A t \in 0 .. n : Complete(s, m2, o, t) /\ End(m2, o, t) <= End(m2, o, n)
  <2>1. \A t \in 0 .. n : t = n \/ t \in 0 .. n - 1
    BY <1>1
  <2>2. e + d <= e + d
    BY <1>8
  <2>3. QED
    BY <1>8, <1>16, <1>17, <2>1, <2>2
<1>23. m2.threads[n].last = l
  BY <1>1 DEF FinishesBlock
<1>24. QED
  BY <1>6, <1>7, <1>8, <1>12, <1>13, <1>18, <1>19, <1>20, <1>21, <1>22, <1>23 DEF Finished, l

(* The blocks are in what is left of the last node.                        *)
KeptBlocks(s, r, q, o, n) ==
  \A t \in 0 .. n : /\ Complete(s, q, o, t)
                    /\ Begin(q, o, t) = Begin(r, o, t) /\ End(q, o, t) = End(r, o, t)

LEMMA BlocksKept ==
  ASSUME NEW s, NEW m, Mt(s, m), NEW r, Mt(s, r), NEW o \in Nat, NEW n \in Nat, n < Threads, NEW fin,
         r.chain = m.chain, Finished(s, m, r, o, n, fin),
         NEW q, \A t \in 0 .. n : SameBlock(r.threads[t], q.threads[t]),
         NEW l, l = Len(m.chain), Len(q.chain) = l,
         \A i \in 1 .. l : i # l => q.chain[i] = m.chain[i],
         Len(q.chain[l]) \in Nat, r.threads[n].endPos <= Len(q.chain[l])
  PROVE  KeptBlocks(s, r, q, o, n)
<1> SUFFICES ASSUME NEW t \in 0 .. n
             PROVE  Complete(s, q, o, t) /\ Begin(q, o, t) = Begin(r, o, t) /\ End(q, o, t) = End(r, o, t)
  BY DEF KeptBlocks
<1>1. t \in Nat /\ t \in Thread /\ n \in Thread
  BY ThreadIs
<1>2. Complete(s, r, o, t) /\ End(r, o, t) <= End(r, o, n)
  BY DEF Finished
<1>3. SameBlock(r.threads[t], q.threads[t])
  OBVIOUS
<1>4. t > 0 => SameBlock(r.threads[t - 1], q.threads[t - 1])
  <2>1. t > 0 => t - 1 \in 0 .. n
    OBVIOUS
  <2>2. QED
    BY <2>1
<1>5. l \in Nat /\ Len(r.chain) = l
  BY MtFields
<1>6. r.threads[t].endPos <= Len(q.chain[r.threads[t].last])
  <2>1. Block(s, r, o, t) /\ r.threads[t].endPos <= Len(r.chain[r.threads[t].last])
    BY <1>2 DEF Complete
  <2>2. r.threads[t].last \in Nat /\ r.threads[t].endPos \in Nat /\ r.threads[t].last \in 1 .. l
    BY <1>1, <1>5, <2>1, BlockPlace DEF Block
  <2>3. CASE r.threads[t].last = l
    <3>1. End(r, o, t) = At(o, l) + r.threads[t].endPos
      BY <2>3 DEF End
    <3>2. End(r, o, n) = At(o, l) + r.threads[n].endPos /\ r.threads[n].endPos \in Nat
      BY DEF Finished
    <3>3. At(o, l) \in Nat
      BY TipIs
    <3> DEFINE p == At(o, l)
    <3> HIDE DEF p
    <3>4. r.threads[t].endPos <= r.threads[n].endPos
      BY <1>2, <2>2, <3>1, <3>2, <3>3, SMTT(30) DEF p
    <3> DEFINE x == r.threads[t].endPos
               y == r.threads[n].endPos
               z == Len(q.chain[l])
    <3>5. x \in Nat /\ y \in Nat /\ z \in Nat /\ x <= y /\ y <= z
      BY <2>2, <3>2, <3>4
    <3> HIDE DEF x, y, z
    <3>6. x <= z
      BY <3>5
    <3>7. QED
      BY <2>3, <3>6, Zenon DEF x, z
  <2>4. CASE r.threads[t].last # l
    BY <2>1, <2>2, <2>4
  <2>5. QED
    BY <2>3, <2>4
<1>7. Complete(s, q, o, t)
  <2>1. Len(r.chain) \in Nat /\ Len(q.chain) \in Nat /\ Len(r.chain) <= Len(q.chain)
    BY <1>5
  <2>2. QED
    BY <1>1, <1>2, <1>3, <1>4, <1>6, <2>1, KeepsComplete
<1>8. QED
  BY <1>3, <1>7 DEF Begin, End, SameBlock

(* The next block begins where this one ends.                              *)
LEMMA CoreNextBlock ==
  ASSUME NEW s, NEW m, NEW f, NEW in, NEW o, ParseContext(s, m, f, in, o), NEW r,
         Core(s, m, f, in, "parse", r, o), NEW n, n = m.numThreads,
         NEW fin \in BOOLEAN, ~fin,
         NEW m1, Mt(s, m1), m1.chain = m.chain, Finished(s, m, m1, o, n, fin),
         NEW m2, Mt(s, m2), m2.chain = m.chain, m2.numThreads = n + 1, n + 1 < Threads, ~m2.failState,
         \A t \in 0 .. n : SameBlock(m1.threads[t], m2.threads[t]),
         m2.threads[n + 1].first = Len(m.chain), m2.threads[n + 1].last = Len(m.chain),
         m2.threads[n + 1].startPos = m1.threads[n].endPos,
         m2.threads[n + 1].endPos = m1.threads[n].endPos,
         m2.threads[n + 1].unpackSize = 0
  PROVE  Core(s, m2, f, in, "read", "dictReset", o)
<1> DEFINE l == Len(m.chain)
           e == End(m1, o, n)
           k == n + 1
<1>1. /\ EndAfter(s, in.base - 1) /\ n \in Nat /\ o \in Nat /\ f.stage = "decomp" /\ Mt(s, m)
      /\ s \in Streams
  BY ParseContextIs DEF ParseContext
<1>2. /\ m1.threads[n].last = l /\ m1.threads[n].endPos <= Len(m.chain[l])
      /\ e = At(o, l) + m1.threads[n].endPos /\ e \in Nat /\ GoesOn(s, e)
      /\ \A t \in 0 .. n : End(m1, o, t) <= e
  BY DEF Finished
<1>3. l \in Nat /\ l > 0
  BY <1>1, MtFields
<1>4. \A t \in 0 .. n : Complete(s, m2, o, t) /\ End(m2, o, t) = End(m1, o, t)
  <2>1. n < Threads
    BY <1>1, ThreadIs
  <2>2. /\ Len(m2.chain) = l /\ \A i \in 1 .. l : i # l => m2.chain[i] = m.chain[i]
        /\ m1.threads[n].endPos <= Len(m2.chain[l])
    BY <1>2
  <2>3. Len(m2.chain[l]) \in Nat
    BY <1>1, MtFields
  <2> HIDE DEF l
  <2>4. l = Len(m.chain)
    BY DEF l
  <2>5. KeptBlocks(s, m1, m2, o, n)
    BY <1>1, <2>1, <2>2, <2>3, <2>4, BlocksKept
  <2>6. QED
    BY <2>5 DEF KeptBlocks
<1>5. Begin(m2, o, k) = e /\ End(m2, o, k) = e
  BY <1>2 DEF Begin, End
<1> HIDE DEF e, k, l
<1>6. k \in Nat /\ k > 0 /\ k - 1 = n /\ 0 .. k - 1 = 0 .. n
  BY <1>1 DEF k
<1>7. Block(s, m2, o, k)
  <2>1. m2.threads[k].last \in 1 .. Len(m2.chain) /\ m2.threads[k].first \in 1 .. m2.threads[k].last
    BY <1>3 DEF k, l
  <2>2. Independent(s, e, e)
    <3>1. ~(e > e + 1) /\ \A q \in e + 2 .. e : FALSE
      BY <1>2
    <3>2. QED
      BY <3>1 DEF Independent
  <2>3. e <= e
    BY <1>2
  <2>4. QED
    BY <1>5, <2>1, <2>2, <2>3 DEF Block
<1>8. InProgress(s, m2, o, k)
  <2>1. k < Threads /\ m2.threads[k].last = Len(m2.chain) /\ m2.threads[k].unpackSize = 0
    BY DEF k
  <2>2. LeadsOff(s, e) /\ BeginsChunk(s, e + 1) /\ EndAfter(s, e)
    BY <1>2 DEF GoesOn
  <2>3. \A t \in 0 .. k - 1 : Complete(s, m2, o, t) /\ End(m2, o, t) <= e
    BY <1>2, <1>4, <1>6
  <2>4. End(m2, o, k - 1) = e
    <3>1. n \in 0 .. n
      BY <1>1
    <3>2. QED
      BY <1>4, <1>6, <3>1 DEF e
  <2>5. QED
    BY <1>5, <1>7, <2>1, <2>2, <2>3, <2>4 DEF InProgress
<1>9. Parsing(s, m2, o, "read", "dictReset", in.pos)
  <2>1. m2.numThreads = k
    BY DEF k
  <2>2. QED
    BY <1>8, <2>1 DEF Parsing
<1>10. Accounted(m2, f, in, o)
  <2>1. Accounted(m, f, in, o) /\ ~m.failState /\ ~m2.failState
    BY DEF Core, ParseContext
  <2>2. QED
    BY <2>1, SameNodes DEF Accounted
<1>11. SeveralThreads(s, m2, f, in, "read", "dictReset", o)
  BY <1>1, <1>9 DEF SeveralThreads
<1>12. QED
  BY <1>10, <1>11 DEF Core

(* Input given back, as far as it is not part of the block that ends at b  *)
(* in the last node.                                                       *)
Rewound(s, m, q, in, in2, o, b) ==
  LET l == Len(m.chain) IN
  /\ Mt(s, q) /\ Buffer(s, in2)
  /\ Len(q.chain) = l /\ \A i \in 1 .. l : i # l => q.chain[i] = m.chain[i]
  /\ b <= Len(q.chain[l]) /\ Len(q.chain[l]) \in Nat
  /\ Nodes(q, o) /\ Tip(q, o) = in2.pos
  /\ in2.base = in.base /\ (in2.pos = in.base \/ in2.pos = At(o, l) + b)

LEMMA RewindGives ==
  ASSUME NEW s, NEW m, NEW f, NEW in, NEW o, ParseContext(s, m, f, in, o), NEW p, NEW r,
         p \notin {"blocks", "failed", "error"}, Core(s, m, f, in, p, r, o),
         NEW m1, Mt(s, m1), m1.chain = m.chain, NEW t, m1.threads[t].last = Len(m.chain),
         m1.threads[t].endPos \in Nat, m1.threads[t].endPos <= Len(LastNode(m)),
         NEW q, NEW in2,
         LET b == m1.threads[t]
             len == Len(m1.chain[b.last])
             back == Min({in.pos - in.base, len - b.endPos})
         IN  /\ q = [m1 EXCEPT !.chain[b.last] = SubSeq(@, 1, len - back)]
             /\ in2 = [in EXCEPT !.pos = @ - back]
  PROVE  Rewound(s, m, q, in, in2, o, m1.threads[t].endPos) /\ SameButChain(m1, q)
<1> DEFINE l == Len(m1.chain)
           b == m1.threads[t].endPos
           back == Min({in.pos - in.base, Len(m1.chain[l]) - b})
<1>1. /\ Nodes(m, o) /\ Tip(m, o) = in.pos /\ o \in Nat /\ LastNode(m) = m.chain[Len(m.chain)]
  BY ParseContextIs
<1>2. Nodes(m1, o) /\ Tip(m1, o) = in.pos
  BY <1>1, SameNodes
<1>3. s \in Streams /\ Buffer(s, in)
  BY DEF ParseContext
<1>4. b \in Nat /\ b <= Len(m1.chain[l])
  BY <1>1
<1>5. /\ q = [m1 EXCEPT !.chain[l] = SubSeq(@, 1, Len(m1.chain[l]) - back)]
      /\ in2 = [in EXCEPT !.pos = @ - back]
  OBVIOUS
<1>6. GivenBack(s, m1, q, in, in2, o, l, b)
  <2>1. l = Len(m1.chain) /\ back = Min({in.pos - in.base, Len(m1.chain[l]) - b})
    OBVIOUS
  <2> HIDE DEF b, back, l
  <2>2. QED
    BY <1>1, <1>2, <1>3, <1>4, <1>5, <2>1, RewindIs
<1>7. l = Len(m.chain)
  OBVIOUS
<1>8. QED
  BY <1>6, <1>7 DEF Rewound, GivenBack

LEMMA RewoundEnd ==
  ASSUME NEW s, NEW m, NEW q, NEW in, NEW in2, NEW o, NEW b, Rewound(s, m, q, in, in2, o, b),
         EndAfter(s, in.base - 1), EndAfter(s, (At(o, Len(m.chain)) + b) - 1)
  PROVE  EndAfter(s, in2.pos - 1) /\ EndAfter(s, in2.base - 1)
  BY DEF Rewound

(* What was read but is not in the chain any more is not accounted for.    *)
LEMMA RewoundAccounted ==
  ASSUME NEW s, NEW m, NEW f, NEW in, NEW o, ParseContext(s, m, f, in, o), NEW p, NEW r,
         Core(s, m, f, in, p, r, o), NEW q, NEW in2, NEW b, Rewound(s, m, q, in, in2, o, b)
  PROVE  Accounted(q, f, in2, o)
<1>1. Nodes(q, o) /\ Tip(q, o) = in2.pos /\ in2.pos \in Nat
  BY DEF Rewound, Buffer
<1>2. f.stage = "decomp" /\ f.hash = <<>> /\ f.overlap = <<>>
  BY DEF ParseContext, Core, Accounted
<1>3. QED
  BY <1>1, <1>2, UpToNothing DEF Accounted

LEMMA CoreReady ==
  ASSUME NEW s, NEW m, NEW f, NEW in, NEW o, ParseContext(s, m, f, in, o), NEW r,
         Core(s, m, f, in, "parse", r, o), NEW n, n = m.numThreads, NEW fin \in BOOLEAN,
         NEW m1, Mt(s, m1), m1.chain = m.chain, Finished(s, m, m1, o, n, fin),
         NEW q, NEW in2, Rewound(s, m, q, in, in2, o, m1.threads[n].endPos),
         \A t \in 0 .. n : SameBlock(m1.threads[t], q.threads[t]) /\ Decoding(q, t),
         q.numThreads = n + 1, ~q.failState, q.isFinal = fin, NEW r2
  PROVE  Core(s, q, f, in2, "blocks", r2, o)
<1> DEFINE l == Len(m.chain)
           b == m1.threads[n].endPos
<1>1. /\ EndAfter(s, in.base - 1) /\ n \in Nat /\ n < Threads /\ o \in Nat /\ f.stage = "decomp"
      /\ Mt(s, m)
  BY ParseContextIs DEF ParseContext
<1>2. /\ Len(q.chain) = l /\ \A i \in 1 .. l : i # l => q.chain[i] = m.chain[i]
      /\ b <= Len(q.chain[l]) /\ Len(q.chain[l]) \in Nat
  BY DEF Rewound
<1>3. KeptBlocks(s, m1, q, o, n)
  <2>1. l = Len(m.chain)
    OBVIOUS
  <2> HIDE DEF l
  <2>2. QED
    BY <1>1, <1>2, <2>1, BlocksKept
<1>4. /\ m1.threads[n].last = l
      /\ End(m1, o, n) = At(o, l) + b
      /\ EndAfter(s, End(m1, o, n) - 1)
      /\ ~fin => GoesOn(s, End(m1, o, n))
  BY DEF Finished
<1>5. EndAfter(s, in2.pos - 1) /\ EndAfter(s, in2.base - 1)
  BY <1>1, <1>4, RewoundEnd
<1>6. n \in 0 .. n /\ (n + 1) - 1 = n /\ n + 1 > 0
  BY <1>1
<1>7. Blocks(s, q, o, in2.pos)
  <2>1. q.threads[n].last = Len(q.chain)
    BY <1>2, <1>4, <1>6 DEF SameBlock
  <2>2. ~q.isFinal => GoesOn(s, End(q, o, n))
    BY <1>3, <1>4, <1>6 DEF KeptBlocks
  <2>3. \A t \in 0 .. n : Complete(s, q, o, t) /\ Decoding(q, t)
    BY <1>3 DEF KeptBlocks
  <2>4. QED
    BY <1>5, <1>6, <2>1, <2>2, <2>3 DEF Blocks
<1>8. SeveralThreads(s, q, f, in2, "blocks", r2, o)
  BY <1>1, <1>5, <1>7 DEF SeveralThreads
<1>9. Accounted(q, f, in2, o)
  BY RewoundAccounted
<1>10. QED
  BY <1>8, <1>9 DEF Core

(* Something is in the chain when memory runs out.                         *)
LEMMA CoreFailed ==
  ASSUME NEW s, NEW m, NEW f, NEW in, NEW o, ParseContext(s, m, f, in, o), NEW p, NEW r,
         Core(s, m, f, in, p, r, o),
         NEW q, NEW in2, NEW b \in Nat, Rewound(s, m, q, in, in2, o, b),
         Len(m.chain) = 1 => b > 0,
         EndAfter(s, in.base - 1), EndAfter(s, (At(o, Len(m.chain)) + b) - 1),
         q.threads[0].first \in 1 .. Len(m.chain), ~q.failState, NEW r2
  PROVE  Core(s, q, f, in2, "failed", r2, o)
<1> DEFINE l == Len(m.chain)
<1>1. l \in Nat /\ l > 0 /\ f.stage = "decomp"
  BY MtFields DEF ParseContext
<1>2. EndAfter(s, in2.pos - 1) /\ EndAfter(s, in2.base - 1)
  BY RewoundEnd
<1>3. q.chain[1] # <<>>
  <2>1. CASE l = 1
    <3>1. b <= Len(q.chain[1]) /\ Len(q.chain[1]) \in Nat /\ b > 0
      BY <2>1 DEF Rewound
    <3>2. Len(<<>>) = 0
      OBVIOUS
    <3>3. QED
      BY <3>1, <3>2
  <2>2. CASE l # 1
    <3>1. Len(q.chain) = l /\ Nodes(q, o)
      BY DEF Rewound
    <3>2. Len(q.chain[1]) = NodeSize
      <4> HIDE DEF l
      <4>1. 1 \in 1 .. l /\ 1 < l
        BY <1>1, <2>2
      <4>2. QED
        BY <3>1, <4>1 DEF Nodes
    <3>3. NodeSize > 0 /\ Len(<<>>) = 0 /\ NodeSize \in Nat
      BY StepPositive
    <3>4. QED
      BY <3>2, <3>3
  <2>3. QED
    BY <2>1, <2>2
<1>4. FailPending(s, q, in2.pos)
  <2>1. Len(q.chain) = l
    BY DEF Rewound
  <2>2. QED
    BY <1>2, <1>3, <2>1 DEF FailPending
<1>5. SeveralThreads(s, q, f, in2, "failed", r2, o)
  BY <1>1, <1>2, <1>4 DEF SeveralThreads
<1>6. Accounted(q, f, in2, o)
  BY RewoundAccounted
<1>7. QED
  BY <1>5, <1>6 DEF Core

(* The least of two numbers, and what there is after it.                   *)
LEMMA LeastOf ==
  ASSUME NEW a \in Nat, NEW b \in Nat, NEW k, k = Min({a, b})
  PROVE  k \in Nat /\ k <= a /\ k <= b
  BY SmallerOfTwo

Filled(s, m2, in2, f, p, r, o) ==
  Mt(s, m2) /\ Buffer(s, in2) /\ ~m2.failState /\ Core(s, m2, f, in2, p, r, o)

(* Input is read into the last node.                                       *)
ReadsMost(in, c, k)     == k = Min({in.size - in.pos, NodeSize - Len(c)})
Reads(m, m2, l, in, k)  == m2 = [m EXCEPT !.chain[l] = @ \o Run(in.pos, k)]
Takes(in, in2, k)       == in2 = [in EXCEPT !.pos = @ + k]
AfterReading(p, r, k)   == p = IF r = "moreData" /\ k = 0 THEN "hash" ELSE "load"

LEMMA CoreFill ==
  ASSUME NEW s, NEW m, NEW f, NEW in, NEW o, ParseContext(s, m, f, in, o), NEW r,
         Core(s, m, f, in, "read", r, o), NEW l, l = Len(m.chain),
         NEW k, ReadsMost(in, m.chain[l], k), NEW m2, Reads(m, m2, l, in, k),
         NEW in2, Takes(in, in2, k), NEW p, AfterReading(p, r, k)
  PROVE  Filled(s, m2, in2, f, p, r, o)
<1> DEFINE n == m.numThreads
           e == End(m, o, n)
           c == m.chain[l]
           g == Len(c)
           a == At(o, l)
<1>1. /\ Nodes(m, o) /\ Tip(m, o) = in.pos /\ o \in Nat /\ n \in Nat /\ e \in Nat /\ a \in Nat
      /\ InProgress(s, m, o, n) /\ Parsing(s, m, o, "read", r, in.pos) /\ EndAfter(s, in.base - 1)
      /\ LastNode(m) = c /\ m.threads[n].last = l
  BY ParseContextIs
<1>2. /\ Mt(s, m) /\ l \in Nat /\ l > 0 /\ l \in 1 .. l /\ c \in Seq(1 .. Len(s)) /\ g \in Nat
      /\ g <= NodeSize
  <2>1. Mt(s, m) /\ l \in Nat /\ l > 0
    BY MtFields DEF ParseContext
  <2>2. l \in 1 .. l
    BY <2>1
  <2>3. QED
    BY <2>1, <2>2, MtFields
<1>3. /\ Buffer(s, in) /\ in.base \in Nat /\ in.pos \in Nat /\ in.size \in Nat /\ in.base <= in.pos
      /\ in.pos <= in.size /\ in.size <= Len(s) /\ Len(s) \in Nat
  BY StreamIs DEF ParseContext, Buffer
<1> HIDE DEF c, g, a, e, n
<1>4. k \in Nat /\ k <= in.size - in.pos /\ k <= NodeSize - g
  <2>1. in.size - in.pos \in Nat /\ NodeSize - g \in Nat
    BY <1>2, <1>3, StepPositive
  <2>2. k = Min({in.size - in.pos, NodeSize - g})
    BY DEF g, c, ReadsMost
  <2>3. QED
    BY <2>1, <2>2, LeastOf
<1>5. in.pos + k \in Nat /\ in.pos + k <= in.size /\ in.pos <= in.pos + k /\ g + k <= NodeSize
  BY <1>2, <1>3, <1>4, StepPositive
<1>6. c = Run(a, g) /\ in.pos = a + g
  <2>1. c = Run(a, g)
    BY <1>1, <1>2 DEF Nodes, c, g, a
  <2>2. Tip(m, o) = a + g
    BY DEF Tip, a, g, c
  <2>3. QED
    BY <1>1, <2>1, <2>2
<1> DEFINE x == c \o Run(in.pos, k)
<1>7. x \in Seq(1 .. Len(s)) /\ x = Run(a, g + k) /\ Len(x) = g + k /\ Len(x) <= NodeSize
  <2> DEFINE i == in.pos
  <2>1. x = Run(a, g + k)
    <3>1. a \in Int /\ g \in Nat /\ i \in Int /\ k \in Nat /\ i = a + g
      BY <1>1, <1>2, <1>3, <1>4, <1>6
    <3>2. x = Run(a, g) \o Run(i, k)
      BY <1>6 DEF x
    <3> HIDE DEF i, x
    <3>3. Run(a, g) \o Run(i, k) = Run(a, g + k)
      BY <3>1, RunJoin
    <3>4. QED
      BY <3>2, <3>3
  <2>2. a + (g + k) <= Len(s) /\ g + k \in Nat
    BY <1>1, <1>2, <1>3, <1>4, <1>5, <1>6
  <2>3. Run(a, g + k) \in Seq(1 .. Len(s)) /\ Len(Run(a, g + k)) = g + k
    <3> DEFINE z == g + k
               h == Len(s)
    <3>1. z \in Nat /\ h \in Nat /\ a \in Nat /\ a \in Int /\ a + z <= h
      BY <1>1, <1>3, <2>2
    <3> HIDE DEF z, h
    <3>2. Run(a, z) \in Seq(1 .. h) /\ Len(Run(a, z)) = z
      BY <3>1, RunWithin, RunIs
    <3>3. QED
      BY <3>2 DEF z, h
  <2>4. QED
    BY <1>5, <2>1, <2>3
<1> HIDE DEF x
<1>8. LastIs(s, m, m2, l, x)
  <2>1. m2 = [m EXCEPT !.chain[l] = x]
    BY DEF x, c, Reads
  <2>2. QED
    BY <1>2, <1>7, <2>1, LastReplaced, Zenon
<1>9. /\ Mt(s, m2) /\ SameButChain(m, m2) /\ Len(m2.chain) = l /\ m2.chain[l] = x
      /\ \A i \in 1 .. l : i # l => m2.chain[i] = m.chain[i]
  BY <1>8 DEF LastIs
<1>10. Nodes(m2, o)
  <2> SUFFICES ASSUME NEW i \in 1 .. l
               PROVE  /\ m2.chain[i] = Run(At(o, i), Len(m2.chain[i]))
                      /\ i < l => Len(m2.chain[i]) = NodeSize
    BY <1>9 DEF Nodes
  <2>1. CASE i = l
    <3>1. m2.chain[i] = x /\ ~(i < l)
      BY <1>2, <1>9, <2>1
    <3>2. x = Run(At(o, i), Len(x))
      BY <1>7, <2>1 DEF a
    <3>3. QED
      BY <3>1, <3>2
  <2>2. CASE i # l
    BY <1>1, <1>9, <2>2 DEF Nodes
  <2>3. QED
    BY <2>1, <2>2
<1>11. in2.base = in.base /\ in2.pos = in.pos + k /\ Buffer(s, in2)
  <2>1. /\ in2.base = in.base /\ in2.pos = in.pos + k /\ in2.size = in.size
        /\ in2 \in [base : Nat, pos : Nat, size : Nat]
    BY <1>3, <1>5 DEF Buffer, Takes
  <2>2. QED
    BY <1>3, <1>5, <2>1 DEF Buffer
<1>12. Tip(m2, o) = in2.pos
  <2>1. Tip(m2, o) = a + (g + k)
    BY <1>7, <1>9 DEF Tip, a
  <2>2. QED
    BY <1>1, <1>2, <1>4, <1>6, <1>11, <2>1
<1>13. NoLess(m, m2)
  <2> SUFFICES ASSUME NEW i \in 1 .. l
               PROVE  Len(m.chain[i]) \in Nat /\ Len(m2.chain[i]) \in Nat /\ Len(m.chain[i]) <= Len(m2.chain[i])
    BY <1>2, <1>9 DEF NoLess
  <2>1. Len(m.chain[i]) \in Nat
    BY <1>2, MtFields
  <2>2. CASE i = l
    <3>1. Len(m.chain[i]) = g /\ Len(m2.chain[i]) = g + k
      BY <1>7, <1>9, <2>2 DEF g, c
    <3>2. QED
      BY <1>2, <1>4, <3>1
  <2>3. CASE i # l
    <3>1. m2.chain[i] = m.chain[i]
      BY <1>9, <2>3
    <3>2. QED
      BY <2>1, <3>1
  <2>4. QED
    BY <2>2, <2>3
<1>14. InProgress(s, m2, o, n) /\ m2.numThreads = n /\ End(m2, o, n) = e
  <2>1. SameBlocks(m, m2)
    BY <1>9, SameIsSame DEF SameButChain
  <2>2. InProgress(s, m2, o, n)
    BY <1>1, <1>2, <1>13, <2>1, KeepsInProgress
  <2>3. m2.numThreads = n /\ m2.threads = m.threads
    BY <1>9 DEF SameButChain, n
  <2>4. QED
    BY <2>2, <2>3 DEF End, e
<1>15. r = "moreData" => e < in.pos /\ ~KindAt(s, e + 1, "end") /\ in.pos < e + HeaderSize
  BY <1>1 DEF Parsing, e, n
<1>16. p = "hash" => EndAfter(s, in2.pos - 1)
  <2> SUFFICES ASSUME p = "hash", NEW q \in 1 .. Len(s), s[q].kind = "end"
               PROVE  q > in2.pos - 1
    BY DEF EndAfter
  <2>1. k = 0 /\ e < in.pos /\ ~KindAt(s, e + 1, "end") /\ in.pos < e + HeaderSize
    BY <1>15 DEF AfterReading
  <2>2. BeginsChunk(s, e + 1) /\ EndAfter(s, e)
    BY <1>1 DEF InProgress, e
  <2>3. q > e /\ q # e + 1
    BY <2>1, <2>2 DEF EndAfter, KindAt
  <2>4. e + 1 \in 1 .. Len(s) /\ s[e + 1].kind # "end"
    <3>1. e + 1 \in 1 .. Len(s)
      BY <1>1, <1>3, <2>1
    <3>2. QED
      BY <2>1, <3>1 DEF KindAt
  <2>5. q \notin e + 2 .. e + HeaderSize
    <3> SUFFICES ASSUME q \in (e + 1) + 1 .. (e + 1) + HeaderSize - 1 PROVE FALSE
      BY <1>1, StepPositive
    <3>1. s[q].kind = "header"
      BY <2>2, <2>4 DEF BeginsChunk
    <3>2. QED
      BY <3>1
  <2>6. q > e + HeaderSize
    BY <1>1, <1>3, <2>3, <2>5, StepPositive
  <2>7. in2.pos = in.pos
    BY <1>3, <1>11, <2>1
  <2>8. QED
    BY <1>1, <1>3, <2>1, <2>6, <2>7, StepPositive
<1>17. Parsing(s, m2, o, p, r, in2.pos)
  <2>1. p \in {"load", "hash"}
    BY DEF AfterReading
  <2>2. r = "moreData" => e < in2.pos /\ ~KindAt(s, e + 1, "end")
    <3>1. in.pos <= in2.pos /\ in2.pos \in Nat
      BY <1>5, <1>11
    <3>2. QED
      BY <1>1, <1>3, <1>15, <3>1
  <2>3. QED
    BY <1>14, <1>16, <2>1, <2>2 DEF Parsing
<1>18. Accounted(m, f, in, o) /\ f.stage = "decomp" /\ ~m.failState /\ ~m2.failState
  BY <1>9 DEF Core, ParseContext, SameButChain
<1>19. f.hash = <<>> /\ f.overlap = <<>>
  BY <1>18 DEF Accounted
<1>20. Accounted(m2, f, in2, o)
  <2>1. in2.pos \in Nat
    BY <1>5, <1>11
  <2>2. QED
    BY <1>10, <1>12, <1>19, <2>1, UpToNothing DEF Accounted
<1>21. SeveralThreads(s, m2, f, in2, p, r, o)
  <2>1. p \in {"load", "hash"} /\ EndAfter(s, in2.base - 1)
    BY <1>1, <1>11 DEF AfterReading
  <2>2. QED
    BY <1>17, <1>18, <2>1 DEF SeveralThreads
<1>22. Core(s, m2, f, in2, p, r, o)
  BY <1>18, <1>20, <1>21 DEF Core
<1>23. QED
  BY <1>9, <1>11, <1>18, <1>22 DEF Filled

(* One more node, which begins with the last Required bytes of the last one. *)
HasNode(s, m, m2, n, l) ==
  /\ Mt(s, m2) /\ m2.numThreads = n /\ m2.failState = m.failState /\ m2.isFinal = m.isFinal
  /\ m2.chain = Append(m.chain, SubSeq(m.chain[l], Step + 1, Step + Required))
  /\ \A t \in Thread : t # n => SameBlock(m.threads[t], m2.threads[t])
  /\ m2.threads[n].first = m.threads[n].first /\ m2.threads[n].startPos = m.threads[n].startPos
  /\ m2.threads[n].unpackSize = m.threads[n].unpackSize
  /\ m2.threads[n].last = l + 1 /\ m2.threads[n].endPos = m.threads[n].endPos - Step

LEMMA WithNodeIs ==
  ASSUME NEW s, NEW m, Mt(s, m), NEW n, n = m.numThreads, n \in Thread, NEW l, l = Len(m.chain),
         m.threads[n].last = l, Len(m.chain[l]) = NodeSize,
         m.threads[n].endPos + Required >= NodeSize, NEW m2, m2 = WithNode(m)
  PROVE  HasNode(s, m, m2, n, l)
<1> DEFINE c == m.chain[l]
           y == SubSeq(c, Step + 1, Step + Required)
           th == m.threads[n]
           th2 == [th EXCEPT !.last = l + 1, !.endPos = @ - Step]
           ts == [m.threads EXCEPT ![n] = th2]
<1>1. /\ l \in Nat /\ l > 0 /\ l \in 1 .. l /\ m.chain \in Seq(Seq(1 .. Len(s)))
      /\ c \in Seq(1 .. Len(s)) /\ Len(c) = NodeSize /\ m.threads \in [Thread -> ThreadState]
      /\ th \in ThreadState
  <2>1. l \in Nat /\ l > 0
    BY MtFields
  <2>2. l \in 1 .. l
    BY <2>1
  <2>3. QED
    BY <2>1, <2>2, MtFields
<1>2. Step + Required = NodeSize /\ Step \in Nat /\ Required \in Nat /\ NodeSize \in Nat
      /\ Required <= NodeSize
  BY StepPositive
<1>3. y \in Seq(1 .. Len(s)) /\ Len(y) = Required
  <2> HIDE DEF c
  <2> DEFINE x == Step
  <2>1. x \in Nat /\ x + Required = NodeSize /\ Len(c) = NodeSize
    BY <1>1, <1>2
  <2> HIDE DEF x
  <2>2. SubSeq(c, x + 1, x + Required) \in Seq(1 .. Len(s))
          /\ Len(SubSeq(c, x + 1, x + Required)) = Required
    BY <1>1, <1>2, <2>1, CutAnywhere, SMTT(30)
  <2>3. QED
    BY <2>2 DEF x
<1>4. /\ th2 \in ThreadState /\ th2.first = th.first /\ th2.startPos = th.startPos
      /\ th2.unpackSize = th.unpackSize /\ th2.last = l + 1 /\ th2.endPos = th.endPos - Step
  <2>1. th.endPos - Step \in Nat /\ l + 1 \in Nat
    <3> DEFINE v == th.endPos
    <3>1. v \in Nat /\ v + Required >= NodeSize
      BY <1>1, ThreadFields
    <3> HIDE DEF v
    <3>2. v - Step \in Nat /\ l + 1 \in Nat
      BY <1>1, <1>2, <3>1
    <3>3. QED
      BY <3>2 DEF v
  <2>2. th \in ThreadState
    BY <1>1
  <2> HIDE DEF th
  <2>3. QED
    BY <2>1, <2>2 DEF ThreadState
<1> HIDE DEF th2, y
<1>5. m2 = [m EXCEPT !.memTotal = Plus(@, NodeSize), !.chain = Append(@, y),
                     !.threads[n].last = l + 1, !.threads[n].endPos = @ - Step]
  <2>1. LastNode(m) = c /\ NodeSize - Required = Step
    BY <1>2 DEF LastNode, InBlock
  <2>2. /\ Step = NodeSize - Required /\ NodeSize = Step + Required
    BY <1>2
  <2>3. y = SubSeq(LastNode(m), NodeSize - Required + 1, NodeSize)
    BY <2>1, <2>2 DEF y
  <2>4. QED
    BY <2>1, <2>3, Zenon DEF WithNode
<1>6. m2.chain = Append(m.chain, y) /\ m2.numThreads = m.numThreads
      /\ m2.isFinal = m.isFinal /\ m2.failState = m.failState /\ m2.cur = m.cur
      /\ m2.curPos = m.curPos /\ m2.srcThread = m.srcThread /\ m2.srcPos = m.srcPos
      /\ WithFields(m2)
  BY <1>5, ZenonT(40) DEF Mt, WithFields
<1>7. m2.threads = ts
  <2> DEFINE one == [m.threads EXCEPT ![n].last = l + 1]
  <2>1. m2.threads = [one EXCEPT ![n].endPos = @ - Step]
    BY <1>5 DEF Mt
  <2>2. /\ one[n] = [th EXCEPT !.last = l + 1] /\ DOMAIN one = Thread
        /\ \A t \in Thread : t # n => one[t] = m.threads[t]
    BY <1>1
  <2>3. [one[n] EXCEPT !.endPos = @ - Step] = th2
    BY <1>1, <2>2 DEF th2, ThreadState
  <2> HIDE DEF one
  <2>4. m2.threads = [one EXCEPT ![n] = th2]
    BY <2>1, <2>3
  <2>5. \A t \in Thread : m2.threads[t] = ts[t]
    BY <1>1, <2>2, <2>4
  <2>6. DOMAIN m2.threads = Thread /\ DOMAIN ts = Thread
    BY <1>1, <2>2, <2>4
  <2>7. m2.threads = [t \in Thread |-> m2.threads[t]] /\ ts = [t \in Thread |-> ts[t]]
    BY <1>1, <2>2, <2>4
  <2>8. QED
    BY <2>5, <2>7
<1>8. ts \in [Thread -> ThreadState] /\ ts[n] = th2 /\ \A t \in Thread : t # n => ts[t] = m.threads[t]
  BY <1>1, <1>4
<1> HIDE DEF ts, th, c
<1>9. Mt(s, m2)
  <2>1. /\ m2.chain \in Seq(Seq(1 .. Len(s))) /\ Len(m2.chain) = l + 1
        /\ m2.chain[l + 1] = y /\ \A i \in 1 .. l : m2.chain[i] = m.chain[i]
    BY <1>1, <1>3, <1>6
  <2>2. Len(m2.chain) > 0
    BY <1>1, <2>1
  <2>3. ASSUME NEW i \in 1 .. Len(m2.chain) PROVE Len(m2.chain[i]) <= NodeSize
    <3>1. CASE i = l + 1
      BY <1>2, <1>3, <2>1, <3>1
    <3>2. CASE i # l + 1
      <4>1. i \in 1 .. l
        <5> HIDE DEF y
        <5>1. i \in 1 .. l + 1
          BY <2>1, Zenon
        <5>2. QED
          BY <1>1, <3>2, <5>1
      <4>2. QED
        BY <2>1, <4>1, MtFields
    <3>3. QED
      BY <3>1, <3>2
  <2>4. /\ m2.numThreads \in 0 .. Threads /\ m2.srcThread \in Nat /\ m2.srcPos \in Nat
        /\ m2.isFinal \in BOOLEAN /\ m2.failState \in BOOLEAN /\ m2.cur \in Nat /\ m2.curPos \in Nat
    <3>1. /\ m.numThreads \in 0 .. Threads /\ m.srcThread \in Nat /\ m.srcPos \in Nat
          /\ m.isFinal \in BOOLEAN /\ m.failState \in BOOLEAN /\ m.cur \in Nat /\ m.curPos \in Nat
      BY MtFields
    <3>2. QED
      BY <1>6, <3>1, Zenon
  <2>5. m2.threads \in [Thread -> ThreadState]
    BY <1>7, <1>8
  <2>6. QED
    BY <1>6, <2>1, <2>2, <2>3, <2>4, <2>5, MtOf, Zenon
<1>10. \A t \in Thread : t # n => SameBlock(m.threads[t], m2.threads[t])
  BY <1>7, <1>8 DEF SameBlock
<1>11. /\ m2.threads[n].first = m.threads[n].first /\ m2.threads[n].startPos = m.threads[n].startPos
       /\ m2.threads[n].unpackSize = m.threads[n].unpackSize
       /\ m2.threads[n].last = l + 1 /\ m2.threads[n].endPos = m.threads[n].endPos - Step
  <2>1. m2.threads[n] = th2
    BY <1>7, <1>8
  <2>2. QED
    BY <1>4, <2>1 DEF th
<1>12. QED
  BY <1>6, <1>9, <1>10, <1>11 DEF HasNode, y, c

(* The block goes on in the new node, where it was in the last one.        *)
LEMMA CoreWithNode ==
  ASSUME NEW s, NEW m, NEW f, NEW in, NEW o, ParseContext(s, m, f, in, o), NEW r,
         Core(s, m, f, in, "read", r, o), NEW n, n = m.numThreads, NEW l, l = Len(m.chain),
         Len(m.chain[l]) = NodeSize, m.threads[n].endPos + Required >= NodeSize,
         NEW m2, HasNode(s, m, m2, n, l)
  PROVE  /\ ParseContext(s, m2, f, in, o) /\ Core(s, m2, f, in, "read", r, o)
         /\ Len(m2.chain) = l + 1
<1> DEFINE e == End(m, o, n)
           a == Begin(m, o, n)
           p == At(o, l)
           k == Step
           v == m.threads[n].endPos
<1>1. /\ Nodes(m, o) /\ Tip(m, o) = in.pos /\ o \in Nat /\ n \in Nat /\ n \in Thread /\ e \in Nat
      /\ a \in Nat /\ p \in Nat /\ v \in Nat /\ e = p + v
      /\ InProgress(s, m, o, n) /\ Parsing(s, m, o, "read", r, in.pos) /\ EndAfter(s, in.base - 1)
      /\ m.threads[n].last = l
  BY ParseContextIs
<1>2. Mt(s, m) /\ Mt(s, m2) /\ l \in Nat /\ l > 0 /\ f.stage = "decomp" /\ ~m.failState /\ ~m2.failState
  BY MtFields DEF ParseContext, HasNode
<1>3. /\ k \in Nat /\ Required \in Nat /\ NodeSize \in Nat /\ k + Required = NodeSize
      /\ v + Required >= NodeSize
  BY StepPositive
<1>4. At(o, l + 1) = p + k
  <2>1. o \in Int /\ l \in Int
    BY <1>1, <1>2
  <2>2. At(o, l + 1) = At(o, l) + Step
    BY <2>1, AtNext
  <2>3. QED
    BY <2>2
<1> DEFINE c == m.chain[l]
           y == SubSeq(c, k + 1, k + Required)
<1>5. c = Run(p, NodeSize)
  <2>1. l \in 1 .. l
    BY <1>2
  <2>2. QED
    BY <1>1, <2>1 DEF Nodes
<1>6. y = Run(At(o, l + 1), Required) /\ Len(y) = Required
  <2>1. p \in Int /\ NodeSize \in Nat /\ k \in Nat /\ Required \in Nat /\ k + Required <= NodeSize
    BY <1>1, <1>3
  <2> HIDE DEF k, p, c
  <2>2. SubSeq(Run(p, NodeSize), k + 1, k + Required) = Run(p + k, Required)
    BY <2>1, RunCut, ZenonT(40)
  <2>3. Len(Run(p + k, Required)) = Required
    <3>1. p + k \in Int
      BY <2>1
    <3>2. QED
      BY <2>1, <3>1, RunIs
  <2>4. QED
    BY <1>4, <1>5, <2>2, <2>3
<1>7. /\ Len(m2.chain) = l + 1 /\ m2.chain[l + 1] = y
      /\ \A i \in 1 .. l : m2.chain[i] = m.chain[i]
  <2>1. m.chain \in Seq(Seq(1 .. Len(s))) /\ m2.chain = Append(m.chain, y)
    BY <1>2, MtFields DEF HasNode
  <2> HIDE DEF y
  <2>2. QED
    BY <2>1
<1> HIDE DEF y, c
<1>8. Nodes(m2, o)
  <2> SUFFICES ASSUME NEW i \in 1 .. l + 1
               PROVE  /\ m2.chain[i] = Run(At(o, i), Len(m2.chain[i]))
                      /\ i < l + 1 => Len(m2.chain[i]) = NodeSize
    BY <1>7 DEF Nodes
  <2>1. CASE i = l + 1
    <3>1. m2.chain[i] = y /\ ~(i < l + 1)
      BY <1>2, <1>7, <2>1
    <3>2. QED
      BY <1>6, <2>1, <3>1
  <2>2. CASE i # l + 1
    <3>1. i \in 1 .. l
      BY <1>2, <2>2
    <3>2. m2.chain[i] = m.chain[i]
      BY <1>7, <3>1
    <3>3. i < l => Len(m.chain[i]) = NodeSize
      BY <1>1, <3>1 DEF Nodes
    <3>4. i = l => Len(m.chain[i]) = NodeSize
      OBVIOUS
    <3>5. i < l \/ i = l
      BY <1>2, <3>1
    <3>6. m.chain[i] = Run(At(o, i), Len(m.chain[i]))
      BY <1>1, <3>1 DEF Nodes
    <3>7. QED
      BY <3>2, <3>3, <3>4, <3>5, <3>6
  <2>3. QED
    BY <2>1, <2>2
<1>9. Tip(m2, o) = Tip(m, o)
  <2>1. Tip(m2, o) = At(o, l + 1) + Required
    BY <1>6, <1>7 DEF Tip
  <2>2. Tip(m, o) = p + NodeSize
    BY DEF Tip
  <2> HIDE DEF p, k
  <2>3. p \in Nat /\ k \in Nat /\ Required \in Nat /\ k + Required = NodeSize /\ At(o, l + 1) = p + k
    BY <1>1, <1>3, <1>4
  <2>4. (p + k) + Required = p + NodeSize
    BY <2>3
  <2>5. QED
    BY <2>1, <2>2, <2>3, <2>4
<1>10. Begin(m2, o, n) = a /\ End(m2, o, n) = e
  <2>1. Begin(m2, o, n) = a
    BY DEF Begin, HasNode
  <2>2. End(m2, o, n) = At(o, l + 1) + (v - k)
    BY DEF End, HasNode
  <2> HIDE DEF p, k, v, e
  <2>3. (p + k) + (v - k) = e
    BY <1>1, <1>3
  <2>4. QED
    BY <1>4, <2>1, <2>2, <2>3
<1>11. Block(s, m2, o, n)
  <2>1. Block(s, m, o, n)
    BY <1>1 DEF InProgress
  <2>2. m.threads[n].first \in Nat /\ m.threads[n].first \in 1 .. l
    BY <1>1, <1>2, <2>1, BlockPlace DEF Block
  <2>3. m2.threads[n].last \in 1 .. Len(m2.chain) /\ m2.threads[n].first \in 1 .. m2.threads[n].last
    <3>1. m2.threads[n].last = l + 1 /\ m2.threads[n].first = m.threads[n].first
      BY DEF HasNode
    <3>2. l + 1 \in 1 .. l + 1 /\ m.threads[n].first \in 1 .. l + 1
      BY <1>2, <2>2
    <3>3. QED
      BY <1>7, <3>1, <3>2
  <2>4. QED
    BY <1>10, <2>1, <2>3 DEF Block
<1>12. ASSUME NEW t \in 0 .. n - 1 PROVE Complete(s, m2, o, t) /\ End(m2, o, t) <= Begin(m2, o, n)
  <2>1. t \in Nat /\ t \in Thread /\ t # n /\ (t > 0 => t - 1 \in Thread /\ t - 1 # n)
    BY <1>1, ThreadIs, SMTT(30)
  <2>2. SameBlock(m.threads[t], m2.threads[t]) /\ (t > 0 => SameBlock(m.threads[t - 1], m2.threads[t - 1]))
    BY <2>1 DEF HasNode
  <2>3. Complete(s, m, o, t) /\ End(m, o, t) <= a
    BY <1>1 DEF InProgress
  <2>4. m.threads[t].last \in 1 .. l /\ m.threads[t].endPos <= Len(m.chain[m.threads[t].last])
    BY <2>3 DEF Complete, Block
  <2>5. m.threads[t].endPos <= Len(m2.chain[m.threads[t].last])
    BY <1>7, <2>4
  <2>6. Len(m.chain) \in Nat /\ Len(m2.chain) \in Nat /\ Len(m.chain) <= Len(m2.chain)
    BY <1>2, <1>7
  <2>7. Complete(s, m2, o, t)
    BY <2>1, <2>2, <2>3, <2>5, <2>6, KeepsComplete
  <2>8. End(m2, o, t) = End(m, o, t)
    BY <2>2 DEF End, SameBlock
  <2>9. QED
    BY <1>10, <2>3, <2>7, <2>8
<1>13. n > 0 => Begin(m2, o, n) = End(m2, o, n - 1)
  <2> SUFFICES ASSUME n > 0 PROVE Begin(m2, o, n) = End(m2, o, n - 1)
    OBVIOUS
  <2>1. n - 1 \in Thread /\ n - 1 # n
    BY <1>1, ThreadIs
  <2>2. SameBlock(m.threads[n - 1], m2.threads[n - 1])
    BY <2>1 DEF HasNode
  <2>3. End(m2, o, n - 1) = End(m, o, n - 1)
    BY <2>2 DEF End, SameBlock
  <2>4. QED
    BY <1>1, <1>10, <2>3 DEF InProgress
<1>14. InProgress(s, m2, o, n)
  <2>1. m2.threads[n].last = Len(m2.chain) /\ m2.threads[n].unpackSize = m.threads[n].unpackSize
    BY <1>7 DEF HasNode
  <2>2. /\ n < Threads /\ LeadsOff(s, a) /\ BeginsChunk(s, e + 1) /\ EndAfter(s, e)
        /\ IF m.threads[n].unpackSize = 0 THEN e = a ELSE e > a + 1
    BY <1>1 DEF InProgress
  <2> HIDE DEF e, a
  <2>3. QED
    BY <1>10, <1>11, <1>12, <1>13, <2>1, <2>2 DEF InProgress
<1>15. Parsing(s, m2, o, "read", r, in.pos)
  <2>1. m2.numThreads = n
    BY DEF HasNode
  <2>2. r = "moreData" => e < in.pos /\ ~KindAt(s, e + 1, "end") /\ in.pos < e + HeaderSize
    BY <1>1 DEF Parsing
  <2>3. QED
    BY <1>10, <1>14, <2>1, <2>2 DEF Parsing
<1>16. Accounted(m2, f, in, o)
  <2>1. Accounted(m, f, in, o)
    BY DEF Core
  <2>2. f.hash = <<>> /\ f.overlap = <<>> /\ UpTo(f.overlap, in.pos) /\ UpTo(f.hash, in.pos)
    BY <1>2, <2>1 DEF Accounted
  <2>3. QED
    BY <1>1, <1>2, <1>8, <1>9, <2>2 DEF Accounted
<1>17. SeveralThreads(s, m2, f, in, "read", r, o)
  BY <1>1, <1>2, <1>15 DEF SeveralThreads
<1>18. Core(s, m2, f, in, "read", r, o)
  BY <1>2, <1>16, <1>17 DEF Core
<1>19. ParseContext(s, m2, f, in, o)
  BY <1>2 DEF ParseContext
<1>20. QED
  BY <1>7, <1>18, <1>19

LEMMA NotLast == \A l \in Nat : l > 0 /\ l # 1 => 1 \in 1 .. l /\ 1 < l
  OBVIOUS

LEMMA FirstBlock ==
  ASSUME NEW s, NEW m, Mt(s, m), NEW o, NEW n \in Nat, InProgress(s, m, o, n)
  PROVE  m.threads[0].first \in 1 .. Len(m.chain)
<1>1. Len(m.chain) \in Nat /\ 0 \in Thread
  BY MtFields, ThreadIs
<1>2. Block(s, m, o, 0)
  <2>1. CASE n = 0
    BY <2>1 DEF InProgress
  <2>2. CASE n > 0
    <3>1. 0 \in 0 .. n - 1
      BY <2>2
    <3>2. QED
      BY <3>1 DEF InProgress, Complete
  <2>3. QED
    BY <2>1, <2>2
<1>3. m.threads[0].last \in 1 .. Len(m.chain) /\ m.threads[0].first \in 1 .. m.threads[0].last
  BY <1>2 DEF Block
<1>4. QED
  BY <1>1, <1>3

(* There is no memory for one more node and nothing to give back.          *)
LEMMA CoreNodeFails ==
  ASSUME NEW s, NEW m, NEW f, NEW in, NEW o, ParseContext(s, m, f, in, o), NEW r,
         Core(s, m, f, in, "read", r, o), NEW n, n = m.numThreads, NEW l, l = Len(m.chain),
         Len(m.chain[l]) = NodeSize, m.threads[n].endPos >= NodeSize,
         NEW m2, m2.chain = m.chain, m2.threads = m.threads, m2.failState = m.failState, NEW r2
  PROVE  Core(s, m2, f, in, "failed", r2, o)
<1> DEFINE e == End(m, o, n)
           p == At(o, l)
           v == m.threads[n].endPos
<1>1. /\ Nodes(m, o) /\ Tip(m, o) = in.pos /\ in.pos \in Nat /\ o \in Nat /\ n \in Nat /\ e \in Nat
      /\ p \in Nat /\ v \in Nat /\ e = p + v
      /\ InProgress(s, m, o, n) /\ EndAfter(s, in.base - 1)
  BY ParseContextIs
<1>2. Mt(s, m) /\ l \in Nat /\ l > 0 /\ f.stage = "decomp" /\ ~m.failState
  BY MtFields DEF ParseContext
<1>3. m2.chain[1] # <<>>
  <2>1. Len(m.chain[1]) = NodeSize
    <3>1. CASE l = 1
      BY <3>1
    <3>2. CASE l # 1
      <4> HIDE DEF e, p, v
      <4>1. 1 \in 1 .. l /\ 1 < l
        BY <1>2, <3>2, NotLast, Zenon
      <4>2. QED
        BY <1>1, <4>1 DEF Nodes
    <3>3. QED
      BY <3>1, <3>2
  <2>2. NodeSize > 0 /\ NodeSize \in Nat /\ Len(<<>>) = 0
    BY StepPositive
  <2>3. QED
    BY <2>1, <2>2
<1>4. EndAfter(s, in.pos - 1)
  <2>1. EndAfter(s, e)
    BY <1>1 DEF InProgress
  <2>2. in.pos = p + NodeSize
    BY <1>1 DEF Tip
  <2>3. NodeSize \in Nat /\ v >= NodeSize
    BY StepPositive
  <2> DEFINE i == in.pos - 1
  <2> HIDE DEF e, p, v
  <2>4. i \in Int /\ i <= e /\ e \in Int
    BY <1>1, <2>2, <2>3
  <2> HIDE DEF i
  <2>5. EndAfter(s, i)
    BY <2>1, <2>4, EndAfterLess
  <2>6. QED
    BY <2>5 DEF i
<1>5. m2.threads[0].first \in 1 .. Len(m2.chain)
  BY <1>1, <1>2, FirstBlock
<1>6. SeveralThreads(s, m2, f, in, "failed", r2, o)
  <2>1. FailPending(s, m2, in.pos)
    BY <1>3, <1>4, <1>5 DEF FailPending
  <2>2. QED
    BY <1>1, <1>2, <2>1 DEF SeveralThreads
<1>7. Accounted(m2, f, in, o)
  <2>1. Accounted(m, f, in, o)
    BY SMTT(30) DEF Core
  <2>2. QED
    BY <1>2, <2>1, SameNodes DEF Accounted
<1>8. QED
  BY <1>2, <1>6, <1>7 DEF Core

(* The same, when something is given back.                                 *)
LEMMA CoreNodeFailsBack ==
  ASSUME NEW s, NEW m, NEW f, NEW in, NEW o, ParseContext(s, m, f, in, o), NEW r,
         Core(s, m, f, in, "read", r, o), NEW n, n = m.numThreads,
         Len(LastNode(m)) = NodeSize, m.threads[n].endPos < NodeSize,
         m.threads[n].endPos + Required >= NodeSize,
         NEW m1, Mt(s, m1), m1.chain = m.chain, m1.threads = m.threads, m1.failState = m.failState,
         NEW q, NEW in2,
         LET b == m1.threads[n]
             len == Len(m1.chain[b.last])
             back == Min({in.pos - in.base, len - b.endPos})
         IN  /\ q = [m1 EXCEPT !.chain[b.last] = SubSeq(@, 1, len - back)]
             /\ in2 = [in EXCEPT !.pos = @ - back],
         NEW r2
  PROVE  Mt(s, q) /\ Buffer(s, in2) /\ Core(s, q, f, in2, "failed", r2, o)
<1> DEFINE l == Len(m.chain)
           b == m.threads[n].endPos
           a == At(o, l)
<1>1. /\ o \in Nat /\ n \in Nat /\ EndAfter(s, in.base - 1)
      /\ InProgress(s, m, o, n) /\ m.threads[n].last = l
      /\ b \in Nat /\ a \in Nat /\ End(m, o, n) = a + b
  BY ParseContextIs
<1>2. Mt(s, m) /\ l \in Nat /\ l > 0 /\ ~m.failState
  BY MtFields DEF ParseContext
<1>3. b > 0 /\ b <= Len(LastNode(m))
  <2>1. NodeSize \in Nat /\ Required \in Nat /\ NodeSize - Required > 0 /\ b + Required >= NodeSize
    BY StepPositive
  <2>2. b < NodeSize /\ Len(LastNode(m)) = NodeSize
    BY SMTT(30)
  <2> HIDE DEF b
  <2>3. QED
    BY <1>1, <2>1, <2>2
<1>4. Rewound(s, m, q, in, in2, o, b) /\ SameButChain(m1, q)
  <2>1. m1.threads[n].last = Len(m.chain) /\ m1.threads[n].endPos \in Nat
        /\ m1.threads[n].endPos <= Len(LastNode(m))
    BY <1>1, <1>3
  <2>2. Rewound(s, m, q, in, in2, o, m1.threads[n].endPos) /\ SameButChain(m1, q)
    BY <2>1, RewindGives, ZenonT(40)
  <2>3. QED
    BY <2>2, ZenonT(40)
<1>5. EndAfter(s, (a + b) - 1)
  <2>1. EndAfter(s, a + b)
    BY <1>1 DEF InProgress
  <2> DEFINE y == a + b
             i == (a + b) - 1
  <2> HIDE DEF a, b
  <2>2. i \in Int /\ i <= y /\ y \in Int
    BY <1>1, SMTT(30)
  <2>3. EndAfter(s, y)
    BY <2>1, SMTT(30)
  <2> HIDE DEF i, y
  <2>4. EndAfter(s, i)
    BY <2>2, <2>3, EndAfterLess
  <2>5. QED
    BY <2>4 DEF i
<1>6. q.threads[0].first \in 1 .. Len(m.chain) /\ ~q.failState
  BY <1>1, <1>2, <1>4, FirstBlock DEF SameButChain
<1>7. Core(s, q, f, in2, "failed", r2, o)
  BY <1>1, <1>3, <1>4, <1>5, <1>6, CoreFailed
<1>8. QED
  BY <1>4, <1>7, ZenonT(40) DEF Rewound

(* UF2_handleFinalChunkMt.                                                 *)
LEMMA MtThreads ==
  ASSUME NEW s, NEW m, Mt(s, m), NEW r, WithFields(r), r.chain = m.chain,
         r.srcThread = m.srcThread, r.srcPos = m.srcPos, r.cur = m.cur, r.curPos = m.curPos,
         r.failState = m.failState, r.isFinal \in BOOLEAN, r.numThreads \in 0 .. Threads,
         r.threads \in [Thread -> ThreadState]
  PROVE  Mt(s, r)
<1>1. /\ m.chain \in Seq(Seq(1 .. Len(s))) /\ Len(m.chain) > 0
      /\ \A i \in 1 .. Len(m.chain) : Len(m.chain[i]) <= NodeSize
      /\ m.srcThread \in Nat /\ m.srcPos \in Nat
      /\ m.failState \in BOOLEAN /\ m.cur \in Nat /\ m.curPos \in Nat
  BY MtFields
<1>2. /\ r.chain \in Seq(Seq(1 .. Len(s))) /\ Len(r.chain) > 0
      /\ \A i \in 1 .. Len(r.chain) : Len(r.chain[i]) <= NodeSize
      /\ r.srcThread \in Nat /\ r.srcPos \in Nat
      /\ r.failState \in BOOLEAN /\ r.cur \in Nat /\ r.curPos \in Nat
  BY <1>1, Zenon
<1>3. QED
  BY <1>2, MtOf, Zenon

Replaces(g, f, n, x) ==
  /\ g \in [Thread -> ThreadState] /\ g[n] = x
  /\ \A t \in Thread : t # n => g[t] = f[t]

LEMMA OneChanged ==
  ASSUME NEW f \in [Thread -> ThreadState], NEW n \in Thread, NEW x \in ThreadState,
         NEW g, g = [f EXCEPT ![n] = x]
  PROVE  Replaces(g, f, n, x)
  BY DEF Replaces

EndsAt(x, th, e) ==
  /\ x \in ThreadState /\ x.first = th.first /\ x.last = th.last
  /\ x.startPos = th.startPos /\ x.endPos = e

LEMMA EndMoved ==
  ASSUME NEW th \in ThreadState, NEW e \in Nat, NEW b \in Nat,
         NEW x, x = [th EXCEPT !.endPos = e, !.bufSize = b]
  PROVE  EndsAt(x, th, e)
  BY DEF ThreadState, EndsAt

BeginsAt(x, node, pos) ==
  /\ x \in ThreadState /\ x.first = node /\ x.last = node
  /\ x.startPos = pos /\ x.endPos = pos /\ x.unpackSize = 0

LEMMA NewBlockBegins ==
  ASSUME NEW th \in ThreadState, NEW node \in Nat, NEW pos \in Nat,
         NEW x, x = NewBlock(th, node, pos)
  PROVE  BeginsAt(x, node, pos)
  BY NewBlockIs, ZenonT(40) DEF BeginsAt

LEMMA AllocatedIs ==
  ASSUME NEW th \in ThreadState, NEW x, x = [th EXCEPT !.allocated = TRUE]
  PROVE  /\ x \in ThreadState /\ x.first = th.first /\ x.last = th.last
         /\ x.startPos = th.startPos /\ x.endPos = th.endPos
  BY DEF ThreadState

LEMMA StartedBlock ==
  ASSUME NEW th \in ThreadState, NEW x,
         x = [th EXCEPT !.cur = th.first, !.inPos = th.startPos, !.dec = InitDecoder,
                        !.outBuf = <<>>, !.res = "running"]
  PROVE  x \in ThreadState /\ SameBlock(th, x) /\ x.cur = th.first /\ x.outBuf = <<>>
<1>1. InitDecoder \in DecState
  BY DEF InitDecoder, DecState
<1>2. <<>> \in Seq(Nat)
  OBVIOUS
<1>3. QED
  BY <1>1, <1>2 DEF ThreadState, SameBlock

Counted(s, m, r, n, fin) ==
  /\ Mt(s, r) /\ r.chain = m.chain /\ r.failState = m.failState /\ r.numThreads = n + 1
  /\ \A t \in Thread : t # n => r.threads[t] = m.threads[t]
  /\ r.threads[n].first = m.threads[n].first /\ r.threads[n].last = m.threads[n].last
  /\ r.threads[n].startPos = m.threads[n].startPos
  /\ r.threads[n].endPos = m.threads[n].endPos + (IF fin THEN 1 ELSE 0)

LEMMA CountedFinishes ==
  ASSUME NEW s, NEW m, NEW r, NEW n \in Thread, NEW fin, Counted(s, m, r, n, fin)
  PROVE  FinishesBlock(m, r, n, fin)
<1>1. \A t \in 0 .. n - 1 : t \in Thread /\ t # n
  BY ThreadIs
<1>2. QED
  BY <1>1 DEF Counted, FinishesBlock, SameBlock

CountedBlock(m, fin, t) ==
  LET n  == m.numThreads
      mm == [m EXCEPT !.threads[n].endPos = IF fin THEN @ + 1 ELSE @]
  IN  [mm EXCEPT !.numThreads = n + 1, !.threads[n].bufSize = mm.threads[n].unpackSize,
                 !.memTotal = t]

LEMMA CountedIs ==
  ASSUME NEW s, NEW m, Mt(s, m), NEW n, n = m.numThreads, n \in Thread, NEW fin \in BOOLEAN,
         NEW tot, NEW r, r = CountedBlock(m, fin, tot)
  PROVE  Counted(s, m, r, n, fin) /\ r.isFinal = m.isFinal
<1> DEFINE th == m.threads[n]
           mm == [m EXCEPT !.threads[n].endPos = IF fin THEN @ + 1 ELSE @]
           end == IF fin THEN th.endPos + 1 ELSE th.endPos
           th1 == [th EXCEPT !.endPos = end]
           th2 == [th EXCEPT !.endPos = end, !.bufSize = th.unpackSize]
<1>1. m.threads \in [Thread -> ThreadState] /\ th \in ThreadState /\ n \in Nat /\ n < Threads
  BY MtFields, ThreadIs
<1>2. /\ th2 \in ThreadState /\ th2.first = th.first /\ th2.last = th.last
      /\ th2.startPos = th.startPos /\ th2.endPos = th.endPos + (IF fin THEN 1 ELSE 0)
  <2> DEFINE b == th.unpackSize
  <2>1. th \in ThreadState /\ b \in Nat /\ end \in Nat /\ end = th.endPos + (IF fin THEN 1 ELSE 0)
    BY <1>1, ThreadFields
  <2>2. th2 = [th EXCEPT !.endPos = end, !.bufSize = b]
    OBVIOUS
  <2> HIDE DEF th, th2, end, b
  <2>3. EndsAt(th2, th, end)
    BY <2>1, <2>2, EndMoved, Zenon
  <2>4. QED
    BY <2>1, <2>3 DEF EndsAt
<1>3. /\ mm.threads = [m.threads EXCEPT ![n] = th1] /\ mm.threads[n] = th1
      /\ th1.unpackSize = th.unpackSize
      /\ mm.chain = m.chain /\ mm.isFinal = m.isFinal /\ mm.failState = m.failState
      /\ mm.cur = m.cur /\ mm.curPos = m.curPos /\ mm.srcThread = m.srcThread
      /\ mm.srcPos = m.srcPos
  BY <1>1 DEF Mt, ThreadState
<1>4. r = [mm EXCEPT !.numThreads = n + 1, !.threads[n].bufSize = th.unpackSize, !.memTotal = tot]
  <2>1. r = [mm EXCEPT !.numThreads = n + 1, !.threads[n].bufSize = mm.threads[n].unpackSize,
                       !.memTotal = tot]
    BY DEF CountedBlock
  <2>2. mm.threads[n].unpackSize = th.unpackSize
    BY <1>3
  <2> HIDE DEF mm, th
  <2>3. QED
    BY <2>1, <2>2
<1>5. /\ r.chain = mm.chain /\ r.isFinal = mm.isFinal /\ r.failState = mm.failState
      /\ r.cur = mm.cur /\ r.curPos = mm.curPos /\ r.srcThread = mm.srcThread
      /\ r.srcPos = mm.srcPos /\ r.numThreads = n + 1
      /\ r.threads = [mm.threads EXCEPT ![n].bufSize = th.unpackSize] /\ WithFields(r)
  BY <1>4, ZenonT(40) DEF Mt, WithFields
<1> HIDE DEF mm
<1>6. r.threads = [m.threads EXCEPT ![n] = th2]
  <2>1. [mm.threads[n] EXCEPT !.bufSize = th.unpackSize] = th2
    BY <1>1, <1>3 DEF ThreadState
  <2>2. r.threads = [mm.threads EXCEPT ![n] = th2]
    BY <1>5, <2>1
  <2> HIDE DEF th1, th2, th
  <2>3. QED
    BY <1>1, <1>3, <2>2
<1> HIDE DEF th1, th2, th
<1>7. /\ r.threads \in [Thread -> ThreadState] /\ r.threads[n] = th2
      /\ \A t \in Thread : t # n => r.threads[t] = m.threads[t]
  <2>1. Replaces(r.threads, m.threads, n, th2)
    BY <1>1, <1>2, <1>6, OneChanged, Zenon
  <2>2. QED
    BY <2>1 DEF Replaces
<1>8. n + 1 \in 0 .. Threads /\ m.isFinal \in BOOLEAN
  BY <1>1, ThreadIs, MtFields
<1>9. Mt(s, r)
  <2>1. /\ WithFields(r) /\ r.chain = m.chain /\ r.srcThread = m.srcThread /\ r.srcPos = m.srcPos
        /\ r.cur = m.cur /\ r.curPos = m.curPos /\ r.failState = m.failState
        /\ r.isFinal \in BOOLEAN /\ r.numThreads \in 0 .. Threads
        /\ r.threads \in [Thread -> ThreadState]
    BY <1>3, <1>5, <1>7, <1>8, Zenon
  <2>2. QED
    BY <2>1, MtThreads, Zenon
<1>10. QED
  BY <1>2, <1>3, <1>5, <1>7, <1>9 DEF Counted, th

(* The output buffer was allocated.                                        *)
HeldOf(c, r, n, fin) == r = [c EXCEPT !.threads[n].allocated = TRUE, !.isFinal = fin]

LEMMA HeldIs ==
  ASSUME NEW s, NEW m, NEW c, NEW n \in Thread, NEW fin \in BOOLEAN, Counted(s, m, c, n, fin),
         NEW r, HeldOf(c, r, n, fin)
  PROVE  Counted(s, m, r, n, fin) /\ r.isFinal = fin
<1> DEFINE th == c.threads[n]
           th2 == [th EXCEPT !.allocated = TRUE]
<1>1. Mt(s, c) /\ c.threads \in [Thread -> ThreadState] /\ th \in ThreadState
  BY MtFields DEF Counted
<1>2. /\ th2 \in ThreadState /\ th2.first = th.first /\ th2.last = th.last
      /\ th2.startPos = th.startPos /\ th2.endPos = th.endPos
  <2> HIDE DEF th
  <2>1. QED
    BY <1>1, AllocatedIs
<1>3. /\ r.chain = c.chain /\ r.isFinal = fin /\ r.failState = c.failState
      /\ r.cur = c.cur /\ r.curPos = c.curPos /\ r.srcThread = c.srcThread
      /\ r.srcPos = c.srcPos /\ r.numThreads = c.numThreads
      /\ r.threads = [c.threads EXCEPT ![n] = th2] /\ WithFields(r)
  BY <1>1 DEF Mt, WithFields, HeldOf
<1> HIDE DEF th2, th
<1>4. /\ r.threads \in [Thread -> ThreadState] /\ r.threads[n] = th2
      /\ \A t \in Thread : t # n => r.threads[t] = c.threads[t]
  <2>1. Replaces(r.threads, c.threads, n, th2)
    BY <1>1, <1>2, <1>3, OneChanged, Zenon
  <2>2. QED
    BY <2>1 DEF Replaces
<1>5. r.numThreads \in 0 .. Threads
  BY <1>1, <1>3, MtFields
<1>6. Mt(s, r)
  BY <1>1, <1>3, <1>4, <1>5, MtThreads, Zenon
<1>7. QED
  BY <1>2, <1>3, <1>4, <1>6 DEF Counted, th

(* The next block begins where this one ends.                              *)
NextBlock(s, h, r, n) ==
  /\ Mt(s, r) /\ r.chain = h.chain /\ r.failState = h.failState /\ r.numThreads = n + 1
  /\ \A t \in 0 .. n : SameBlock(h.threads[t], r.threads[t])
  /\ r.threads[n + 1].first = h.threads[n].last /\ r.threads[n + 1].last = h.threads[n].last
  /\ r.threads[n + 1].startPos = h.threads[n].endPos
  /\ r.threads[n + 1].endPos = h.threads[n].endPos
  /\ r.threads[n + 1].unpackSize = 0

LEMMA NextIs ==
  ASSUME NEW s, NEW h, Mt(s, h), NEW n \in Nat, n + 1 < Threads, h.numThreads = n + 1,
         NEW node, node = h.threads[n].last, NEW pos, pos = h.threads[n].endPos,
         NEW r, r = [h EXCEPT !.threads[n + 1] = NewBlock(@, node, pos)]
  PROVE  NextBlock(s, h, r, n)
<1> DEFINE k == n + 1
           nb == NewBlock(h.threads[k], node, pos)
<1>1. k \in Thread /\ n \in Thread /\ h.threads \in [Thread -> ThreadState]
  BY ThreadIs, MtFields
<1>2. node \in Nat /\ pos \in Nat
  BY <1>1, ThreadFields
<1>3. /\ nb \in ThreadState /\ nb.first = node /\ nb.last = node /\ nb.startPos = pos
      /\ nb.endPos = pos /\ nb.unpackSize = 0
  <2> DEFINE th == h.threads[k]
  <2>1. th \in ThreadState
    BY <1>1
  <2> HIDE DEF th
  <2>2. nb = NewBlock(th, node, pos)
    BY DEF th
  <2> HIDE DEF nb
  <2>3. BeginsAt(nb, node, pos)
    BY <1>2, <2>1, <2>2, NewBlockBegins, Zenon
  <2>4. QED
    BY <2>3 DEF BeginsAt
<1> HIDE DEF nb
<1>4. r = [h EXCEPT !.threads[k] = nb]
  BY DEF nb
<1> HIDE DEF k
<1>5. /\ r.chain = h.chain /\ r.isFinal = h.isFinal /\ r.failState = h.failState
      /\ r.cur = h.cur /\ r.curPos = h.curPos /\ r.srcThread = h.srcThread
      /\ r.srcPos = h.srcPos /\ r.numThreads = h.numThreads
      /\ r.threads = [h.threads EXCEPT ![k] = nb] /\ WithFields(r)
  BY <1>4 DEF Mt, WithFields
<1>6. /\ r.threads \in [Thread -> ThreadState] /\ r.threads[k] = nb
      /\ \A t \in Thread : t # k => r.threads[t] = h.threads[t]
  <2>1. Replaces(r.threads, h.threads, k, nb)
    BY <1>1, <1>3, <1>5, OneChanged, Zenon
  <2>2. QED
    BY <2>1 DEF Replaces
<1>7. r.numThreads \in 0 .. Threads /\ r.isFinal \in BOOLEAN
  BY <1>5, MtFields
<1>8. Mt(s, r)
  BY <1>5, <1>6, <1>7, MtThreads, Zenon
<1>9. \A t \in 0 .. n : SameBlock(h.threads[t], r.threads[t])
  <2>1. \A t \in 0 .. n : t \in Thread /\ t # k
    BY ThreadIs DEF k
  <2>2. QED
    BY <1>6, <2>1 DEF SameBlock
<1>10. QED
  BY <1>3, <1>5, <1>6, <1>8, <1>9 DEF NextBlock, k

(* The blocks go to the pool.                                              *)
LEMMA StartedIs ==
  ASSUME NEW s, NEW m, Mt(s, m), NEW r, r = Started(m)
  PROVE  /\ Mt(s, r) /\ r.chain = m.chain /\ r.numThreads = m.numThreads /\ r.isFinal = m.isFinal
         /\ r.failState = m.failState /\ SameBlocks(m, r)
         /\ \A t \in Thread : t < m.numThreads /\ m.threads[t].first <= m.threads[t].last
              => Decoding(r, t)
<1> DEFINE began(t) == [m.threads[t] EXCEPT !.cur = m.threads[t].first, !.inPos = m.threads[t].startPos,
                               !.dec = InitDecoder, !.outBuf = <<>>, !.res = "running"]
           ts == [t \in Thread |-> IF t < m.numThreads THEN began(t) ELSE m.threads[t]]
<1>1. r = [m EXCEPT !.threads = ts]
  BY DEF Started
<1>3. ASSUME NEW t \in Thread
      PROVE  /\ began(t) \in ThreadState /\ SameBlock(m.threads[t], began(t))
             /\ began(t).cur = m.threads[t].first /\ began(t).outBuf = <<>>
  <2> DEFINE th == m.threads[t]
             x == began(t)
  <2>1. th \in ThreadState
    BY MtFields
  <2>2. x = [th EXCEPT !.cur = th.first, !.inPos = th.startPos, !.dec = InitDecoder,
                       !.outBuf = <<>>, !.res = "running"]
    OBVIOUS
  <2> HIDE DEF th, x
  <2>3. x \in ThreadState /\ SameBlock(th, x) /\ x.cur = th.first /\ x.outBuf = <<>>
    BY <2>1, <2>2, StartedBlock
  <2>4. QED
    BY <2>3 DEF th, x
<1>4. \A t \in Thread : m.threads[t] \in ThreadState /\ SameBlock(m.threads[t], m.threads[t])
  BY MtFields DEF SameBlock
<1>5. ts \in [Thread -> ThreadState] /\ \A t \in Thread : SameBlock(m.threads[t], ts[t])
  <2> HIDE DEF began
  <2>1. \A t \in Thread : ts[t] = (IF t < m.numThreads THEN began(t) ELSE m.threads[t])
    OBVIOUS
  <2>2. \A t \in Thread : ts[t] \in ThreadState /\ SameBlock(m.threads[t], ts[t])
    BY <1>3, <1>4, <2>1
  <2>3. QED
    BY <2>2
<1>6. \A t \in Thread : t < m.numThreads => ts[t].cur = m.threads[t].first /\ ts[t].outBuf = <<>>
  <2> HIDE DEF began
  <2>1. \A t \in Thread : t < m.numThreads => ts[t] = began(t)
    OBVIOUS
  <2>2. QED
    BY <1>3, <2>1
<1> HIDE DEF ts
<1>7. /\ r.chain = m.chain /\ r.isFinal = m.isFinal /\ r.failState = m.failState
      /\ r.cur = m.cur /\ r.curPos = m.curPos /\ r.srcThread = m.srcThread
      /\ r.srcPos = m.srcPos /\ r.numThreads = m.numThreads /\ r.threads = ts /\ WithFields(r)
  BY <1>1 DEF Mt, WithFields
<1>8. r.numThreads \in 0 .. Threads /\ r.isFinal \in BOOLEAN /\ r.threads \in [Thread -> ThreadState]
  BY <1>5, <1>7, MtFields
<1>9. Mt(s, r)
  BY <1>7, <1>8, MtThreads, Zenon
<1>10. ASSUME NEW t \in Thread, t < m.numThreads, m.threads[t].first <= m.threads[t].last
       PROVE  Decoding(r, t)
  <2> DEFINE th == r.threads[t]
             m1 == m.threads[t]
  <2>1. SameBlock(m1, th) /\ th.cur = m1.first /\ th.outBuf = <<>>
    BY <1>5, <1>6, <1>7, <1>10
  <2>2. th \in ThreadState /\ m1.first <= m1.last
    BY <1>8, <1>10
  <2> HIDE DEF th, m1
  <2>3. th.first \in Nat /\ th.last \in Nat /\ th.bufSize \in Nat
    BY <2>2, ThreadFields
  <2>4. th.cur = th.first /\ th.first <= th.last /\ Len(th.outBuf) = 0
    BY <2>1, <2>2 DEF SameBlock
  <2>5. th.cur \in th.first .. th.last /\ Len(th.outBuf) <= th.bufSize
    BY <2>3, <2>4
  <2>6. QED
    BY <2>5 DEF th, Decoding
<1>11. SameBlocks(m, r)
  BY <1>5, <1>7 DEF SameBlocks
<1>12. QED
  BY <1>7, <1>9, <1>10, <1>11

(* The outcomes: no memory, blocks for every thread, one more block.       *)
EndMovedBy(m, n, fin) == [m EXCEPT !.threads[n].endPos = IF fin THEN @ + 1 ELSE @]

HeldBlock(m, n, fin, tot) ==
  [CountedBlock(m, fin, tot) EXCEPT !.threads[n].allocated = TRUE, !.isFinal = fin]

Outcome(m, n, fin, tot, z) ==
  \/ z.res = "memory" /\ z.decmt = CountedBlock(m, fin, tot)
  \/ z.res = "ready" /\ z.decmt = HeldBlock(m, n, fin, tot)
  \/ /\ z.res = "next" /\ ~fin /\ n + 1 # Threads
     /\ z.decmt = [HeldBlock(m, n, fin, tot) EXCEPT
                     !.threads[n + 1] = NewBlock(@, EndMovedBy(m, n, fin).threads[n].last,
                                                    EndMovedBy(m, n, fin).threads[n].endPos)]

LEMMA HandleIs ==
  ASSUME NEW s, NEW m, Mt(s, m), NEW n, n = m.numThreads, n \in Thread, NEW fin \in BOOLEAN,
         NEW mm, mm = EndMovedBy(m, n, fin), NEW z \in HandleFinalChunk(mm, fin)
  PROVE  \E tot : Outcome(m, n, fin, tot, z)
<1>1. mm.numThreads = n
  BY DEF EndMovedBy, Mt
<1> DEFINE tot == Plus(mm.memTotal, mm.threads[n].unpackSize)
           counted == [mm EXCEPT !.numThreads = n + 1,
                                 !.threads[n].bufSize = mm.threads[n].unpackSize,
                                 !.memTotal = tot]
           held == [counted EXCEPT !.threads[n].allocated = TRUE, !.isFinal = fin]
           failure == {[decmt |-> counted, res |-> "memory"]}
           b == mm.threads[n]
<1>2. counted = CountedBlock(m, fin, tot) /\ held = HeldBlock(m, n, fin, tot)
  <2>1. counted = CountedBlock(m, fin, tot)
    BY DEF CountedBlock, EndMovedBy
  <2> HIDE DEF counted, tot
  <2>2. QED
    BY <2>1 DEF HeldBlock
<1>3. z \in IF counted.memTotal > MemLimit THEN failure
            ELSE (IF MayFail THEN failure ELSE {}) \cup
                 {IF n + 1 = Threads \/ fin THEN [decmt |-> held, res |-> "ready"]
                  ELSE [decmt |-> [held EXCEPT !.threads[n + 1] = NewBlock(@, b.last, b.endPos)],
                        res   |-> "next"]}
  BY <1>1, Zenon DEF HandleFinalChunk
<1> HIDE DEF counted, held, tot
<1>4. \/ z = [decmt |-> counted, res |-> "memory"]
      \/ z = [decmt |-> held, res |-> "ready"]
      \/ /\ ~fin /\ n + 1 # Threads
         /\ z = [decmt |-> [held EXCEPT !.threads[n + 1] = NewBlock(@, b.last, b.endPos)],
                 res   |-> "next"]
  BY <1>3
<1>5. CASE z = [decmt |-> counted, res |-> "memory"]
  BY <1>2, <1>5 DEF Outcome
<1>6. CASE z = [decmt |-> held, res |-> "ready"]
  BY <1>2, <1>6 DEF Outcome
<1>7. CASE /\ ~fin /\ n + 1 # Threads
           /\ z = [decmt |-> [held EXCEPT !.threads[n + 1] = NewBlock(@, b.last, b.endPos)],
                   res   |-> "next"]
  <2>1. z.res = "next" /\ z.decmt = [held EXCEPT !.threads[n + 1] = NewBlock(@, b.last, b.endPos)]
    BY <1>7
  <2>2. b.last = EndMovedBy(m, n, fin).threads[n].last /\ b.endPos = EndMovedBy(m, n, fin).threads[n].endPos
    OBVIOUS
  <2> HIDE DEF b
  <2>3. Outcome(m, n, fin, tot, z)
    BY <1>2, <1>7, <2>1, <2>2, Zenon DEF Outcome
  <2>4. QED
    BY <2>3
<1>8. QED
  BY <1>4, <1>5, <1>6, <1>7

(* What a complete block leads to.                                         *)
GivesBack(in, t, m1, q, in2) ==
  LET b == m1.threads[t]
      len == Len(m1.chain[b.last])
      back == Min({in.pos - in.base, len - b.endPos})
  IN  /\ q = [m1 EXCEPT !.chain[b.last] = SubSeq(@, 1, len - back)]
      /\ in2 = [in EXCEPT !.pos = @ - back]

AfterBlock(s, m, f, in, o, p, q, in2) ==
  Mt(s, q) /\ Buffer(s, in2) /\ ~q.failState /\ \A r : Core(s, q, f, in2, p, r, o)

Ends(s, m, o, n, fin) ==
  IF fin THEN s[End(m, o, n) + 1].kind = "end"
  ELSE IsReset(s, End(m, o, n) + 1) /\ m.threads[n].unpackSize # 0

LEMMA BlockCompletes ==
  ASSUME NEW s, NEW m, NEW f, NEW in, NEW o, ParseContext(s, m, f, in, o), NEW r,
         Core(s, m, f, in, "parse", r, o), NEW n, n = m.numThreads,
         NEW fin \in BOOLEAN,
         Ends(s, m, o, n, fin),
         NEW m1, Counted(s, m, m1, n, fin)
  PROVE  /\ Finished(s, m, m1, o, n, fin) /\ Mt(s, m1) /\ m1.chain = m.chain
         /\ m1.threads[n].last = Len(m.chain) /\ m1.threads[n].endPos \in Nat
         /\ m1.threads[n].endPos <= Len(LastNode(m)) /\ n \in Thread /\ ~m1.failState
         /\ m1.numThreads = n + 1
<1>1. n \in Thread /\ LastNode(m) = m.chain[Len(m.chain)]
  BY ParseContextIs
<1>2. FinishesBlock(m, m1, n, fin)
  BY <1>1, CountedFinishes
<1>3. Finished(s, m, m1, o, n, fin)
  BY <1>2, BlockEnds DEF Ends
<1>4. Mt(s, m1) /\ m1.chain = m.chain /\ m1.numThreads = n + 1 /\ m1.failState = m.failState
  BY DEF Counted
<1>5. m1.threads[n].last = Len(m.chain) /\ m1.threads[n].endPos \in Nat
      /\ m1.threads[n].endPos <= Len(m.chain[Len(m.chain)])
  BY <1>3 DEF Finished
<1>6. QED
  BY <1>1, <1>3, <1>4, <1>5 DEF ParseContext

LEMMA CompleteFails ==
  ASSUME NEW s, NEW m, NEW f, NEW in, NEW o, ParseContext(s, m, f, in, o), NEW r,
         Core(s, m, f, in, "parse", r, o), NEW n, n = m.numThreads,
         NEW fin \in BOOLEAN,
         Ends(s, m, o, n, fin),
         NEW m1, Counted(s, m, m1, n, fin), NEW q, NEW in2, GivesBack(in, n, m1, q, in2)
  PROVE  AfterBlock(s, m, f, in, o, "failed", q, in2)
<1> DEFINE b == m1.threads[n].endPos
<1>1. /\ Finished(s, m, m1, o, n, fin) /\ Mt(s, m1) /\ m1.chain = m.chain
      /\ m1.threads[n].last = Len(m.chain) /\ b \in Nat
      /\ b <= Len(LastNode(m)) /\ ~m1.failState
  BY BlockCompletes
<1>2. Rewound(s, m, q, in, in2, o, b) /\ SameButChain(m1, q)
  <2>1. LET x == m1.threads[n]
            len == Len(m1.chain[x.last])
            back == Min({in.pos - in.base, len - x.endPos})
        IN  /\ q = [m1 EXCEPT !.chain[x.last] = SubSeq(@, 1, len - back)]
            /\ in2 = [in EXCEPT !.pos = @ - back]
    BY DEF GivesBack
  <2>2. "parse" \notin {"blocks", "failed", "error"}
    OBVIOUS
  <2>3. QED
    BY <1>1, <2>1, <2>2, RewindGives, ZenonT(40)
<1>3. /\ Len(m.chain) = 1 => b > 0
      /\ End(m1, o, n) = At(o, Len(m.chain)) + b /\ EndAfter(s, End(m1, o, n) - 1)
      /\ m1.threads[0].first \in 1 .. Len(m.chain)
  BY <1>1 DEF Finished
<1>4. EndAfter(s, in.base - 1)
  BY ParseContextIs
<1>5. q.threads[0].first \in 1 .. Len(m.chain) /\ ~q.failState
  BY <1>1, <1>2, <1>3 DEF SameButChain
<1>6. EndAfter(s, (At(o, Len(m.chain)) + b) - 1)
  BY <1>3
<1> HIDE DEF b
<1>7. \A r2 : Core(s, q, f, in2, "failed", r2, o)
  BY <1>1, <1>2, <1>3, <1>4, <1>5, <1>6, CoreFailed
<1>8. QED
  BY <1>2, <1>5, <1>7 DEF AfterBlock, Rewound

LEMMA CompleteStarts ==
  ASSUME NEW s, NEW m, NEW f, NEW in, NEW o, ParseContext(s, m, f, in, o), NEW r,
         Core(s, m, f, in, "parse", r, o), NEW n, n = m.numThreads,
         NEW fin \in BOOLEAN,
         Ends(s, m, o, n, fin),
         NEW m1, Counted(s, m, m1, n, fin), m1.isFinal = fin,
         NEW q, NEW in2, GivesBack(in, n, Started(m1), q, in2)
  PROVE  AfterBlock(s, m, f, in, o, "blocks", q, in2)
<1> DEFINE m3 == Started(m1)
           b == m1.threads[n].endPos
<1>1. /\ Finished(s, m, m1, o, n, fin) /\ Mt(s, m1) /\ m1.chain = m.chain
      /\ m1.threads[n].last = Len(m.chain) /\ b \in Nat
      /\ b <= Len(LastNode(m)) /\ ~m1.failState /\ n \in Thread /\ m1.numThreads = n + 1
  BY BlockCompletes
<1>2. /\ Mt(s, m3) /\ m3.chain = m1.chain /\ m3.numThreads = m1.numThreads /\ m3.isFinal = m1.isFinal
      /\ m3.failState = m1.failState /\ SameBlocks(m1, m3)
      /\ \A t \in Thread : t < m1.numThreads /\ m1.threads[t].first <= m1.threads[t].last
           => Decoding(m3, t)
  BY <1>1, StartedIs
<1>3. SameBlock(m1.threads[n], m3.threads[n])
  BY <1>1, <1>2 DEF SameBlocks
<1>4. m3.threads[n].last = Len(m.chain) /\ m3.threads[n].endPos = b
  BY <1>1, <1>3 DEF SameBlock
<1>5. GivesBack(in, n, m3, q, in2)
  OBVIOUS
<1> HIDE DEF m3
<1>6. Rewound(s, m, q, in, in2, o, b) /\ SameButChain(m3, q)
  <2>1. LET x == m3.threads[n]
            len == Len(m3.chain[x.last])
            back == Min({in.pos - in.base, len - x.endPos})
        IN  /\ q = [m3 EXCEPT !.chain[x.last] = SubSeq(@, 1, len - back)]
            /\ in2 = [in EXCEPT !.pos = @ - back]
    BY <1>5, ZenonT(40) DEF GivesBack
  <2>2. "parse" \notin {"blocks", "failed", "error"}
    OBVIOUS
  <2>3. m3.threads[n].endPos \in Nat /\ m3.threads[n].endPos <= Len(LastNode(m)) /\ m3.chain = m.chain
    BY <1>1, <1>2, <1>4
  <2>4. Rewound(s, m, q, in, in2, o, m3.threads[n].endPos) /\ SameButChain(m3, q)
    BY <1>2, <1>4, <2>1, <2>2, <2>3, RewindGives, ZenonT(40)
  <2>5. QED
    BY <1>4, <2>4, SMTT(30)
<1>7. ASSUME NEW t \in 0 .. n PROVE SameBlock(m1.threads[t], q.threads[t]) /\ Decoding(q, t)
  <2>1. t \in Thread /\ t < n + 1
    BY <1>1, ThreadIs
  <2>2. Block(s, m1, o, t)
    BY <1>1 DEF Finished, Complete
  <2>3. m1.threads[t].first <= m1.threads[t].last
    <3>1. m1.threads[t] \in ThreadState
      BY <1>1, <2>1, MtFields
    <3>2. m1.threads[t].first \in 1 .. m1.threads[t].last
      BY <2>2 DEF Block
    <3>3. QED
      BY <3>2
  <2>4. Decoding(m3, t)
    BY <1>1, <1>2, <2>1, <2>3
  <2>5. q.threads = m3.threads
    BY <1>6 DEF SameButChain
  <2>6. Decoding(q, t)
    BY <2>4, <2>5 DEF Decoding
  <2>7. QED
    BY <1>2, <2>1, <2>5, <2>6 DEF SameBlocks
<1>8. q.numThreads = n + 1 /\ ~q.failState /\ q.isFinal = fin
  BY <1>1, <1>2, <1>6 DEF SameButChain
<1>9. \A r2 : Core(s, q, f, in2, "blocks", r2, o)
  BY <1>1, <1>6, <1>7, <1>8, CoreReady
<1>10. QED
  BY <1>6, <1>8, <1>9 DEF AfterBlock, Rewound

BeginsNext(m, m1, n, m2) ==
  m2 = [m1 EXCEPT !.threads[n + 1] = NewBlock(@, m.threads[n].last, m.threads[n].endPos)]

LEMMA CompleteGoesOn ==
  ASSUME NEW s, NEW m, NEW f, NEW in, NEW o, ParseContext(s, m, f, in, o), NEW r,
         Core(s, m, f, in, "parse", r, o), NEW n, n = m.numThreads, n + 1 # Threads,
         NEW fin \in BOOLEAN, ~fin, Ends(s, m, o, n, fin), NEW m1, Counted(s, m, m1, n, fin),
         NEW m2, BeginsNext(m, m1, n, m2)
  PROVE  Mt(s, m2) /\ ~m2.failState /\ Core(s, m2, f, in, "read", "dictReset", o)
<1>1. /\ Finished(s, m, m1, o, n, fin) /\ Mt(s, m1) /\ m1.chain = m.chain
      /\ m1.threads[n].last = Len(m.chain) /\ m1.threads[n].endPos \in Nat
      /\ ~m1.failState /\ n \in Thread /\ m1.numThreads = n + 1
  BY BlockCompletes
<1>2. n \in Nat /\ n + 1 < Threads
  BY <1>1, ThreadIs
<1>3. m.threads[n].last = m1.threads[n].last /\ m.threads[n].endPos = m1.threads[n].endPos
  <2>1. m.threads[n].endPos \in Nat
    BY ParseContextIs
  <2>2. QED
    BY <2>1 DEF Counted
<1>4. NextBlock(s, m1, m2, n)
  BY <1>1, <1>2, <1>3, NextIs DEF BeginsNext
<1>5. /\ Mt(s, m2) /\ m2.chain = m.chain /\ ~m2.failState /\ m2.numThreads = n + 1
      /\ \A t \in 0 .. n : SameBlock(m1.threads[t], m2.threads[t])
      /\ m2.threads[n + 1].first = Len(m.chain) /\ m2.threads[n + 1].last = Len(m.chain)
      /\ m2.threads[n + 1].startPos = m1.threads[n].endPos
      /\ m2.threads[n + 1].endPos = m1.threads[n].endPos
      /\ m2.threads[n + 1].unpackSize = 0
  BY <1>1, <1>4 DEF NextBlock
<1>6. Core(s, m2, f, in, "read", "dictReset", o)
  BY <1>1, <1>2, <1>5, CoreNextBlock
<1>7. QED
  BY <1>5, <1>6

(* A sequence without its first elements.                                  *)
LEMMA RestIs ==
  ASSUME NEW T, NEW s \in Seq(T), NEW k \in Nat
  PROVE  /\ SubSeq(s, k + 1, Len(s)) \in Seq(T)
         /\ Len(SubSeq(s, k + 1, Len(s))) = IF k <= Len(s) THEN Len(s) - k ELSE 0
<1>1. CASE k <= Len(s)
  BY <1>1, CutAnywhere
<1>2. CASE ~(k <= Len(s))
  <2>1. SubSeq(s, k + 1, Len(s)) = <<>>
    BY <1>2
  <2>2. QED
    BY <1>2, <2>1
<1>3. QED
  BY <1>1, <1>2

(* A thread takes some of its node.                                        *)
StepsTo(s, th, node, th2, z) == th2 = Decoded(th, node, z)

Runs(th) == th.res = "running" => th.cur \in th.first .. th.last /\ Len(th.outBuf) <= th.bufSize

LEMMA StepIs ==
  ASSUME NEW s \in Streams, NEW th \in ThreadState, th.res = "running", Runs(th),
         NEW node \in Seq(1 .. Len(s)),
         NEW z \in Decode(s, th.dec, SubSeq(node, th.inPos + 1, Len(node)), th.bufSize - Len(th.outBuf)),
         NEW th2, StepsTo(s, th, node, th2, z)
  PROVE  th2 \in ThreadState /\ SameBlock(th, th2) /\ Runs(th2)
<1> DEFINE bytes == SubSeq(node, th.inPos + 1, Len(node))
           space == th.bufSize - Len(th.outBuf)
           pos == th.inPos + z.used
           moves == pos + Required >= Len(node)
           res == CASE z.res = "corrupt"  -> "corrupt"
                    [] z.res # "corrupt" /\ th.cur = th.last -> "ok"
                    [] OTHER -> "running"
           inp == IF moves THEN pos - (Len(node) - Required) ELSE pos
           cur == IF moves /\ th.cur # th.last THEN th.cur + 1 ELSE th.cur
           out1 == th.outBuf \o z.out
<1>1. /\ th.first \in Nat /\ th.last \in Nat /\ th.bufSize \in Nat /\ th.cur \in Nat
      /\ th.inPos \in Nat /\ th.outBuf \in Seq(Nat) /\ th.dec \in DecState
      /\ Len(th.outBuf) \in Nat
  BY ThreadFields
<1>2. th.cur \in th.first .. th.last /\ Len(th.outBuf) <= th.bufSize
  BY DEF Runs
<1>3. bytes \in Seq(1 .. Len(s)) /\ space \in Nat /\ s \in Seq(Byte)
  <2>1. space \in Nat
    BY <1>1, <1>2
  <2>2. s \in Seq(Byte)
    BY StreamIs
  <2> DEFINE k == th.inPos
             T == 1 .. Len(s)
  <2>3. k \in Nat /\ node \in Seq(T)
    BY <1>1
  <2> HIDE DEF k, T
  <2>4. SubSeq(node, k + 1, Len(node)) \in Seq(T)
    BY <2>3, RestIs
  <2>5. QED
    BY <2>1, <2>2, <2>4 DEF k, T
<1>4. z \in Decode(s, th.dec, bytes, space)
  OBVIOUS
<1> HIDE DEF bytes, space
<1>5. /\ z.used \in 0 .. Len(bytes) /\ z.dec \in DecState /\ z.out \in Seq(Nat) /\ Len(z.out) <= space
      /\ Len(bytes) \in Nat
  BY <1>1, <1>3, <1>4, DecodeType, SMTT(30)
<1>6. pos \in Nat
  BY <1>1, <1>5, SMTT(30)
<1>7. inp \in Nat
  <2>1. Len(node) \in Nat /\ Required \in Nat
    BY StepPositive
  <2> HIDE DEF pos
  <2>2. QED
    BY <1>6, <2>1
<1>8. out1 \in Seq(Nat) /\ Len(out1) = Len(th.outBuf) + Len(z.out)
  BY <1>1, <1>5
<1>9. cur \in Nat /\ cur \in th.first .. th.last
  <2> HIDE DEF moves
  <2>1. QED
    BY <1>1, <1>2, SMTT(30)
<1>10. res \in {"ok", "running", "corrupt"}
  OBVIOUS
<1>11. Len(out1) <= th.bufSize
  <2>1. Len(z.out) \in Nat
    BY <1>5
  <2>2. Len(z.out) <= th.bufSize - Len(th.outBuf)
    BY <1>5 DEF space
  <2> DEFINE a == Len(th.outBuf)
             b == Len(z.out)
             c == th.bufSize
  <2>3. a \in Nat /\ b \in Nat /\ c \in Nat /\ b <= c - a /\ Len(out1) = a + b
    BY <1>1, <1>8, <2>1, <2>2
  <2> HIDE DEF a, b, c, out1
  <2>4. Len(out1) <= c
    BY <2>3
  <2>5. QED
    BY <2>4 DEF c
<1>12. th2 = [th EXCEPT !.dec = z.dec, !.outBuf = out1, !.res = res, !.inPos = inp, !.cur = cur]
  BY DEF StepsTo, Decoded
<1> HIDE DEF out1, res, inp, cur, pos, moves
<1>13. /\ th2 \in ThreadState /\ SameBlock(th, th2) /\ th2.cur = cur /\ th2.outBuf = out1
       /\ th2.first = th.first /\ th2.last = th.last /\ th2.bufSize = th.bufSize
  BY <1>5, <1>7, <1>8, <1>9, <1>10, <1>12 DEF ThreadState, SameBlock
<1>14. QED
  BY <1>9, <1>11, <1>13 DEF Runs

(* The blocks stay the same.                                               *)
OneDecodes(m, t, th2, m2) == m2 = [m EXCEPT !.threads[t] = th2]

LEMMA CoreBlockStep ==
  ASSUME NEW s, NEW m, Mt(s, m), NEW f, f.stage = "decomp", ~m.failState, NEW in, NEW o,
         NEW r, Core(s, m, f, in, "blocks", r, o), NEW t \in Thread,
         NEW th2 \in ThreadState, SameBlock(m.threads[t], th2), Runs(th2),
         NEW m2, OneDecodes(m, t, th2, m2)
  PROVE  Mt(s, m2) /\ ~m2.failState /\ Core(s, m2, f, in, "blocks", r, o)
<1>1. m.threads \in [Thread -> ThreadState]
  BY MtFields
<1>2. /\ m2.chain = m.chain /\ m2.isFinal = m.isFinal /\ m2.failState = m.failState
      /\ m2.cur = m.cur /\ m2.curPos = m.curPos /\ m2.srcThread = m.srcThread
      /\ m2.srcPos = m.srcPos /\ m2.numThreads = m.numThreads
      /\ m2.threads = [m.threads EXCEPT ![t] = th2] /\ WithFields(m2)
  BY DEF OneDecodes, Mt, WithFields
<1>3. Replaces(m2.threads, m.threads, t, th2)
  BY <1>1, <1>2, OneChanged, Zenon
<1>4. Mt(s, m2)
  <2>1. m2.numThreads \in 0 .. Threads /\ m2.isFinal \in BOOLEAN /\ m2.threads \in [Thread -> ThreadState]
    BY <1>2, <1>3, MtFields DEF Replaces
  <2>2. QED
    BY <1>2, <2>1, MtThreads, Zenon
<1>5. ASSUME NEW i \in Thread
      PROVE  SameBlock(m.threads[i], m2.threads[i]) /\ (Decoding(m, i) => Decoding(m2, i))
  <2>1. CASE i = t
    BY <1>3, <2>1 DEF Replaces, Decoding, Runs
  <2>2. CASE i # t
    BY <1>3, <2>2 DEF Replaces, Decoding, SameBlock
  <2>3. QED
    BY <2>1, <2>2
<1>6. SeveralThreads(s, m, f, in, "blocks", r, o)
  BY DEF Core
<1>7. Blocks(s, m, o, in.pos) /\ EndAfter(s, in.base - 1)
  BY <1>6 DEF SeveralThreads
<1> DEFINE n == m.numThreads
<1>8. n \in Nat /\ n > 0 /\ n <= Threads /\ Len(m.chain) \in Nat
  BY <1>7, ThreadIs, MtFields DEF Blocks
<1>9. \A i \in 0 .. n - 1 : i \in Thread /\ i \in Nat /\ (i > 0 => i - 1 \in Thread)
  BY <1>8, ThreadIs
<1>10. ASSUME NEW i \in 0 .. n - 1 PROVE Complete(s, m2, o, i) /\ Decoding(m2, i)
  <2>1. Complete(s, m, o, i) /\ Decoding(m, i) /\ i \in Thread /\ i \in Nat
    BY <1>7, <1>9 DEF Blocks
  <2>2. SameBlock(m.threads[i], m2.threads[i]) /\ (i > 0 => SameBlock(m.threads[i - 1], m2.threads[i - 1]))
    BY <1>5, <1>9
  <2>3. m.threads[i].endPos <= Len(m2.chain[m.threads[i].last])
    BY <1>2, <2>1 DEF Complete
  <2>4. Len(m2.chain) \in Nat /\ Len(m.chain) <= Len(m2.chain)
    BY <1>2, <1>8
  <2>5. Complete(s, m2, o, i)
    BY <1>8, <2>1, <2>2, <2>3, <2>4, KeepsComplete
  <2>6. QED
    BY <1>5, <2>1, <2>5
<1>11. n - 1 \in Thread
  BY <1>8, ThreadIs
<1>12. Blocks(s, m2, o, in.pos)
  <2>1. m2.threads[n - 1].last = Len(m2.chain) /\ End(m2, o, n - 1) = End(m, o, n - 1)
    BY <1>2, <1>5, <1>7, <1>11 DEF Blocks, SameBlock, End
  <2>2. ~m.isFinal => GoesOn(s, End(m, o, n - 1))
    BY <1>7 DEF Blocks
  <2>3. EndAfter(s, in.pos - 1)
    BY <1>7 DEF Blocks
  <2>4. QED
    BY <1>2, <1>8, <1>10, <2>1, <2>2, <2>3 DEF Blocks
<1>13. SeveralThreads(s, m2, f, in, "blocks", r, o)
  BY <1>7, <1>12 DEF SeveralThreads
<1>14. Accounted(m2, f, in, o)
  <2>1. Accounted(m, f, in, o)
    BY DEF Core
  <2>2. QED
    BY <1>2, <2>1, SameNodes DEF Accounted
<1>15. QED
  BY <1>2, <1>4, <1>13, <1>14 DEF Core

(* After the blocks the chain is its last node.                            *)
RestFrom(m, m2) == m2 = [Rest(m) EXCEPT !.srcThread = 0, !.srcPos = 0]

OneLeft(s, m, m2, l, pos) ==
  /\ Mt(s, m2) /\ m2.chain = <<m.chain[l]>> /\ m2.numThreads = m.numThreads
  /\ m2.isFinal = m.isFinal /\ m2.failState = m.failState
  /\ m2.srcThread = 0 /\ m2.srcPos = 0
  /\ m2.threads[0].first = 1 /\ m2.threads[0].last = 1
  /\ m2.threads[0].startPos = pos /\ m2.threads[0].endPos = pos
  /\ m2.threads[0].unpackSize = 0 /\ m2.threads[0].bufSize \in Nat

LEMMA RestIsOne ==
  ASSUME NEW s, NEW m, Mt(s, m), NEW n, n = m.numThreads, n > 0, NEW l, l = Len(m.chain),
         m.threads[n - 1].last = l, NEW m2, RestFrom(m, m2)
  PROVE  OneLeft(s, m, m2, l, m.threads[n - 1].endPos)
<1> DEFINE c == m.chain[l]
           pos == m.threads[n - 1].endPos
           nb == NewBlock(m.threads[0], 1, pos)
           ch == <<c>>
<1>1. /\ m.threads \in [Thread -> ThreadState] /\ n - 1 \in Thread /\ 0 \in Thread
      /\ l \in Nat /\ l > 0 /\ l \in 1 .. l
  <2>1. n \in 0 .. Threads /\ l \in Nat /\ l > 0
    BY MtFields
  <2>2. n - 1 \in Thread /\ l \in 1 .. l
    BY <2>1, ThreadIs
  <2>3. QED
    BY <2>1, <2>2, ThreadIs, MtFields
<1>2. pos \in Nat /\ m.threads[0] \in ThreadState
  BY <1>1, ThreadFields
<1>3. BeginsAt(nb, 1, pos)
  <2> HIDE DEF nb, pos
  <2> DEFINE th == m.threads[0]
  <2>1. th \in ThreadState /\ nb = NewBlock(th, 1, pos)
    BY <1>2 DEF nb
  <2> HIDE DEF th
  <2>2. QED
    BY <1>2, <2>1, NewBlockBegins
<1> HIDE DEF nb
<1>4. m2 = [[m EXCEPT !.chain = ch, !.memTotal = Minus(@, (Len(m.chain) - 1) * NodeSize),
                      !.threads[0] = nb] EXCEPT !.srcThread = 0, !.srcPos = 0]
  BY Zenon DEF RestFrom, Rest, nb
<1> HIDE DEF ch, pos, c
<1>5. /\ m2.chain = ch /\ m2.isFinal = m.isFinal /\ m2.failState = m.failState
      /\ m2.cur = m.cur /\ m2.curPos = m.curPos /\ m2.srcThread = 0
      /\ m2.srcPos = 0 /\ m2.numThreads = m.numThreads
      /\ m2.threads = [m.threads EXCEPT ![0] = nb] /\ WithFields(m2)
  BY <1>4 DEF Mt, WithFields
<1>6. Replaces(m2.threads, m.threads, 0, nb)
  <2>1. nb \in ThreadState
    BY <1>3 DEF BeginsAt
  <2>2. QED
    BY <1>1, <1>5, <2>1, OneChanged, Zenon
<1>7. m2.threads[0] = nb /\ m2.threads \in [Thread -> ThreadState]
  BY <1>6 DEF Replaces
<1>8. Mt(s, m2)
  <2>1. c \in Seq(1 .. Len(s)) /\ Len(c) <= NodeSize
    BY <1>1, MtFields DEF c
  <2>2. ch \in Seq(Seq(1 .. Len(s))) /\ Len(ch) = 1 /\ ch[1] = c
    BY <2>1 DEF ch
  <2>3. /\ m2.chain \in Seq(Seq(1 .. Len(s))) /\ Len(m2.chain) > 0
        /\ \A i \in 1 .. Len(m2.chain) : Len(m2.chain[i]) <= NodeSize
    BY <1>5, <2>1, <2>2
  <2>4. /\ m2.numThreads \in 0 .. Threads /\ m2.isFinal \in BOOLEAN /\ m2.failState \in BOOLEAN
        /\ m2.cur \in Nat /\ m2.curPos \in Nat /\ m2.srcThread \in Nat /\ m2.srcPos \in Nat
    <3>1. /\ m.numThreads \in 0 .. Threads /\ m.isFinal \in BOOLEAN /\ m.failState \in BOOLEAN
          /\ m.cur \in Nat /\ m.curPos \in Nat
      BY MtFields
    <3>2. 0 \in Nat
      OBVIOUS
    <3>3. QED
      BY <1>5, <3>1, <3>2, Zenon
  <2>5. QED
    BY <1>5, <1>7, <2>3, <2>4, MtOf, Zenon
<1>9. nb.bufSize \in Nat
  BY <1>3, ThreadFields DEF BeginsAt
<1>10. QED
  BY <1>3, <1>5, <1>7, <1>8, <1>9 DEF OneLeft, BeginsAt, ch, pos, c

LEMMA OneLeftAccounted ==
  ASSUME NEW s, NEW m, Mt(s, m), NEW f, f.stage = "decomp", ~m.failState, NEW in, Buffer(s, in),
         NEW o \in Nat, Accounted(m, f, in, o), NEW l, l = Len(m.chain),
         NEW m2, NEW pos, OneLeft(s, m, m2, l, pos),
         NEW g, g.stage \in {"decomp", "mtWrite"}, g.overlap = f.overlap, g.hash = f.hash,
         Len(s) \in Nat
  PROVE  Accounted(m2, g, in, At(o, l)) /\ At(o, l) \in 0 .. Len(s)
<1> DEFINE a == At(o, l)
           c == m.chain[l]
           h == Len(c)
<1>1. a \in Nat /\ h \in Nat /\ Tip(m, o) = a + h
  BY TipIs DEF Tip
<1>2. l \in Nat /\ l > 0 /\ l \in 1 .. l
  <2>1. l \in Nat /\ l > 0
    BY MtFields
  <2>2. QED
    BY <2>1
<1>3. Nodes(m, o) /\ Tip(m, o) = in.pos /\ f.hash = <<>> /\ f.overlap = <<>>
  BY DEF Accounted
<1>4. in.pos \in Nat /\ in.pos <= Len(s)
  BY DEF Buffer
<1>5. a \in 0 .. Len(s)
  <2> HIDE DEF a, h
  <2>1. QED
    BY <1>1, <1>3, <1>4
<1>6. c = Run(a, h)
  BY <1>2, <1>3 DEF Nodes
<1>7. m2.chain = <<c>> /\ ~m2.failState
  BY DEF OneLeft
<1> HIDE DEF c, h, a
<1>8. Len(m2.chain) = 1 /\ m2.chain[1] = c
  BY <1>7
<1>9. At(a, 1) = a
  BY <1>1, AtFirst
<1>10. Nodes(m2, a)
  <2>1. \A i \in 1 .. 1 : i = 1 /\ ~(i < 1)
    OBVIOUS
  <2>2. h = Len(c)
    BY DEF h
  <2>3. QED
    BY <1>6, <1>8, <1>9, <2>1, <2>2 DEF Nodes
<1>11. Tip(m2, a) = in.pos
  <2>1. Tip(m2, a) = At(a, 1) + Len(c)
    BY <1>8 DEF Tip
  <2>2. h = Len(c)
    BY DEF h
  <2>3. QED
    BY <1>1, <1>3, <1>9, <2>1, <2>2
<1>12. Accounted(m2, g, in, a)
  <2>1. UpTo(<<>>, in.pos)
    BY <1>4, UpToNothing
  <2>2. QED
    BY <1>3, <1>10, <1>11, <2>1 DEF Accounted
<1>13. QED
  BY <1>5, <1>12 DEF a

(* What the last node holds after the blocks begins the next one.          *)
LEMMA CoreBlocksDone ==
  ASSUME NEW s \in Streams, NEW m, Mt(s, m), NEW f, f.stage = "decomp", ~m.failState,
         NEW in, Buffer(s, in), NEW o \in Nat, NEW r, Core(s, m, f, in, "blocks", r, o),
         NEW m2, RestFrom(m, m2),
         NEW g, g.stage = "mtWrite", g.overlap = f.overlap, g.hash = f.hash, NEW r2, NEW p,
         p \notin {"error"}
  PROVE  /\ Mt(s, m2) /\ ~m2.failState /\ \E a \in 0 .. Len(s) : Core(s, m2, g, in, p, r2, a)
         /\ \E a \in 0 .. Len(s) : Core(s, m2, f, in, "error", r2, a)
<1> DEFINE n == m.numThreads
           l == Len(m.chain)
           a == At(o, l)
           e == End(m, o, n - 1)
           v == m.threads[n - 1].endPos
<1>1. Blocks(s, m, o, in.pos) /\ EndAfter(s, in.base - 1) /\ Accounted(m, f, in, o)
  BY DEF Core, SeveralThreads
<1>2. n > 0 /\ m.threads[n - 1].last = l
  BY <1>1 DEF Blocks
<1>3. OneLeft(s, m, m2, l, v)
  <2> HIDE DEF v
  <2>1. n = m.numThreads /\ l = Len(m.chain) /\ v = m.threads[n - 1].endPos
    BY DEF v
  <2> HIDE DEF n, l
  <2>2. OneLeft(s, m, m2, l, m.threads[n - 1].endPos)
    BY <1>2, <2>1, RestIsOne
  <2>3. QED
    BY <2>1, <2>2
<1>4. /\ \A x : x.stage \in {"decomp", "mtWrite"} /\ x.overlap = f.overlap /\ x.hash = f.hash
                   => Accounted(m2, x, in, a)
      /\ a \in 0 .. Len(s)
  <2>1. Len(s) \in Nat /\ l = Len(m.chain)
    BY StreamIs
  <2> HIDE DEF v, l
  <2>2. ASSUME NEW x, x.stage \in {"decomp", "mtWrite"}, x.overlap = f.overlap, x.hash = f.hash
        PROVE  Accounted(m2, x, in, At(o, l)) /\ At(o, l) \in 0 .. Len(s)
    BY <1>1, <1>3, <2>1, <2>2, OneLeftAccounted
  <2>3. f.stage \in {"decomp", "mtWrite"}
    OBVIOUS
  <2>4. At(o, l) \in 0 .. Len(s)
    BY <2>2, <2>3
  <2>5. QED
    BY <2>2, <2>4
<1>5. Accounted(m2, g, in, a) /\ Accounted(m2, f, in, a)
  BY <1>4
<1>6. /\ Mt(s, m2) /\ m2.chain = <<m.chain[l]>> /\ m2.numThreads = n
      /\ m2.isFinal = m.isFinal /\ m2.failState = m.failState
      /\ m2.srcThread = 0 /\ m2.srcPos = 0
      /\ m2.threads[0].first = 1 /\ m2.threads[0].last = 1
      /\ m2.threads[0].startPos = v /\ m2.threads[0].endPos = v
      /\ m2.threads[0].unpackSize = 0 /\ m2.threads[0].bufSize \in Nat
  BY <1>3 DEF OneLeft
<1>7. a \in Nat /\ v \in Nat /\ n \in Nat
  <2>1. a \in Nat
    BY TipIs
  <2>2. n \in Nat /\ n - 1 \in Thread
    BY <1>2, MtFields, ThreadIs
  <2>3. QED
    BY <2>1, <2>2, MtFields, ThreadFields
<1>8. At(a, 1) = a /\ e = a + v
  <2>1. e = a + v
    BY <1>2 DEF End
  <2> HIDE DEF a
  <2>2. QED
    BY <1>7, <2>1, AtFirst
<1>9. Begin(m2, a, 0) = e /\ End(m2, a, 0) = e
  BY <1>6, <1>8 DEF Begin, End
<1>10. ~m2.isFinal => InProgress(s, m2, a, 0)
  <2> SUFFICES ASSUME ~m2.isFinal PROVE InProgress(s, m2, a, 0)
    OBVIOUS
  <2>1. GoesOn(s, e)
    BY <1>1, <1>6 DEF Blocks
  <2>2. LeadsOff(s, e) /\ BeginsChunk(s, e + 1) /\ EndAfter(s, e)
    BY <2>1 DEF GoesOn
  <2>3. e \in Nat
    BY <1>7, <1>8
  <2> HIDE DEF e, a, v
  <2>4. Len(m2.chain) = 1
    BY <1>6
  <2>5. Block(s, m2, a, 0)
    <3>1. Independent(s, e, e)
      <4>1. ~(e > e + 1) /\ \A q \in e + 2 .. e : FALSE
        BY <2>3
      <4>2. QED
        BY <4>1 DEF Independent
    <3>2. m2.threads[0].last \in 1 .. Len(m2.chain) /\ m2.threads[0].first \in 1 .. m2.threads[0].last
      BY <1>6, <2>4
    <3>3. e <= e
      BY <2>3
    <3>4. QED
      BY <1>9, <3>1, <3>2, <3>3 DEF Block
  <2>6. 0 < Threads /\ \A t \in 0 .. 0 - 1 : FALSE
    BY ThreadIs
  <2>7. m2.threads[0].last = Len(m2.chain) /\ ~(0 > 0)
    BY <1>6, <2>4
  <2>8. QED
    BY <1>6, <1>9, <2>2, <2>5, <2>6, <2>7 DEF InProgress
<1>11. Writing(s, m2, a, in.pos)
  <2>1. Len(m2.chain) = 1
    BY <1>6
  <2>2. m2.srcThread < m2.numThreads /\ m2.srcPos <= m2.threads[m2.srcThread].bufSize
    BY <1>2, <1>6, <1>7
  <2>3. EndAfter(s, in.pos - 1)
    BY <1>1 DEF Blocks
  <2>4. QED
    BY <1>10, <2>1, <2>2, <2>3 DEF Writing
<1>12. SeveralThreads(s, m2, g, in, p, r2, a)
  BY <1>1, <1>11 DEF SeveralThreads
<1>13. Core(s, m2, g, in, p, r2, a) /\ Core(s, m2, f, in, "error", r2, a)
  BY <1>5, <1>6, <1>12 DEF Core
<1>14. QED
  BY <1>4, <1>6, <1>13

(* Blocks are written.                                                     *)
SourceAt(m, m2, t, p) == m2 = [m EXCEPT !.srcThread = t, !.srcPos = p]

LEMMA SourceIs ==
  ASSUME NEW s, NEW m, Mt(s, m), NEW t \in Nat, NEW p \in Nat, NEW m2, SourceAt(m, m2, t, p)
  PROVE  /\ Mt(s, m2) /\ m2.chain = m.chain /\ m2.threads = m.threads
         /\ m2.numThreads = m.numThreads /\ m2.isFinal = m.isFinal /\ m2.failState = m.failState
         /\ m2.srcThread = t /\ m2.srcPos = p
<1>1. /\ m2.chain = m.chain /\ m2.threads = m.threads
      /\ m2.numThreads = m.numThreads /\ m2.isFinal = m.isFinal /\ m2.failState = m.failState
      /\ m2.srcThread = t /\ m2.srcPos = p /\ m2.cur = m.cur /\ m2.curPos = m.curPos
      /\ WithFields(m2)
  BY DEF SourceAt, Mt, WithFields
<1>2. /\ m.chain \in Seq(Seq(1 .. Len(s))) /\ Len(m.chain) > 0
      /\ \A i \in 1 .. Len(m.chain) : Len(m.chain[i]) <= NodeSize
      /\ m.threads \in [Thread -> ThreadState] /\ m.numThreads \in 0 .. Threads
      /\ m.isFinal \in BOOLEAN /\ m.failState \in BOOLEAN /\ m.cur \in Nat /\ m.curPos \in Nat
  BY MtFields
<1>3. /\ m2.chain \in Seq(Seq(1 .. Len(s))) /\ Len(m2.chain) > 0
      /\ \A i \in 1 .. Len(m2.chain) : Len(m2.chain[i]) <= NodeSize
      /\ m2.threads \in [Thread -> ThreadState] /\ m2.numThreads \in 0 .. Threads
      /\ m2.isFinal \in BOOLEAN /\ m2.failState \in BOOLEAN /\ m2.cur \in Nat /\ m2.curPos \in Nat
      /\ m2.srcThread \in Nat /\ m2.srcPos \in Nat
  BY <1>1, <1>2, Zenon
<1>4. Mt(s, m2)
  BY <1>1, <1>3, MtOf, Zenon
<1>5. QED
  BY <1>1, <1>4

LEMMA WritingAt ==
  ASSUME NEW s, NEW m, NEW f, NEW in, NEW r, NEW o, Core(s, m, f, in, "write", r, o),
         f.stage = "mtWrite", ~m.failState
  PROVE  Writing(s, m, o, in.pos) /\ EndAfter(s, in.base - 1) /\ Accounted(m, f, in, o)
  BY DEF Core, SeveralThreads

LEMMA SourceInRange ==
  ASSUME NEW s, NEW m, Mt(s, m), NEW o, NEW pos, Writing(s, m, o, pos)
  PROVE  /\ m.srcThread \in Thread /\ m.threads[m.srcThread] \in ThreadState
         /\ m.threads[m.srcThread].bufSize \in Nat /\ m.srcPos \in Nat
         /\ m.srcPos <= m.threads[m.srcThread].bufSize /\ m.numThreads \in 0 .. Threads
         /\ m.threads[m.srcThread].outBuf \in Seq(Nat) /\ m.srcThread < m.numThreads
<1>1. m.srcThread \in Nat /\ m.numThreads \in 0 .. Threads /\ m.srcThread < m.numThreads
      /\ m.srcPos \in Nat /\ m.srcPos <= m.threads[m.srcThread].bufSize
  BY MtFields DEF Writing
<1>2. m.srcThread \in Thread
  BY <1>1, ThreadIs
<1>3. m.threads[m.srcThread] \in ThreadState
  BY <1>2, MtFields
<1> DEFINE th == m.threads[m.srcThread]
<1>4. th \in ThreadState
  BY <1>3
<1> HIDE DEF th
<1>5. th.bufSize \in Nat /\ th.outBuf \in Seq(Nat)
  BY <1>4, ThreadFields
<1>6. QED
  BY <1>1, <1>2, <1>3, <1>5 DEF th

(* Some of a block, or all of one that is not the last.                    *)
LEMMA CoreWritesMore ==
  ASSUME NEW s, NEW m, Mt(s, m), NEW f, NEW in, NEW r, NEW o, Core(s, m, f, in, "write", r, o),
         f.stage = "mtWrite", ~m.failState,
         NEW t \in Nat, NEW p \in Nat, t < m.numThreads, p <= m.threads[t].bufSize,
         NEW m2, SourceAt(m, m2, t, p), NEW q, q \in {"write", "hash"}
  PROVE  Mt(s, m2) /\ ~m2.failState /\ Core(s, m2, f, in, q, r, o)
<1>1. /\ Mt(s, m2) /\ m2.chain = m.chain /\ m2.threads = m.threads
      /\ m2.numThreads = m.numThreads /\ m2.isFinal = m.isFinal /\ m2.failState = m.failState
      /\ m2.srcThread = t /\ m2.srcPos = p
  BY SourceIs
<1>2. Writing(s, m, o, in.pos) /\ EndAfter(s, in.base - 1) /\ Accounted(m, f, in, o)
  BY WritingAt
<1>3. NoLess(m, m2) /\ SameBlocks(m, m2)
  BY <1>1, SameIsNoLess, SameIsSame
<1>4. ~m2.isFinal => InProgress(s, m2, o, 0)
  <2>1. ~m.isFinal => InProgress(s, m, o, 0)
    BY <1>2 DEF Writing
  <2>2. 0 \in Nat
    OBVIOUS
  <2>3. InProgress(s, m, o, 0) => InProgress(s, m2, o, 0)
    BY <1>3, <2>2, KeepsInProgress
  <2>4. QED
    BY <1>1, <2>1, <2>3
<1>5. Writing(s, m2, o, in.pos)
  <2>1. Len(m2.chain) = 1 /\ EndAfter(s, in.pos - 1)
    BY <1>1, <1>2 DEF Writing
  <2>2. m2.srcThread < m2.numThreads /\ m2.srcPos <= m2.threads[m2.srcThread].bufSize
    BY <1>1
  <2>3. QED
    BY <1>4, <2>1, <2>2 DEF Writing
<1>6. SeveralThreads(s, m2, f, in, q, r, o)
  BY <1>2, <1>5 DEF SeveralThreads
<1>7. Accounted(m2, f, in, o)
  BY <1>1, <1>2, SameNodes DEF Accounted
<1>8. QED
  BY <1>1, <1>6, <1>7 DEF Core

(* The end of the last one: the next block is parsed, or there is none.    *)
LEMMA CoreWritesLast ==
  ASSUME NEW s, NEW m, Mt(s, m), NEW f, NEW in, Buffer(s, in), NEW r, NEW o,
         Core(s, m, f, in, "write", r, o),
         f.stage = "mtWrite", ~m.failState, NEW t \in Nat, NEW p \in Nat,
         NEW m1, SourceAt(m, m1, t, p), NEW m2, m2 = FreeOutputBuffers(m1),
         NEW g, g.overlap = f.overlap, g.hash = f.hash,
         IF m.isFinal THEN g.stage \in {"hash", "finished"} ELSE g.stage = "decomp"
  PROVE  Mt(s, m2) /\ ~m2.failState /\ Core(s, m2, g, in, "hash", r, o)
<1>1. /\ Mt(s, m1) /\ m1.chain = m.chain /\ m1.threads = m.threads
      /\ m1.numThreads = m.numThreads /\ m1.isFinal = m.isFinal /\ m1.failState = m.failState
  BY SourceIs
<1>2. /\ Mt(s, m2) /\ m2.chain = m1.chain /\ m2.numThreads = 0 /\ m2.isFinal = m1.isFinal
      /\ m2.failState = m1.failState /\ SameBlocks(m1, m2)
  BY <1>1, FreedIs
<1>3. Writing(s, m, o, in.pos) /\ EndAfter(s, in.base - 1) /\ Accounted(m, f, in, o)
  BY WritingAt
<1>4. m2.chain = m.chain /\ SameBlocks(m, m2) /\ NoLess(m, m2)
  BY <1>1, <1>2, SameIsNoLess DEF SameBlocks
<1>5. Accounted(m2, g, in, o)
  <2>1. f.hash = <<>> /\ f.overlap = <<>> /\ Nodes(m, o) /\ Tip(m, o) = in.pos
    BY <1>3 DEF Accounted
  <2>2. in.pos \in Nat
    BY DEF Buffer
  <2>3. QED
    BY <1>1, <1>2, <1>4, <2>1, <2>2, UpToNothing, SameNodes DEF Accounted
<1>6. SeveralThreads(s, m2, g, in, "hash", r, o)
  <2>1. CASE m.isFinal
    BY <2>1 DEF SeveralThreads
  <2>2. CASE ~m.isFinal
    <3>1. InProgress(s, m, o, 0) /\ EndAfter(s, in.pos - 1)
      BY <1>3, <2>2 DEF Writing
    <3>2. InProgress(s, m2, o, 0)
      BY <1>4, <3>1, KeepsInProgress
    <3>3. Parsing(s, m2, o, "hash", r, in.pos)
      BY <1>2, <3>1, <3>2 DEF Parsing
    <3>4. QED
      BY <1>3, <2>2, <3>3 DEF SeveralThreads
  <2>3. QED
    BY <2>1, <2>2
<1>7. QED
  BY <1>1, <1>2, <1>5, <1>6 DEF Core

-----------------------------------------------------------------------------
(* One thread, which decodes what is in the chain first.                   *)
SwitchedFrom(m, m2) ==
  m2 = [FreeOutputBuffers(m) EXCEPT !.cur = m.threads[0].first,
                                    !.curPos = m.threads[0].startPos, !.failState = TRUE]

(* m with decoder d goes on from the chain.                                *)
Going(s, m, d, f, in, o) ==
  /\ Mt(s, m) /\ m.failState /\ m.chain[1] # <<>> /\ d \in DecState /\ f.stage # "mtWrite"
  /\ Accounted(m, f, in, o) /\ FromChain(s, m, d, f.stage, in, o)

LEMMA GoesOnAlone ==
  ASSUME NEW s, NEW m, Mt(s, m), NEW f, Own(s, f), NEW in, NEW r, NEW o,
         Core(s, m, f, in, "failed", r, o), m.failState, m.chain[1] # <<>>
  PROVE  Going(s, m, f.dec, f, in, o)
<1>1. f.dec \in DecState
  BY DEF Own
<1>2. Accounted(m, f, in, o) /\ OneThread(s, m, f, in, o)
  BY DEF Core
<1>3. f.stage # "mtWrite" /\ FromChain(s, m, f.dec, f.stage, in, o)
  BY <1>2 DEF OneThread
<1>4. QED
  BY <1>1, <1>2, <1>3 DEF Going

LEMMA SwitchGoes ==
  ASSUME NEW s, NEW m, Mt(s, m), NEW f, f.stage = "decomp", NEW in, NEW r, NEW o,
         Core(s, m, f, in, "failed", r, o), ~m.failState, NEW m2, SwitchedFrom(m, m2)
  PROVE  Going(s, m2, InitDecoder, f, in, o)
<1> DEFINE x == FreeOutputBuffers(m)
           th == m.threads[0]
<1>1. /\ Mt(s, x) /\ x.chain = m.chain /\ x.numThreads = 0
  BY FreedIs
<1>2. th.first \in Nat /\ th.startPos \in Nat
  <2>1. th \in ThreadState
    BY ThreadIs, MtFields
  <2>2. QED
    BY <2>1, ThreadFields
<1>3. m2 = [x EXCEPT !.cur = th.first, !.curPos = th.startPos, !.failState = TRUE]
  BY DEF SwitchedFrom
<1> HIDE DEF x, th
<1>4. /\ m2.chain = x.chain /\ m2.threads = x.threads /\ m2.numThreads = x.numThreads
      /\ m2.isFinal = x.isFinal /\ m2.failState = TRUE /\ m2.srcThread = x.srcThread
      /\ m2.srcPos = x.srcPos /\ m2.cur = th.first /\ m2.curPos = th.startPos /\ WithFields(m2)
  BY <1>1, <1>3 DEF Mt, WithFields
<1>5. Mt(s, m2)
  <2>1. /\ x.chain \in Seq(Seq(1 .. Len(s))) /\ Len(x.chain) > 0
        /\ \A i \in 1 .. Len(x.chain) : Len(x.chain[i]) <= NodeSize
        /\ x.threads \in [Thread -> ThreadState] /\ x.numThreads \in 0 .. Threads
        /\ x.isFinal \in BOOLEAN /\ x.srcThread \in Nat /\ x.srcPos \in Nat
    BY <1>1, MtFields
  <2>2. TRUE \in BOOLEAN
    OBVIOUS
  <2>3. /\ m2.chain \in Seq(Seq(1 .. Len(s))) /\ Len(m2.chain) > 0
        /\ \A i \in 1 .. Len(m2.chain) : Len(m2.chain[i]) <= NodeSize
        /\ m2.threads \in [Thread -> ThreadState] /\ m2.numThreads \in 0 .. Threads
        /\ m2.isFinal \in BOOLEAN /\ m2.srcThread \in Nat /\ m2.srcPos \in Nat
        /\ m2.failState \in BOOLEAN /\ m2.cur \in Nat /\ m2.curPos \in Nat
    BY <1>2, <1>4, <2>1, <2>2, Zenon
  <2>4. QED
    BY <1>4, <2>3, MtOf, Zenon
<1>6. FailPending(s, m, in.pos) /\ Accounted(m, f, in, o)
  BY DEF Core, SeveralThreads
<1>7. m2.chain = m.chain /\ m2.failState
  BY <1>1, <1>4
<1>8. Accounted(m2, f, in, o) /\ m2.chain[1] # <<>>
  BY <1>6, <1>7, SameNodes DEF Accounted, FailPending
<1>9. InitDecoder.state = "ok" /\ InitDecoder \in DecState
  BY DEF InitDecoder, DecState
<1>10. FromChain(s, m2, InitDecoder, f.stage, in, o)
  <2>1. m2.cur \in 1 .. Len(m2.chain) /\ EndAfter(s, in.pos - 1)
    BY <1>4, <1>6, <1>7 DEF FailPending, th
  <2>2. QED
    BY <1>9, <2>1 DEF FromChain
<1>11. QED
  BY <1>5, <1>7, <1>8, <1>9, <1>10 DEF Going

LEMMA GoingError ==
  ASSUME NEW s, NEW m, NEW d, NEW f, NEW in, NEW o, Going(s, m, d, f, in, o), NEW r
  PROVE  Core(s, m, f, in, "error", r, o)
  BY DEF Going, Core

(* What UF2_decompressInput gives that is not an error.                    *)
Input(s, f, d, bytes, space) ==
  IF f.stage = "decomp" THEN Decode(s, d, bytes, space)
  ELSE {[dec |-> d, used |-> 0, out |-> <<>>, res |-> "ok"]}

After(f, z) == IF z.res = "finished" THEN AfterEnd ELSE f.stage

Given1(s, f, bytes, space, z) ==
  /\ z.used \in 0 .. Len(bytes) /\ z.dec \in DecState
  /\ z.out \in Seq(Nat) /\ Len(z.out) <= space /\ Len(z.out) \in Nat
  /\ f.stage # "decomp" => z.used = 0 /\ z.res # "finished"
  /\ f.stage = "decomp" /\ z.res # "finished" => z.dec.state = "ok"
  /\ z.res = "finished" => z.used > 0 /\ s[bytes[z.used]].kind = "end"

LEMMA InputGives ==
  ASSUME NEW s \in Streams, NEW f, NEW d \in DecState, f.stage = "decomp" => d.state = "ok",
         NEW bytes \in Seq(1 .. Len(s)),
         NEW space \in Nat, NEW z \in Input(s, f, d, bytes, space), z.res # "corrupt"
  PROVE  Given1(s, f, bytes, space, z)
<1>1. CASE f.stage = "decomp"
  <2>1. z \in Decode(s, d, bytes, space) /\ s \in Seq(Byte)
    BY <1>1, StreamIs DEF Input
  <2>2. /\ z.used \in 0 .. Len(bytes)
        /\ z.dec \in DecState
        /\ z.out \in Seq(Nat) /\ Len(z.out) <= space
        /\ z.res \in {"ok", "finished", "corrupt"}
        /\ z.res = "ok" => z.dec.state = "ok"
        /\ d.state = "ok" /\ z.res = "finished" => z.used > 0 /\ s[bytes[z.used]].kind = "end"
    BY <2>1, DecodeType
  <2>3. Len(z.out) \in Nat
    BY <2>2
  <2>4. QED
    BY <1>1, <2>2, <2>3 DEF Given1
<1>2. CASE f.stage # "decomp"
  <2>1. z = [dec |-> d, used |-> 0, out |-> <<>>, res |-> "ok"]
    BY <1>2 DEF Input
  <2>2. z.used = 0 /\ z.dec = d /\ z.out = <<>> /\ z.res = "ok"
    BY <2>1
  <2>3. Len(bytes) \in Nat /\ <<>> \in Seq(Nat) /\ Len(<<>>) = 0
    OBVIOUS
  <2>4. QED
    BY <1>2, <2>2, <2>3 DEF Given1
<1>3. QED
  BY <1>1, <1>2

LEMMA AfterIs ==
  ASSUME NEW s, NEW f, Own(s, f), f.stage # "mtWrite", NEW z
  PROVE  After(f, z) \in {"decomp", "hash", "finished"}
  BY DEF After, AfterEnd, Own

(* The node that is decoded.                                               *)
NodeAt(s, m, o, i, node, a) ==
  /\ i \in Nat /\ i >= 1 /\ i <= Len(m.chain) /\ i \in 1 .. Len(m.chain) /\ Len(m.chain) \in Nat
  /\ node \in Seq(1 .. Len(s)) /\ Len(node) \in Nat /\ a \in Nat
  /\ node = Run(a, Len(node)) /\ a = At(o, i) /\ (i # Len(m.chain) => Len(node) = NodeSize)
  /\ m.curPos \in Nat

LEMMA NodeIs ==
  ASSUME NEW s, NEW m, NEW d, NEW f, NEW in, NEW o \in Nat, Going(s, m, d, f, in, o),
         NEW i, i = m.cur, NEW node, node = m.chain[i], NEW a, a = At(o, i)
  PROVE  NodeAt(s, m, o, i, node, a)
<1>1. Mt(s, m) /\ Nodes(m, o) /\ i \in 1 .. Len(m.chain)
  BY DEF Going, Accounted, FromChain
<1>2. Len(m.chain) \in Nat /\ node \in Seq(1 .. Len(s)) /\ Len(node) \in Nat /\ m.curPos \in Nat
  BY <1>1, MtFields
<1>3. i \in Nat /\ i >= 1 /\ i <= Len(m.chain) /\ (i # Len(m.chain) => i < Len(m.chain))
  BY <1>1, <1>2
<1>4. a \in Nat
  BY <1>3, AtNat
<1>5. node = Run(a, Len(node)) /\ (i # Len(m.chain) => Len(node) = NodeSize)
  BY <1>1, <1>3 DEF Nodes
<1>6. QED
  BY <1>1, <1>2, <1>3, <1>4, <1>5 DEF NodeAt

(* Where the decoder is then.                                              *)
GoodPlace(s, m, f, in, o, st, y, z) ==
  /\ st = "decomp" => f.stage = "decomp" /\ z.dec.state = "ok" /\ EndAfter(s, in.pos - 1)
  /\ st = "hash" => y >= Tip(m, o) /\ f.stage \in {"decomp", "hash"}
  /\ f.stage = "decomp" => Tip(m, o) = in.pos
  /\ f.stage = "hash" => y >= Tip(m, o)

LEMMA EndHere ==
  ASSUME NEW s, NEW node \in Seq(1 .. Len(s)), NEW a \in Nat, Len(node) \in Nat,
         node = Run(a, Len(node)), NEW c \in Nat, NEW u \in Nat, u > 0,
         u <= Len(SubSeq(node, c + 1, Len(node))),
         s[SubSeq(node, c + 1, Len(node))[u]].kind = "end", NEW p \in Nat, EndAfter(s, p - 1)
  PROVE  a + (c + u) >= p
<1> DEFINE n == Len(node)
           bytes == SubSeq(node, c + 1, n)
<1>1. Len(bytes) = (IF c <= n THEN n - c ELSE 0) /\ n \in Nat
  BY RestIs
<1>2. c + u <= n /\ c + u \in 1 .. n
  <2> HIDE DEF n, bytes
  <2>1. u <= Len(bytes)
    BY DEF n, bytes
  <2>2. QED
    BY <1>1, <2>1
<1>3. bytes[u] = node[c + u]
  <2>1. node \in Seq(Nat)
    <3>1. \A x \in 1 .. Len(s) : x \in Nat
      OBVIOUS
    <3>2. QED
      BY <3>1
  <2>2. u \in 1 .. (n - (c + 1) + 1) /\ (c + 1) + u - 1 = c + u
    <3> HIDE DEF n
    <3>1. QED
      BY <1>1, <1>2
  <2>3. QED
    BY <2>1, <2>2
<1>4. node[c + u] = a + (c + u)
  <2> HIDE DEF n
  <2> DEFINE q == c + u
  <2>1. q \in 1 .. n
    BY <1>2
  <2>2. node[q] = Run(a, n)[q]
    BY DEF n
  <2> HIDE DEF q
  <2>3. Run(a, n)[q] = a + q
    BY <2>1 DEF Run
  <2>4. QED
    BY <2>2, <2>3 DEF q
<1>5. node[c + u] \in 1 .. Len(s)
  BY <1>2
<1> DEFINE y == a + (c + u)
<1>6. y \in 1 .. Len(s) /\ s[y].kind = "end"
  BY <1>3, <1>4, <1>5
<1>7. y > p - 1 /\ y \in Nat
  BY <1>6 DEF EndAfter
<1> HIDE DEF y
<1>8. y >= p
  BY <1>7
<1>9. QED
  BY <1>8 DEF y

LEMMA PlaceIs ==
  ASSUME NEW s \in Streams, NEW m, NEW d, NEW f, Own(s, f), NEW in, Buffer(s, in), NEW o \in Nat,
         Going(s, m, d, f, in, o),
         NEW i, i = m.cur, NEW node, node = m.chain[i], NEW a, a = At(o, i),
         NEW space \in Nat,
         NEW z \in Input(s, f, d, SubSeq(node, m.curPos + 1, Len(node)), space), z.res # "corrupt"
  PROVE  /\ Given1(s, f, SubSeq(node, m.curPos + 1, Len(node)), space, z)
         /\ z.used \in Nat
         /\ GoodPlace(s, m, f, in, o, After(f, z), a + (m.curPos + z.used), z)
<1> DEFINE c == m.curPos
           bytes == SubSeq(node, c + 1, Len(node))
           y == a + (c + z.used)
           st == After(f, z)
<1>1. NodeAt(s, m, o, i, node, a)
  BY NodeIs
<1>2. node \in Seq(1 .. Len(s)) /\ c \in Nat /\ a \in Nat /\ node = Run(a, Len(node)) /\ a = At(o, i)
      /\ Len(node) \in Nat
  BY <1>1 DEF NodeAt
<1>3. bytes \in Seq(1 .. Len(s))
  BY <1>2, RestIs
<1>4. /\ d \in DecState /\ f.stage # "mtWrite" /\ m.chain[1] # <<>> /\ Accounted(m, f, in, o)
      /\ FromChain(s, m, d, f.stage, in, o)
  BY DEF Going
<1>5. /\ f.stage = "decomp" => d.state = "ok" /\ EndAfter(s, in.pos - 1)
      /\ f.stage = "hash" => a + c >= Tip(m, o)
  BY <1>2, <1>4 DEF FromChain
<1>6. Given1(s, f, bytes, space, z)
  <2>1. z \in Input(s, f, d, bytes, space)
    OBVIOUS
  <2> HIDE DEF bytes
  <2>2. QED
    BY <1>3, <1>4, <1>5, <2>1, InputGives
<1>7. /\ z.used \in 0 .. Len(bytes) /\ Len(bytes) \in Nat
      /\ f.stage # "decomp" => z.used = 0 /\ z.res # "finished"
      /\ f.stage = "decomp" /\ z.res # "finished" => z.dec.state = "ok"
      /\ z.res = "finished" => z.used > 0 /\ s[bytes[z.used]].kind = "end"
  BY <1>3, <1>6, SMTT(30) DEF Given1
<1>8. z.used \in Nat /\ z.used <= Len(bytes)
  <2> HIDE DEF bytes
  <2>1. QED
    BY <1>7
<1>9. f.stage = "decomp" => Tip(m, o) = in.pos
  BY <1>4 DEF Accounted
<1>10. in.pos \in Nat
  BY DEF Buffer
<1>11. f.stage = "hash" => y >= Tip(m, o)
  <2> SUFFICES ASSUME f.stage = "hash" PROVE y >= Tip(m, o)
    OBVIOUS
  <2>1. z.used = 0 /\ a + c >= Tip(m, o)
    BY <1>5, <1>7
  <2> HIDE DEF c
  <2>2. QED
    BY <1>2, <2>1
<1>12. st = "hash" => y >= Tip(m, o) /\ f.stage \in {"decomp", "hash"}
  <2>1. CASE z.res = "finished"
    <3>1. f.stage = "decomp"
      BY <1>7, <2>1
    <3>2. y >= in.pos
      <4>1. EndAfter(s, in.pos - 1) /\ z.used > 0 /\ s[SubSeq(node, c + 1, Len(node))[z.used]].kind = "end"
        BY <1>5, <1>7, <2>1, <3>1
      <4>2. z.used <= Len(SubSeq(node, c + 1, Len(node)))
        BY <1>8
      <4> DEFINE u == z.used
                 p == in.pos
      <4> HIDE DEF u, p, c, bytes
      <4>3. /\ c \in Nat /\ u \in Nat /\ u > 0 /\ p \in Nat /\ EndAfter(s, p - 1)
            /\ u <= Len(SubSeq(node, c + 1, Len(node)))
            /\ s[SubSeq(node, c + 1, Len(node))[u]].kind = "end"
        BY <1>2, <1>8, <1>10, <4>1, <4>2 DEF u, p
      <4>4. a + (c + u) >= p
        BY <1>2, <4>3, EndHere
      <4>5. QED
        BY <4>4 DEF u, p
    <3>3. QED
      BY <1>9, <3>1, <3>2
  <2>2. CASE z.res # "finished"
    <3>1. st = f.stage
      BY <2>2 DEF After
    <3>2. QED
      BY <1>11, <3>1
  <2>3. QED
    BY <2>1, <2>2
<1>13. st = "decomp" => f.stage = "decomp" /\ z.dec.state = "ok" /\ EndAfter(s, in.pos - 1)
  <2> SUFFICES ASSUME st = "decomp" PROVE f.stage = "decomp" /\ z.dec.state = "ok" /\ EndAfter(s, in.pos - 1)
    OBVIOUS
  <2>1. z.res # "finished" /\ f.stage = "decomp"
    BY DEF After, AfterEnd
  <2>2. QED
    BY <1>5, <1>7, <2>1
<1>14. QED
  BY <1>6, <1>8, <1>9, <1>11, <1>12, <1>13 DEF GoodPlace

-----------------------------------------------------------------------------
(* What one call of the decoder changes in UF2_DStream.                    *)
Gets(f, g, d, st, ov) == g = [f EXCEPT !.dec = d, !.stage = st, !.overlap = ov]

Changed(s, f, g, d, st, ov) ==
  /\ Own(s, g) /\ g.dec = d /\ g.stage = st /\ g.overlap = ov /\ g.hash = f.hash

LEMMA GetsIs ==
  ASSUME NEW s, NEW f, Own(s, f), NEW d \in DecState,
         NEW st \in {"decomp", "mtWrite", "hash", "finished"},
         NEW ov \in Seq(1 .. Len(s)), Len(ov) <= 2 * Required,
         NEW g, Gets(f, g, d, st, ov)
  PROVE  Changed(s, f, g, d, st, ov)
  BY DEF Own, Gets, Changed

OwnIs(s, f) ==
  /\ f.dec \in DecState /\ f.overlap \in Seq(1 .. Len(s)) /\ f.hash \in Seq(1 .. Len(s))
  /\ f.stage \in {"decomp", "mtWrite", "hash", "finished"} /\ f.loopCount \in Nat
  /\ Len(f.overlap) \in Nat /\ Len(f.overlap) <= 2 * Required
  /\ Len(f.hash) \in Nat /\ Len(f.hash) <= HashSize

LEMMA OwnFields ==
  ASSUME NEW s, NEW f, Own(s, f) PROVE OwnIs(s, f)
  BY DEF Own, OwnIs

(* Decoding goes on in the chain.                                          *)
LEMMA CoreGoesOn ==
  ASSUME NEW s, NEW m, NEW d, NEW f, NEW in, NEW o, Going(s, m, d, f, in, o), NEW st, NEW y, NEW z,
         st \in {"decomp", "hash", "finished"}, GoodPlace(s, m, f, in, o, st, y, z),
         NEW m2, m2.chain = m.chain, m2.failState, m2.cur \in 1 .. Len(m.chain),
         At(o, m2.cur) + m2.curPos = y,
         NEW g, Changed(s, f, g, z.dec, st, f.overlap), NEW r
  PROVE  Core(s, m2, g, in, "hash", r, o)
<1>1. /\ st = "decomp" => f.stage = "decomp" /\ z.dec.state = "ok" /\ EndAfter(s, in.pos - 1)
      /\ st = "hash" => y >= Tip(m, o) /\ f.stage \in {"decomp", "hash"}
  BY DEF GoodPlace
<1>2. g.dec = z.dec /\ g.stage = st /\ g.overlap = f.overlap /\ g.hash = f.hash
  BY DEF Changed
<1>3. m.chain[1] # <<>> /\ Accounted(m, f, in, o) /\ m.failState
  BY DEF Going
<1>4. /\ Nodes(m, o)
      /\ f.stage \in {"decomp", "mtWrite"} => f.hash = <<>> /\ Tip(m, o) = in.pos
      /\ f.overlap = <<>>
      /\ f.stage # "finished" => UpTo(f.overlap, in.pos) /\ UpTo(f.hash, in.pos)
  BY <1>3 DEF Accounted
<1>5. Nodes(m2, o) /\ Tip(m2, o) = Tip(m, o)
  BY <1>4, SameNodes
<1>6. Accounted(m2, g, in, o)
  <2>1. g.stage \in {"decomp", "mtWrite"} => g.hash = <<>> /\ Tip(m2, o) = in.pos
    BY <1>1, <1>2, <1>4, <1>5
  <2>2. g.overlap = <<>>
    BY <1>2, <1>4
  <2>3. g.stage # "finished" => UpTo(g.overlap, in.pos) /\ UpTo(g.hash, in.pos)
    <3>1. st # "finished" => f.stage # "finished"
      BY <1>1
    <3>2. QED
      BY <1>2, <1>4, <3>1
  <2>4. QED
    BY <1>5, <2>1, <2>2, <2>3 DEF Accounted
<1>7. OneThread(s, m2, g, in, o)
  <2>1. FromChain(s, m2, g.dec, g.stage, in, o)
    BY <1>1, <1>2, <1>5 DEF FromChain
  <2>2. QED
    BY <1>1, <1>2, <2>1 DEF OneThread
<1>8. QED
  BY <1>6, <1>7 DEF Core

(* The chain is used up, but for what the decoder left of it.              *)
LEMMA RunRestUpTo ==
  ASSUME NEW a \in Nat, NEW n \in Nat, NEW pos \in Nat, NEW p \in Nat, p = a + n \/ pos >= n
  PROVE  UpTo(SubSeq(Run(a, n), pos + 1, n), p) /\ (pos >= n => SubSeq(Run(a, n), pos + 1, n) = <<>>)
<1> DEFINE ov == SubSeq(Run(a, n), pos + 1, n)
<1>1. ov = IF pos <= n THEN Run(a + pos, n - pos) ELSE <<>>
  <2>1. a \in Int
    OBVIOUS
  <2>2. SubSeq(Run(a, n), pos + 1, n) = IF pos <= n THEN Run(a + pos, n - pos) ELSE <<>>
    BY <2>1, RunRest
  <2>3. QED
    BY <2>2, Zenon
<1> HIDE DEF ov
<1>2. ASSUME pos >= n PROVE UpTo(ov, p) /\ ov = <<>>
  <2>1. ov = <<>>
    <3>1. CASE pos = n
      <4>1. n - pos = 0
        BY <3>1
      <4>2. QED
        BY <1>1, <3>1, <4>1, RunEmpty
    <3>2. CASE pos > n
      BY <1>1, <3>2
    <3>3. QED
      BY <1>2, <3>1, <3>2
  <2>2. UpTo(<<>>, p)
    BY UpToNothing
  <2>3. UpTo(ov, p)
    BY <2>1, <2>2, Zenon
  <2>4. QED
    BY <2>1, <2>3, Zenon
<1>3. ASSUME pos < n PROVE UpTo(ov, p)
  <2> DEFINE k == n - pos
  <2>1. k \in Nat /\ a + pos \in Int /\ p - k = a + pos /\ k <= p
    BY <1>3
  <2>2. ov = Run(a + pos, k) /\ Len(Run(a + pos, k)) = k
    <3>1. pos <= n
      BY <1>3
    <3>2. ov = Run(a + pos, k)
      BY <1>1, <3>1, Zenon
    <3>3. Len(Run(a + pos, k)) = k
      <4> HIDE DEF k
      <4>1. QED
        BY <2>1, RunIs, Zenon
    <3>4. QED
      BY <3>2, <3>3
  <2> HIDE DEF k
  <2>4. Len(ov) = k
    BY <2>2
  <2>5. QED
    BY <1>3, <2>1, <2>2, <2>4 DEF UpTo
<1>4. UpTo(ov, p) /\ (pos >= n => ov = <<>>)
  BY <1>2, <1>3
<1>5. QED
  BY <1>4 DEF ov

LEMMA CoreChainEnds ==
  ASSUME NEW s, NEW m, NEW d, NEW f, NEW in, Buffer(s, in), NEW o \in Nat, Going(s, m, d, f, in, o),
         NEW i, i = m.cur, NEW node, NEW a, NodeAt(s, m, o, i, node, a), i = Len(m.chain), node = m.chain[i],
         NEW pos \in Nat, pos + Required >= Len(node),
         NEW st, st \in {"decomp", "hash", "finished"}, NEW z, GoodPlace(s, m, f, in, o, st, a + pos, z),
         NEW m2, m2.chain = << <<>> >>, m2.failState,
         NEW ov, ov = SubSeq(node, pos + 1, Len(node)), Own(s, f), z.dec \in DecState,
         NEW g, Gets(f, g, z.dec, st, ov), NEW r
  PROVE  Own(s, g) /\ Core(s, m2, g, in, "hash", r, o)
<1> DEFINE n == Len(node)
           p == in.pos
<1>1. a \in Nat /\ n \in Nat /\ node \in Seq(1 .. Len(s)) /\ node = Run(a, n) /\ a = At(o, i)
  BY DEF NodeAt
<1>2. p \in Nat
  BY DEF Buffer
<1>3. /\ st = "decomp" => f.stage = "decomp" /\ z.dec.state = "ok" /\ EndAfter(s, in.pos - 1)
      /\ st = "hash" => a + pos >= Tip(m, o) /\ f.stage \in {"decomp", "hash"}
      /\ f.stage = "decomp" => Tip(m, o) = p
  BY DEF GoodPlace
<1>4. Tip(m, o) = a + n
  BY <1>1 DEF Tip
<1>5. m.chain[1] # <<>> /\ Accounted(m, f, in, o) /\ m.failState
  BY DEF Going
<1>6. /\ f.stage \in {"decomp", "mtWrite"} => f.hash = <<>>
      /\ f.stage # "finished" => UpTo(f.hash, in.pos)
  BY <1>5 DEF Accounted
<1> HIDE DEF n, p
<1>7. st = "hash" => pos >= n
  BY <1>1, <1>3, <1>4
<1>8. st = "decomp" => p = a + n
  BY <1>1, <1>3, <1>4
<1>9. ov = SubSeq(Run(a, n), pos + 1, n)
  BY <1>1 DEF n
<1>10. st # "finished" => UpTo(ov, p) /\ (pos >= n => ov = <<>>)
  <2>1. st # "finished" => p = a + n \/ pos >= n
    BY <1>7, <1>8
  <2>2. QED
    <3>1. st # "finished" =>
            UpTo(SubSeq(Run(a, n), pos + 1, n), p) /\ (pos >= n => SubSeq(Run(a, n), pos + 1, n) = <<>>)
      BY <1>1, <1>2, <2>1, RunRestUpTo
    <3>2. QED
      BY <1>9, <3>1, Zenon
<1>11. ov \in Seq(1 .. Len(s)) /\ Len(ov) <= Required
  <2>1. ov \in Seq(1 .. Len(s))
    BY <1>1, RestIs
  <2>2. pos + Required >= n
    BY DEF n
  <2>3. n <= pos + Required
    BY <1>1, <2>2, StepPositive
  <2>4. Len(ov) = IF pos <= n THEN n - pos ELSE 0
    BY <1>1, RestIs, ZenonT(40) DEF n
  <2>5. QED
    BY <1>1, <2>1, <2>3, <2>4, StepPositive
<1>12. Len(ov) <= 2 * Required
  <2>1. Len(ov) \in Nat
    BY <1>11
  <2>2. QED
    BY <1>11, <2>1, StepPositive
<1>13. Changed(s, f, g, z.dec, st, ov)
  BY <1>11, <1>12, GetsIs
<1>14. Own(s, g) /\ g.dec = z.dec /\ g.stage = st /\ g.overlap = ov /\ g.hash = f.hash
  BY <1>13 DEF Changed
<1>15. Nodes(m2, o) /\ m2.chain[1] = <<>>
  BY FreshChain
<1>16. Accounted(m2, g, in, o)
  <2>1. g.stage \in {"decomp", "mtWrite"} => g.hash = <<>>
    BY <1>3, <1>6, <1>14
  <2>2. g.stage # "finished" => UpTo(g.overlap, in.pos) /\ UpTo(g.hash, in.pos) /\ (g.hash # <<>> => g.overlap = <<>>)
    <3>1. st # "finished" => f.stage # "finished" /\ (st = "hash" \/ f.hash = <<>>)
      BY <1>3, <1>6
    <3>2. QED
      BY <1>6, <1>7, <1>10, <1>14, <3>1 DEF p
  <2>3. QED
    BY <1>15, <2>1, <2>2 DEF Accounted
<1>17. OneThread(s, m2, g, in, o)
  BY <1>3, <1>14, <1>15 DEF OneThread
<1>18. QED
  BY <1>14, <1>16, <1>17 DEF Core

-----------------------------------------------------------------------------
(* UF2_decompressFailedMt on one node of the chain.                        *)
At1(m, m2, c, p) == m2 = [m EXCEPT !.cur = c, !.curPos = p]

LEMMA PlaceMoved ==
  ASSUME NEW s, NEW m, Mt(s, m), NEW c \in Nat, NEW p \in Nat, NEW m2, At1(m, m2, c, p)
  PROVE  Mt(s, m2) /\ m2.chain = m.chain /\ m2.failState = m.failState /\ m2.cur = c /\ m2.curPos = p
<1>1. /\ m.chain \in Seq(Seq(1 .. Len(s))) /\ Len(m.chain) > 0
      /\ \A i \in 1 .. Len(m.chain) : Len(m.chain[i]) <= NodeSize
      /\ m.threads \in [Thread -> ThreadState] /\ m.numThreads \in 0 .. Threads
      /\ m.isFinal \in BOOLEAN /\ m.failState \in BOOLEAN /\ m.srcThread \in Nat /\ m.srcPos \in Nat
  BY MtFields
<1>2. /\ m2.chain = m.chain /\ m2.threads = m.threads /\ m2.numThreads = m.numThreads
      /\ m2.isFinal = m.isFinal /\ m2.failState = m.failState /\ m2.srcThread = m.srcThread
      /\ m2.srcPos = m.srcPos /\ m2.cur = c /\ m2.curPos = p /\ WithFields(m2)
  BY DEF Mt, WithFields, At1
<1>3. /\ m2.chain \in Seq(Seq(1 .. Len(s))) /\ Len(m2.chain) > 0
      /\ \A i \in 1 .. Len(m2.chain) : Len(m2.chain[i]) <= NodeSize
      /\ m2.threads \in [Thread -> ThreadState] /\ m2.numThreads \in 0 .. Threads
      /\ m2.isFinal \in BOOLEAN /\ m2.failState \in BOOLEAN
      /\ m2.srcThread \in Nat /\ m2.srcPos \in Nat /\ m2.cur \in Nat /\ m2.curPos \in Nat
  BY <1>1, <1>2, Zenon
<1>4. QED
  BY <1>2, <1>3, MtOf, Zenon

NodeTaken(m, m2, node, pos) ==
  LET moves == pos + Required >= Len(node)
      last  == m.cur = Len(m.chain)
  IN  m2 = CASE moves /\ last  -> FreeExtraInbufNodes([m EXCEPT !.cur = 0])
             [] moves /\ ~last -> [m EXCEPT !.cur = @ + 1, !.curPos = pos - (Len(node) - Required)]
             [] ~moves         -> [m EXCEPT !.curPos = pos]

NodeLeft(m, f, node, pos, ov) ==
  LET moves == pos + Required >= Len(node)
      last  == m.cur = Len(m.chain)
  IN  ov = IF moves /\ last THEN SubSeq(node, pos + 1, Len(node)) ELSE f.overlap

TakenOf(s, m, m2, i, node, pos) ==
  /\ Mt(s, m2) /\ m2.failState = m.failState
  /\ IF pos + Required >= Len(node) /\ i = Len(m.chain) THEN m2.chain = << <<>> >>
     ELSE /\ m2.chain = m.chain
          /\ IF pos + Required >= Len(node)
             THEN m2.cur = i + 1 /\ m2.curPos = pos - (Len(node) - Required)
             ELSE m2.cur = i /\ m2.curPos = pos

LEMMA TakenIs ==
  ASSUME NEW s, NEW m, Mt(s, m), NEW i \in Nat, i = m.cur, NEW node, Len(node) \in Nat, NEW pos \in Nat,
         NEW m2, NodeTaken(m, m2, node, pos)
  PROVE  TakenOf(s, m, m2, i, node, pos)
<1> DEFINE n == Len(node)
           moves == pos + Required >= n
           last == i = Len(m.chain)
           p == pos - (n - Required)
<1>1. n \in Nat /\ Required \in Nat
  BY StepPositive
<1> HIDE DEF n
<1>2. moves => p \in Nat
  BY <1>1
<1>3. CASE moves /\ last
  <2> DEFINE x == [m EXCEPT !.cur = 0]
  <2>1. At1(m, x, 0, m.curPos) /\ m.curPos \in Nat /\ 0 \in Nat
    <3>1. m.curPos \in Nat /\ x = [m EXCEPT !.cur = 0, !.curPos = m.curPos]
      BY DEF Mt
    <3>2. QED
      BY <3>1 DEF At1
  <2>2. m2 = FreeExtraInbufNodes(x)
    BY <1>3 DEF NodeTaken, n
  <2> HIDE DEF x
  <2>3. Mt(s, x) /\ x.failState = m.failState
    BY <2>1, PlaceMoved
  <2>4. Mt(s, m2) /\ m2.chain = << <<>> >> /\ m2.failState = x.failState
    BY <2>2, <2>3, FreedExtraIs, ZenonT(40)
  <2>5. QED
    BY <1>3, <2>3, <2>4 DEF TakenOf, n
<1>4. CASE moves /\ ~last
  <2>1. m2 = [m EXCEPT !.cur = i + 1, !.curPos = p]
    BY <1>4 DEF NodeTaken, n
  <2> HIDE DEF p
  <2>2. i + 1 \in Nat /\ p \in Nat
    BY <1>2, <1>4
  <2>3. At1(m, m2, i + 1, p)
    BY <2>1 DEF At1
  <2>4. Mt(s, m2) /\ m2.chain = m.chain /\ m2.failState = m.failState /\ m2.cur = i + 1 /\ m2.curPos = p
    BY <2>2, <2>3, PlaceMoved
  <2>5. QED
    BY <1>4, <2>4 DEF TakenOf, n, p
<1>5. CASE ~moves
  <2>1. m2 = [m EXCEPT !.cur = i, !.curPos = pos]
    <3>1. m2 = [m EXCEPT !.curPos = pos]
      BY <1>5 DEF NodeTaken, n
    <3>2. QED
      BY <3>1 DEF Mt
  <2>2. At1(m, m2, i, pos)
    BY <2>1 DEF At1
  <2>3. Mt(s, m2) /\ m2.chain = m.chain /\ m2.failState = m.failState /\ m2.cur = i /\ m2.curPos = pos
    BY <2>2, PlaceMoved
  <2>4. QED
    BY <1>5, <2>3 DEF TakenOf, n
<1>6. QED
  BY <1>3, <1>4, <1>5

LEMMA CoreNode ==
  ASSUME NEW s \in Streams, NEW m, NEW d, NEW f, Own(s, f), NEW in, Buffer(s, in), NEW o \in Nat,
         Going(s, m, d, f, in, o), NEW i, i = m.cur, NEW node, node = m.chain[i],
         NEW space \in Nat,
         NEW z \in Input(s, f, d, SubSeq(node, m.curPos + 1, Len(node)), space), z.res # "corrupt",
         NEW pos, pos = m.curPos + z.used, NEW m2, NodeTaken(m, m2, node, pos),
         NEW ov, NodeLeft(m, f, node, pos, ov), NEW g, Gets(f, g, z.dec, After(f, z), ov), NEW r
  PROVE  /\ Mt(s, m2) /\ m2.failState /\ Own(s, g) /\ Core(s, m2, g, in, "hash", r, o)
         /\ z.out \in Seq(Nat) /\ Len(z.out) <= space
<1> DEFINE a == At(o, i)
           st == After(f, z)
           n == Len(node)
           bytes == SubSeq(node, m.curPos + 1, n)
<1>1. NodeAt(s, m, o, i, node, a)
  BY NodeIs
<1>2. /\ i \in Nat /\ i >= 1 /\ i <= Len(m.chain) /\ i \in 1 .. Len(m.chain) /\ Len(m.chain) \in Nat
      /\ n \in Nat /\ a \in Nat /\ m.curPos \in Nat
      /\ (i # Len(m.chain) => n = NodeSize)
  BY <1>1 DEF NodeAt
<1>3. /\ Given1(s, f, bytes, space, z) /\ z.used \in Nat
      /\ GoodPlace(s, m, f, in, o, st, a + (m.curPos + z.used), z)
  BY PlaceIs
<1>4. z.dec \in DecState /\ z.out \in Seq(Nat) /\ Len(z.out) <= space
  BY <1>3 DEF Given1
<1>5. pos \in Nat /\ a + (m.curPos + z.used) = a + pos
  BY <1>2, <1>3, SMTT(30)
<1> HIDE DEF a, st, bytes
<1>6. GoodPlace(s, m, f, in, o, st, a + pos, z)
  BY <1>3, <1>5
<1>7. Mt(s, m) /\ m.failState /\ f.stage # "mtWrite"
  BY DEF Going
<1>8. st \in {"decomp", "hash", "finished"}
  BY <1>7, AfterIs DEF st
<1>9. TakenOf(s, m, m2, i, node, pos)
  BY <1>2, <1>5, <1>7, TakenIs
<1>10. /\ Mt(s, m2) /\ m2.failState
       /\ IF pos + Required >= n /\ i = Len(m.chain) THEN m2.chain = << <<>> >>
          ELSE /\ m2.chain = m.chain
               /\ IF pos + Required >= n
                  THEN m2.cur = i + 1 /\ m2.curPos = pos - (n - Required)
                  ELSE m2.cur = i /\ m2.curPos = pos
  BY <1>7, <1>9 DEF TakenOf
<1>11. CASE pos + Required >= n /\ i = Len(m.chain)
  <2>1. m2.chain = << <<>> >>
    BY <1>10, <1>11
  <2>2. ov = SubSeq(node, pos + 1, n)
    BY <1>11 DEF NodeLeft
  <2>3. Gets(f, g, z.dec, st, ov)
    BY DEF st
  <2>4. Own(s, g) /\ Core(s, m2, g, in, "hash", r, o)
    <3>1. pos + Required >= Len(node) /\ i = Len(m.chain)
      BY <1>11
    <3>2. ov = SubSeq(node, pos + 1, Len(node))
      BY <2>2
    <3>3. m2.failState
      BY <1>10
    <3> HIDE DEF n
    <3>4. QED
      BY <1>1, <1>4, <1>5, <1>6, <1>8, <2>1, <2>3, <3>1, <3>2, <3>3, CoreChainEnds, ZenonT(120)
  <2>5. QED
    BY <1>4, <1>10, <2>4
<1>12. CASE ~(pos + Required >= n /\ i = Len(m.chain))
  <2>1. ov = f.overlap
    BY <1>2, <1>12 DEF NodeLeft
  <2>2. m2.chain = m.chain
    BY <1>10, <1>12
  <2>3. m2.cur \in 1 .. Len(m.chain) /\ At(o, m2.cur) + m2.curPos = a + pos
    <3>1. CASE pos + Required >= n
      <4>1. m2.cur = i + 1 /\ m2.curPos = pos - (n - Required) /\ i # Len(m.chain)
        BY <1>10, <1>12, <3>1
      <4>2. n - Required = Step /\ Step \in Nat
        BY <1>2, <4>1, StepPositive
      <4>3. At(o, i + 1) = a + Step
        <5>1. o \in Int /\ i \in Int
          BY <1>2
        <5>2. At(o, i + 1) = At(o, i) + Step
          BY <5>1, AtNext
        <5>3. QED
          BY <5>2 DEF a
      <4> HIDE DEF n
      <4>4. a + Step + (pos - (n - Required)) = a + pos
        BY <1>2, <1>5, <4>2
      <4>5. i + 1 \in 1 .. Len(m.chain)
        BY <1>2, <4>1
      <4>6. QED
        BY <4>1, <4>3, <4>4, <4>5
    <3>2. CASE ~(pos + Required >= n)
      BY <1>2, <1>10, <1>12, <3>2 DEF a
    <3>3. QED
      BY <3>1, <3>2
  <2>4. OwnIs(s, f)
    BY OwnFields
  <2>5. Changed(s, f, g, z.dec, st, f.overlap)
    <3>1. f.overlap \in Seq(1 .. Len(s)) /\ Len(f.overlap) <= 2 * Required
      BY <2>4 DEF OwnIs
    <3>2. Gets(f, g, z.dec, st, f.overlap)
      BY <2>1 DEF st
    <3>3. st \in {"decomp", "mtWrite", "hash", "finished"}
      BY <1>8
    <3>4. QED
      BY <1>4, <3>1, <3>2, <3>3, GetsIs
  <2>6. Core(s, m2, g, in, "hash", r, o)
    BY <1>6, <1>8, <1>10, <2>2, <2>3, <2>5, CoreGoesOn
  <2>7. Own(s, g)
    BY <2>5 DEF Changed
  <2>8. QED
    BY <1>4, <1>10, <2>6, <2>7
<1>13. QED
  BY <1>11, <1>12

-----------------------------------------------------------------------------
(* The chain is used up.                                                   *)
Alone(s, m, f, in, o) ==
  /\ m.failState /\ m.chain[1] = <<>> /\ Accounted(m, f, in, o) /\ OneThread(s, m, f, in, o)

LEMMA AloneIs ==
  ASSUME NEW s, NEW m, NEW f, NEW in, NEW p, p # "error", NEW r, NEW o, Core(s, m, f, in, p, r, o),
         m.failState, m.chain[1] = <<>>
  PROVE  Alone(s, m, f, in, o)
  BY DEF Core, Alone

Keeps(g, in) ==
  /\ g.stage \in {"decomp", "hash", "finished"}
  /\ g.stage = "decomp" => g.dec.state = "ok" /\ g.hash = <<>>
  /\ g.stage # "finished" =>
       /\ UpTo(g.overlap, in.pos) /\ UpTo(g.hash, in.pos)
       /\ g.hash # <<>> => g.overlap = <<>>

LEMMA AloneKeeps ==
  ASSUME NEW s, NEW m, NEW f, NEW in, NEW o, Alone(s, m, f, in, o), NEW g, NEW in2, Keeps(g, in2), NEW p, NEW r
  PROVE  Core(s, m, g, in2, p, r, o)
<1>1. Nodes(m, o) /\ m.failState /\ m.chain[1] = <<>>
  BY DEF Alone, Accounted
<1>2. Accounted(m, g, in2, o)
  BY <1>1 DEF Keeps, Accounted
<1>3. OneThread(s, m, g, in2, o)
  BY <1>1 DEF Keeps, OneThread
<1>4. QED
  BY <1>1, <1>2, <1>3 DEF Core

LEMMA AloneHas ==
  ASSUME NEW s, NEW m, NEW f, NEW in, NEW o, Alone(s, m, f, in, o)
  PROVE  /\ f.stage = "decomp" => f.dec.state = "ok" /\ f.hash = <<>>
         /\ f.stage # "mtWrite"
         /\ f.stage # "finished" =>
              /\ UpTo(f.overlap, in.pos) /\ UpTo(f.hash, in.pos)
              /\ f.hash # <<>> => f.overlap = <<>>
  BY DEF Alone, OneThread, Accounted

(* What is read of the input from p on.                                    *)
LEMMA ReadIs ==
  ASSUME NEW s \in Streams, NEW in, Buffer(s, in), NEW p \in Nat, NEW k \in Nat, in.pos <= p, p + k <= in.size
  PROVE  Run(p, k) \in Seq(1 .. Len(s)) /\ Len(Run(p, k)) = k
<1>1. in.size \in Nat /\ in.size <= Len(s) /\ Len(s) \in Nat
  BY StreamIs DEF Buffer
<1>2. p + k <= Len(s)
  BY <1>1
<1>3. Run(p, k) \in Seq(1 .. Len(s))
  BY <1>1, <1>2, RunWithin
<1>4. p \in Int
  OBVIOUS
<1>5. Len(Run(p, k)) = k
  BY <1>4, RunIs
<1>6. QED
  BY <1>3, <1>5

BufferIs(s, in) ==
  /\ in.base \in Nat /\ in.pos \in Nat /\ in.size \in Nat
  /\ in.base <= in.pos /\ in.pos <= in.size /\ in.size <= Len(s)

LEMMA BufferFields ==
  ASSUME NEW s, NEW in, Buffer(s, in) PROVE BufferIs(s, in)
  BY DEF Buffer, BufferIs

MovesTo(in, in2, p) == in2 = [in EXCEPT !.pos = p]

LEMMA BufferMoved ==
  ASSUME NEW s, NEW in, Buffer(s, in), NEW p \in Nat, in.pos <= p, p <= in.size, NEW in2, MovesTo(in, in2, p)
  PROVE  Buffer(s, in2) /\ in2.pos = p /\ in2.base = in.base /\ in2.size = in.size
<1>1. /\ in \in [base : Nat, pos : Nat, size : Nat]
      /\ in.base <= in.pos /\ in.pos <= in.size /\ in.size <= Len(s)
  BY DEF Buffer
<1>2. in2 \in [base : Nat, pos : Nat, size : Nat] /\ in2.pos = p /\ in2.base = in.base /\ in2.size = in.size
  BY <1>1 DEF MovesTo
<1>3. in2.base <= in2.pos /\ in2.pos <= in2.size
  BY <1>1, <1>2
<1>4. QED
  BY <1>1, <1>2, <1>3 DEF Buffer

(* UF2_decompressOverlappedInput.                                          *)
OverlapReads(in, h, k)      == k = Min({in.size - in.pos, 2 * Required - h})
OverlapTakes(in, in2, u, h) == in2 = IF u >= h THEN [in EXCEPT !.pos = @ + u - h] ELSE in

LEMMA OverlapPlace ==
  ASSUME NEW s, NEW in, Buffer(s, in), NEW h \in Nat, NEW k \in Nat, in.pos + k <= in.size,
         NEW u \in Nat, u <= h + k, NEW in2, OverlapTakes(in, in2, u, h)
  PROVE  Buffer(s, in2) /\ in2.pos = in.pos + (IF u >= h THEN u - h ELSE 0)
<1>1. BufferIs(s, in)
  BY BufferFields
<1>2. in.pos \in Nat /\ in.size \in Nat
  BY <1>1 DEF BufferIs
<1>3. CASE u >= h
  <2> DEFINE p == in.pos + u - h
  <2>1. p \in Nat /\ in.pos <= p /\ p <= in.size /\ p = in.pos + (u - h)
    BY <1>2, <1>3
  <2>2. MovesTo(in, in2, p)
    BY <1>3 DEF OverlapTakes, MovesTo
  <2> HIDE DEF p
  <2>3. Buffer(s, in2) /\ in2.pos = p
    BY <2>1, <2>2, BufferMoved
  <2>4. QED
    BY <1>3, <2>1, <2>3
<1>4. CASE ~(u >= h)
  BY <1>2, <1>4 DEF OverlapTakes
<1>5. QED
  BY <1>3, <1>4

LEMMA OverlapRest ==
  ASSUME NEW p \in Nat, NEW v, UpTo(v, p), NEW h \in Nat, h = Len(v), NEW u \in Nat, NEW q \in Nat,
         q = p + (IF u >= h THEN u - h ELSE 0)
  PROVE  UpTo(SubSeq(v, u + 1, h), q)
<1> DEFINE a == p - h
<1>1. a \in Nat /\ v = Run(a, h) /\ p = a + h
  BY DEF UpTo
<1> HIDE DEF a
<1>2. SubSeq(v, u + 1, h) = SubSeq(Run(a, h), u + 1, h)
  BY <1>1, Zenon
<1>3. q = a + h \/ u >= h
  <2>1. p = a + h
    BY <1>1
  <2>2. CASE u >= h
    BY <2>2
  <2>3. CASE ~(u >= h)
    <3>1. q = p + 0
      BY <2>3
    <3>2. QED
      BY <2>1, <3>1
  <2>4. QED
    BY <2>2, <2>3
<1>4. UpTo(SubSeq(Run(a, h), u + 1, h), q)
  <2>1. a \in Nat
    BY <1>1
  <2>2. QED
    BY <1>3, <2>1, RunRestUpTo, Zenon
<1>5. QED
  BY <1>2, <1>4, Zenon

LEMMA JoinIs ==
  ASSUME NEW T, NEW v \in Seq(T), NEW w \in Seq(T)
  PROVE  v \o w \in Seq(T) /\ Len(v \o w) = Len(v) + Len(w)
  OBVIOUS

LEMMA CoreOverlap ==
  ASSUME NEW s \in Streams, NEW m, NEW f, Own(s, f), NEW in, Buffer(s, in), NEW o, NEW r,
         Core(s, m, f, in, "failed", r, o), m.failState, m.chain[1] = <<>>, f.overlap # <<>>,
         NEW h, h = Len(f.overlap), NEW k, OverlapReads(in, h, k), NEW space \in Nat,
         NEW z \in Input(s, f, f.dec, f.overlap \o Run(in.pos, k), space), z.res # "corrupt",
         NEW in2, OverlapTakes(in, in2, z.used, h),
         NEW g, Gets(f, g, z.dec, After(f, z), SubSeq(f.overlap, z.used + 1, h))
  PROVE  /\ Own(s, g) /\ Buffer(s, in2) /\ Core(s, m, g, in2, "direct", r, o)
         /\ z.out \in Seq(Nat) /\ Len(z.out) <= space
<1> DEFINE v == f.overlap
           bytes == v \o Run(in.pos, k)
           st == After(f, z)
           ov == SubSeq(v, z.used + 1, h)
<1>1. /\ f.dec \in DecState /\ v \in Seq(1 .. Len(s)) /\ f.hash \in Seq(1 .. Len(s))
      /\ h \in Nat /\ h <= 2 * Required
  <2>1. OwnIs(s, f)
    BY OwnFields
  <2>2. QED
    BY <2>1 DEF OwnIs
<1>2. in.pos \in Nat /\ in.size \in Nat /\ in.pos <= in.size
  <2>1. BufferIs(s, in)
    BY BufferFields
  <2>2. QED
    BY <2>1 DEF BufferIs
<1>3. k \in Nat /\ in.pos + k <= in.size
  <2> DEFINE x == in.size - in.pos
             y == 2 * Required - h
  <2>1. x \in Nat /\ y \in Nat
    BY <1>1, <1>2, StepPositive
  <2>2. k = Min({x, y})
    BY DEF OverlapReads
  <2> HIDE DEF x, y
  <2>3. k \in Nat /\ k <= x
    BY <2>1, <2>2, LeastOf
  <2>4. QED
    BY <1>2, <2>3 DEF x
<1>4. Run(in.pos, k) \in Seq(1 .. Len(s)) /\ Len(Run(in.pos, k)) = k
  <2>1. in.pos <= in.pos
    BY <1>2
  <2>2. QED
    BY <1>2, <1>3, <2>1, ReadIs
<1>5. bytes \in Seq(1 .. Len(s)) /\ Len(bytes) = h + k
  <2> DEFINE w == Run(in.pos, k)
             T == 1 .. Len(s)
  <2>1. v \in Seq(T) /\ w \in Seq(T) /\ Len(v) = h /\ Len(w) = k
    BY <1>1, <1>4
  <2> HIDE DEF v, w, T
  <2>2. v \o w \in Seq(T) /\ Len(v \o w) = h + k
    <3>1. v \o w \in Seq(T) /\ Len(v \o w) = Len(v) + Len(w)
      BY <2>1, JoinIs
    <3>2. QED
      BY <2>1, <3>1
  <2>3. QED
    BY <2>2 DEF v, w, T
<1>6. Alone(s, m, f, in, o)
  BY AloneIs
<1>7. /\ f.stage = "decomp" => f.dec.state = "ok" /\ f.hash = <<>>
      /\ f.stage # "mtWrite"
      /\ f.stage # "finished" =>
           /\ UpTo(v, in.pos) /\ UpTo(f.hash, in.pos)
           /\ f.hash # <<>> => v = <<>>
  BY <1>6, AloneHas
<1>8. Given1(s, f, bytes, space, z)
  <2>1. z \in Input(s, f, f.dec, bytes, space)
    OBVIOUS
  <2> HIDE DEF bytes
  <2>2. f.stage = "decomp" => f.dec.state = "ok"
    BY <1>7
  <2>3. QED
    BY <1>1, <1>5, <2>1, <2>2, InputGives
<1>9. /\ z.used \in 0 .. Len(bytes) /\ z.dec \in DecState /\ z.out \in Seq(Nat) /\ Len(z.out) <= space
      /\ f.stage # "decomp" => z.res # "finished"
      /\ f.stage = "decomp" /\ z.res # "finished" => z.dec.state = "ok"
  BY <1>8 DEF Given1
<1>10. z.used \in Nat /\ z.used <= h + k
  <2> HIDE DEF bytes
  <2>1. QED
    BY <1>1, <1>3, <1>5, <1>9
<1>11. Buffer(s, in2) /\ in2.pos = in.pos + (IF z.used >= h THEN z.used - h ELSE 0)
  BY <1>1, <1>3, <1>10, OverlapPlace, SMTT(30)
<1>12. in2.pos \in Nat
  BY <1>1, <1>2, <1>10, <1>11, SMTT(30)
<1>13. ov \in Seq(1 .. Len(s)) /\ Len(ov) <= 2 * Required
  <2>1. ov \in Seq(1 .. Len(s)) /\ Len(ov) = IF z.used <= h THEN h - z.used ELSE 0
    BY <1>1, <1>10, RestIs
  <2> HIDE DEF ov
  <2>2. QED
    BY <1>1, <1>10, <2>1, StepPositive
<1>14. st \in {"decomp", "hash", "finished"}
  BY <1>7, AfterIs
<1>15. st # "finished" => f.stage # "finished" /\ f.hash = <<>>
  BY <1>7, <1>9 DEF After, AfterEnd
<1>16. st = "decomp" => z.dec.state = "ok"
  BY <1>9 DEF After, AfterEnd
<1>17. st # "finished" => UpTo(ov, in2.pos)
  <2>1. st # "finished" => UpTo(v, in.pos)
    BY <1>7, <1>15
  <2> HIDE DEF st, v
  <2>2. h = Len(v)
    BY DEF v
  <2>3. QED
    BY <1>1, <1>2, <1>10, <1>11, <1>12, <2>1, <2>2, OverlapRest
<1> HIDE DEF st, ov
<1>18. Changed(s, f, g, z.dec, st, ov)
  <2>1. Gets(f, g, z.dec, st, ov)
    BY DEF st, ov
  <2>2. st \in {"decomp", "mtWrite", "hash", "finished"}
    BY <1>14
  <2>3. QED
    BY <1>9, <1>13, <2>1, <2>2, GetsIs
<1>19. Own(s, g) /\ g.dec = z.dec /\ g.stage = st /\ g.overlap = ov /\ g.hash = f.hash
  BY <1>18 DEF Changed
<1>20. UpTo(<<>>, in2.pos)
  BY <1>12, UpToNothing
<1>21. Keeps(g, in2)
  BY <1>14, <1>15, <1>16, <1>17, <1>19, <1>20 DEF Keeps
<1>22. Core(s, m, g, in2, "direct", r, o)
  BY <1>6, <1>21, AloneKeeps
<1>23. QED
  BY <1>9, <1>11, <1>19, <1>22

(* UF2_decompressStream_st on the caller's buffer.                         *)
DirectInput(s, f, in, space) ==
  IF f.overlap = <<>> /\ in.size - in.pos > 0
  THEN Input(s, f, f.dec, Run(in.pos, in.size - in.pos), space)
  ELSE {[dec |-> f.dec, used |-> 0, out |-> <<>>, res |-> "ok"]}

DirectReads(f, in, space, z, p, t) ==
  LET waits == /\ in.size - in.pos > 0 /\ After(f, z) = "decomp" /\ Len(z.out) < space
               /\ in.size - p <= Required
  IN  t = IF waits THEN Min({in.size - p, 2 * Required - Len(f.overlap)}) ELSE 0

DirectGiven(f, in, space, z) ==
  /\ z.used \in Nat /\ in.pos + z.used <= in.size
  /\ z.dec \in DecState /\ z.out \in Seq(Nat) /\ Len(z.out) <= space
  /\ f.overlap # <<>> => z.used = 0
  /\ f.stage # "decomp" => z.used = 0 /\ z.res # "finished"
  /\ f.stage = "decomp" /\ z.res # "finished" => z.dec.state = "ok"

LEMMA DirectGives ==
  ASSUME NEW s \in Streams, NEW f, Own(s, f), NEW in, Buffer(s, in),
         f.stage = "decomp" => f.dec.state = "ok", NEW space \in Nat,
         NEW z \in DirectInput(s, f, in, space), z.res # "corrupt"
  PROVE  DirectGiven(f, in, space, z)
<1>1. in.pos \in Nat /\ in.size \in Nat /\ in.pos <= in.size
  <2>1. BufferIs(s, in)
    BY BufferFields
  <2>2. QED
    BY <2>1 DEF BufferIs
<1>2. f.dec \in DecState
  <2>1. OwnIs(s, f)
    BY OwnFields
  <2>2. QED
    BY <2>1 DEF OwnIs
<1>3. CASE f.overlap = <<>> /\ in.size - in.pos > 0
  <2> DEFINE k == in.size - in.pos
             bytes == Run(in.pos, k)
  <2>1. k \in Nat /\ in.pos + k <= in.size /\ in.pos + k = in.size
    BY <1>1, <1>3
  <2>2. z \in Input(s, f, f.dec, bytes, space)
    BY <1>3 DEF DirectInput
  <2> HIDE DEF k
  <2>3. bytes \in Seq(1 .. Len(s)) /\ Len(bytes) = k
    <3>1. in.pos <= in.pos
      BY <1>1
    <3>2. QED
      BY <1>1, <2>1, <3>1, ReadIs
  <2> HIDE DEF bytes
  <2>4. Given1(s, f, bytes, space, z)
    BY <1>2, <2>2, <2>3, InputGives
  <2>5. /\ z.used \in 0 .. Len(bytes) /\ z.dec \in DecState
        /\ z.out \in Seq(Nat) /\ Len(z.out) <= space
        /\ f.stage # "decomp" => z.used = 0 /\ z.res # "finished"
        /\ f.stage = "decomp" /\ z.res # "finished" => z.dec.state = "ok"
    BY <2>4 DEF Given1
  <2>6. z.used \in Nat /\ in.pos + z.used <= in.size
    BY <1>1, <2>1, <2>3, <2>5
  <2>7. QED
    BY <1>3, <2>5, <2>6 DEF DirectGiven
<1>4. CASE ~(f.overlap = <<>> /\ in.size - in.pos > 0)
  <2>1. z = [dec |-> f.dec, used |-> 0, out |-> <<>>, res |-> "ok"]
    BY <1>4 DEF DirectInput
  <2>2. z.dec = f.dec /\ z.used = 0 /\ z.out = <<>> /\ z.res = "ok"
    BY <2>1
  <2>3. z.out \in Seq(Nat) /\ Len(z.out) <= space
    BY <2>2
  <2>4. z.used \in Nat /\ in.pos + z.used <= in.size
    BY <1>1, <2>2
  <2>5. QED
    BY <1>2, <2>2, <2>3, <2>4 DEF DirectGiven
<1>5. QED
  BY <1>3, <1>4

LEMMA CoreDirect ==
  ASSUME NEW s \in Streams, NEW m, NEW f, Own(s, f), NEW in, Buffer(s, in), NEW o, NEW r,
         Core(s, m, f, in, "direct", r, o), m.failState, m.chain[1] = <<>>, NEW space \in Nat,
         NEW z \in DirectInput(s, f, in, space), z.res # "corrupt",
         NEW p, p = in.pos + z.used, NEW t, DirectReads(f, in, space, z, p, t),
         NEW in2, MovesTo(in, in2, p + t),
         NEW g, Gets(f, g, z.dec, After(f, z), f.overlap \o Run(p, t))
  PROVE  /\ Own(s, g) /\ Buffer(s, in2) /\ Core(s, m, g, in2, "hash", r, o)
         /\ z.out \in Seq(Nat) /\ Len(z.out) <= space
<1> DEFINE v == f.overlap
           h == Len(v)
           st == After(f, z)
           ov == v \o Run(p, t)
<1>1. /\ f.dec \in DecState /\ v \in Seq(1 .. Len(s)) /\ h \in Nat /\ h <= 2 * Required
  <2>1. OwnIs(s, f)
    BY OwnFields
  <2>2. QED
    BY <2>1 DEF OwnIs
<1>2. in.pos \in Nat /\ in.size \in Nat /\ in.pos <= in.size
  <2>1. BufferIs(s, in)
    BY BufferFields
  <2>2. QED
    BY <2>1 DEF BufferIs
<1>3. Alone(s, m, f, in, o)
  BY AloneIs
<1>4. /\ f.stage = "decomp" => f.dec.state = "ok" /\ f.hash = <<>>
      /\ f.stage # "mtWrite"
      /\ f.stage # "finished" =>
           /\ UpTo(v, in.pos) /\ UpTo(f.hash, in.pos)
           /\ f.hash # <<>> => v = <<>>
  BY <1>3, AloneHas
<1>5. DirectGiven(f, in, space, z)
  BY <1>4, DirectGives
<1>6. /\ z.used \in Nat /\ in.pos + z.used <= in.size
      /\ z.dec \in DecState /\ z.out \in Seq(Nat) /\ Len(z.out) <= space
      /\ v # <<>> => z.used = 0
      /\ f.stage # "decomp" => z.used = 0 /\ z.res # "finished"
      /\ f.stage = "decomp" /\ z.res # "finished" => z.dec.state = "ok"
  BY <1>5 DEF DirectGiven
<1>7. p \in Nat /\ in.pos <= p /\ p <= in.size
  BY <1>2, <1>6
<1>8. t \in Nat /\ p + t <= in.size /\ h + t <= 2 * Required /\ (t # 0 => st = "decomp")
  <2> DEFINE x == in.size - p
             y == 2 * Required - h
  <2>1. x \in Nat /\ y \in Nat /\ p + x = in.size /\ h + y = 2 * Required
    BY <1>1, <1>2, <1>7, StepPositive
  <2>2. t = 0 \/ (t = Min({x, y}) /\ st = "decomp")
    BY DEF DirectReads
  <2> HIDE DEF x, y, h
  <2>3. CASE t = 0
    BY <1>1, <1>7, <2>3, StepPositive
  <2>4. CASE t # 0
    <3>1. t = Min({x, y}) /\ st = "decomp"
      BY <2>2, <2>4
    <3> HIDE DEF st
    <3>2. t \in Nat /\ t <= x /\ t <= y
      BY <2>1, <3>1, LeastOf
    <3>3. QED
      BY <1>1, <1>7, <2>1, <3>1, <3>2, StepPositive
  <2>5. QED
    BY <2>3, <2>4
<1>9. Buffer(s, in2) /\ in2.pos = p + t
  <2> DEFINE q == p + t
  <2>1. q \in Nat /\ in.pos <= q /\ q <= in.size /\ MovesTo(in, in2, q)
    BY <1>2, <1>7, <1>8
  <2> HIDE DEF q
  <2>2. Buffer(s, in2) /\ in2.pos = q
    BY <2>1, BufferMoved
  <2>3. QED
    BY <2>2 DEF q
<1>10. in2.pos \in Nat
  BY <1>7, <1>8, <1>9
<1>11. Run(p, t) \in Seq(1 .. Len(s)) /\ Len(Run(p, t)) = t
  BY <1>7, <1>8, ReadIs
<1>12. ov \in Seq(1 .. Len(s)) /\ Len(ov) <= 2 * Required
  <2> DEFINE w == Run(p, t)
             T == 1 .. Len(s)
  <2>1. v \in Seq(T) /\ w \in Seq(T) /\ Len(v) = h /\ Len(w) = t
    BY <1>1, <1>11
  <2> HIDE DEF v, w, T, h
  <2>2. v \o w \in Seq(T) /\ Len(v \o w) = Len(v) + Len(w)
    BY <2>1, JoinIs
  <2>3. Len(v \o w) <= 2 * Required
    BY <1>1, <1>8, <2>1, <2>2
  <2>4. QED
    BY <2>2, <2>3 DEF v, w, T
<1>13. st \in {"decomp", "hash", "finished"}
  BY <1>4, AfterIs
<1>14. st # "finished" => f.stage # "finished"
  BY <1>6 DEF After, AfterEnd
<1>15. st = "decomp" => z.dec.state = "ok" /\ f.stage = "decomp"
  BY <1>6 DEF After, AfterEnd
<1>16. st = "hash" /\ f.stage # "decomp" => z.used = 0
  BY <1>6
<1>17. st # "finished" => UpTo(ov, in2.pos)
  <2> SUFFICES ASSUME st # "finished" PROVE UpTo(ov, in2.pos)
    OBVIOUS
  <2>1. UpTo(v, in.pos)
    BY <1>4, <1>14
  <2>2. CASE v = <<>>
    <3>1. ov = Run(p, t)
      <4>1. ov = <<>> \o Run(p, t)
        BY <2>2
      <4> DEFINE w == Run(p, t)
      <4>2. w \in Seq(1 .. Len(s))
        BY <1>11
      <4> HIDE DEF w
      <4>3. <<>> \o w = w
        BY <4>2
      <4>4. QED
        BY <4>1, <4>3 DEF w
    <3>2. Len(Run(p, t)) = t /\ in2.pos - t = p /\ t <= in2.pos
      BY <1>7, <1>8, <1>9, <1>11
    <3> HIDE DEF ov
    <3>3. QED
      BY <3>1, <3>2 DEF UpTo
  <2>3. CASE v # <<>>
    <3>1. p = in.pos
      BY <1>2, <1>6, <2>3
    <3> DEFINE a == in.pos - h
    <3>2. h <= in.pos /\ v = Run(a, h)
      BY <2>1 DEF UpTo
    <3>3. a \in Int /\ p = a + h /\ p \in Int /\ a \in Nat
      <4>1. h <= in.pos
        BY <3>2
      <4> HIDE DEF h
      <4>2. QED
        BY <1>1, <1>2, <3>1, <4>1
    <3> HIDE DEF a, h
    <3>4. Run(a, h) \o Run(p, t) = Run(a, h + t)
      BY <1>1, <1>8, <3>3, RunJoin, ZenonT(40)
    <3>5. ov = Run(a, h + t)
      BY <3>2, <3>4
    <3>6. h + t \in Nat
      BY <1>1, <1>8
    <3>7. Len(Run(a, h + t)) = h + t
      BY <3>3, <3>6, RunIs
    <3> HIDE DEF ov
    <3>8. Len(ov) = h + t
      BY <3>5, <3>7
    <3>9. h + t <= in2.pos /\ in2.pos - (h + t) = a
      BY <1>1, <1>8, <1>9, <3>3
    <3>10. QED
      BY <3>5, <3>8, <3>9 DEF UpTo
  <2>4. QED
    BY <2>2, <2>3
<1>18. st = "hash" /\ f.stage # "decomp" => in2.pos = in.pos /\ ov = v
  <2> SUFFICES ASSUME st = "hash", f.stage # "decomp" PROVE in2.pos = in.pos /\ ov = v
    OBVIOUS
  <2>1. t = 0 /\ z.used = 0
    BY <1>8, <1>16
  <2>2. p = in.pos
    BY <1>2, <2>1
  <2>3. in2.pos = in.pos
    BY <1>2, <1>9, <2>1, <2>2
  <2>4. Run(p, t) = <<>>
    BY <2>1, RunEmpty
  <2>5. v \o <<>> = v
    <3>1. v \in Seq(1 .. Len(s))
      BY <1>1
    <3> HIDE DEF v
    <3>2. QED
      BY <3>1
  <2>6. QED
    BY <2>3, <2>4, <2>5
<1> HIDE DEF st, ov, v, h
<1>19. Changed(s, f, g, z.dec, st, ov)
  <2>1. Gets(f, g, z.dec, st, ov)
    BY DEF st, ov, v
  <2>2. st \in {"decomp", "mtWrite", "hash", "finished"}
    BY <1>13
  <2>3. QED
    BY <1>6, <1>12, <2>1, <2>2, GetsIs
<1>20. Own(s, g) /\ g.dec = z.dec /\ g.stage = st /\ g.overlap = ov /\ g.hash = f.hash
  BY <1>19 DEF Changed
<1>21. UpTo(<<>>, in2.pos)
  BY <1>10, UpToNothing
<1>22. st # "finished" => UpTo(f.hash, in2.pos) /\ (f.hash # <<>> => ov = <<>>)
  <2>1. CASE f.stage = "decomp"
    BY <1>4, <1>21, <2>1
  <2>2. CASE f.stage # "decomp"
    <3> SUFFICES ASSUME st # "finished" PROVE UpTo(f.hash, in2.pos) /\ (f.hash # <<>> => ov = <<>>)
      OBVIOUS
    <3>1. st = "hash" /\ f.stage # "finished"
      BY <1>13, <1>14, <1>15, <2>2
    <3>2. in2.pos = in.pos /\ ov = v
      BY <1>18, <2>2, <3>1
    <3>3. QED
      BY <1>4, <3>1, <3>2
  <2>3. QED
    BY <2>1, <2>2
<1>23. Keeps(g, in2)
  BY <1>4, <1>13, <1>15, <1>17, <1>20, <1>22 DEF Keeps
<1>24. Core(s, m, g, in2, "hash", r, o)
  BY <1>3, <1>23, AloneKeeps
<1>25. QED
  BY <1>6, <1>9, <1>20, <1>24

-----------------------------------------------------------------------------
(* The digest.                                                             *)
LEMMA UpToJoin ==
  ASSUME NEW T, NEW x \in Seq(T), NEW p \in Nat, UpTo(x, p), NEW b \in Nat
  PROVE  UpTo(x \o Run(p, b), p + b)
<1> DEFINE h == Len(x)
           a == p - h
<1>1. h \in Nat /\ h <= p /\ x = Run(a, h)
  BY DEF UpTo
<1>2. a \in Int /\ p = a + h /\ p \in Int /\ a + h + b = p + b
  <2> HIDE DEF h
  <2>1. QED
    BY <1>1
<1> HIDE DEF a, h
<1>3. Run(a, h) \o Run(p, b) = Run(a, h + b)
  <2>1. Run(a, h) \o Run(a + h, b) = Run(a, h + b)
    BY <1>1, <1>2, RunJoin, ZenonT(40)
  <2>2. QED
    BY <1>2, <2>1
<1>4. x \o Run(p, b) = Run(a, h + b)
  BY <1>1, <1>3, Zenon
<1>5. h + b \in Nat
  BY <1>1
<1>6. Len(Run(a, h + b)) = h + b
  BY <1>2, <1>5, RunIs
<1> DEFINE w == x \o Run(p, b)
<1> HIDE DEF w
<1>7. Len(w) = h + b /\ w = Run(a, h + b)
  BY <1>4, <1>6 DEF w
<1>8. h + b <= p + b /\ (p + b) - (h + b) = a
  BY <1>1, <1>2
<1>9. UpTo(w, p + b)
  BY <1>7, <1>8 DEF UpTo
<1>10. QED
  BY <1>9 DEF w

(* What of the digest was not there yet comes from the overlap and from    *)
(* the input.                                                              *)
DigestTakes(f, in, a, b) ==
  /\ a = Min({HashSize - Len(f.hash), Len(f.overlap)})
  /\ b = Min({HashSize - Len(f.hash) - a, in.size - in.pos})

DigestIs(f, in, a, b, hh) == hh = f.hash \o SubSeq(f.overlap, 1, a) \o Run(in.pos, b)

LEMMA DigestGives ==
  ASSUME NEW s \in Streams, NEW f, Own(s, f), NEW in, Buffer(s, in), NEW a, NEW b,
         DigestTakes(f, in, a, b), NEW hh, DigestIs(f, in, a, b, hh)
  PROVE  /\ a \in Nat /\ b \in Nat /\ in.pos + b <= in.size
         /\ hh \in Seq(1 .. Len(s)) /\ Len(hh) <= HashSize
         /\ Len(hh) # HashSize => a = Len(f.overlap)
<1> DEFINE h == f.hash
           v == f.overlap
           x == HashSize - Len(h)
           y == x - a
           l == in.size - in.pos
           T == 1 .. Len(s)
<1>1. h \in Seq(T) /\ v \in Seq(T) /\ Len(h) \in Nat /\ Len(h) <= HashSize /\ Len(v) \in Nat
  <2>1. OwnIs(s, f)
    BY OwnFields
  <2>2. QED
    BY <2>1 DEF OwnIs
<1>2. in.pos \in Nat /\ in.size \in Nat /\ in.pos <= in.size
  <2>1. BufferIs(s, in)
    BY BufferFields
  <2>2. QED
    BY <2>1 DEF BufferIs
<1>3. x \in Nat /\ l \in Nat /\ HashSize \in Nat /\ Len(h) + x = HashSize /\ in.pos + l = in.size
  <2> HIDE DEF h
  <2>1. QED
    BY <1>1, <1>2, DStreamAssumption
<1>4. a = Min({x, Len(v)}) /\ b = Min({y, l})
  BY DEF DigestTakes
<1> HIDE DEF x, l, h, v
<1>5. a \in Nat /\ a <= x /\ a <= Len(v)
  BY <1>1, <1>3, <1>4, LeastOf
<1>6. y \in Nat /\ y + a = x
  BY <1>3, <1>5
<1> HIDE DEF y
<1>7. b \in Nat /\ b <= y /\ b <= l
  BY <1>3, <1>4, <1>6, LeastOf
<1>8. a # Len(v) => a = x
  <2> DEFINE c == Len(v)
  <2>1. c \in Nat /\ a = Min({x, c})
    BY <1>1, <1>4
  <2> HIDE DEF c
  <2>2. a \in {x, c}
    <3>1. \E k \in {x, c} : \A j \in {x, c} : k <= j
      BY <1>3, <2>1
    <3>2. QED
      BY <2>1, <3>1 DEF Min
  <2>3. QED
    BY <2>2 DEF c
<1>9. in.pos + b <= in.size
  BY <1>2, <1>3, <1>7
<1> DEFINE w == Run(in.pos, b)
           u == SubSeq(v, 1, a)
<1>10. w \in Seq(T) /\ Len(w) = b
  <2>1. in.pos <= in.pos
    BY <1>2
  <2>2. QED
    BY <1>2, <1>7, <1>9, <2>1, ReadIs
<1>11. u \in Seq(T) /\ Len(u) = a
  <2> HIDE DEF T, w
  <2>1. a \in 0 .. Len(v)
    BY <1>1, <1>5
  <2>2. QED
    BY <1>1, <1>5, <2>1
<1>12. hh = h \o u \o w
  BY DEF DigestIs, h, v
<1> HIDE DEF w, u, T
<1>13. h \o u \in Seq(T) /\ Len(h \o u) = Len(h) + Len(u)
  BY <1>1, <1>11, JoinIs
<1> DEFINE z == h \o u
<1>14. z \in Seq(T) /\ Len(z) = Len(h) + a /\ hh = z \o w
  BY <1>11, <1>12, <1>13
<1> HIDE DEF z
<1>15. z \o w \in Seq(T) /\ Len(z \o w) = Len(z) + Len(w)
  BY <1>10, <1>14, JoinIs
<1>16. hh \in Seq(T) /\ Len(hh) = Len(h) + a + b
  BY <1>10, <1>14, <1>15
<1>17. Len(hh) <= HashSize
  BY <1>1, <1>3, <1>5, <1>6, <1>7, <1>16
<1>18. a = x => Len(hh) = HashSize
  BY <1>1, <1>3, <1>5, <1>6, <1>7, <1>16
<1>19. QED
  BY <1>5, <1>7, <1>8, <1>9, <1>16, <1>17, <1>18 DEF T, v

LEMMA DigestUpTo ==
  ASSUME NEW s \in Streams, NEW f, Own(s, f), NEW in, Buffer(s, in), NEW a, NEW b \in Nat,
         a = Len(f.overlap), UpTo(f.overlap, in.pos), UpTo(f.hash, in.pos),
         f.hash # <<>> => f.overlap = <<>>, NEW hh, DigestIs(f, in, a, b, hh)
  PROVE  UpTo(hh, in.pos + b)
<1> DEFINE h == f.hash
           v == f.overlap
           T == 1 .. Len(s)
           w == Run(in.pos, b)
           p == in.pos
           q == in.pos + b
<1>1. h \in Seq(T) /\ v \in Seq(T)
  <2>1. OwnIs(s, f)
    BY OwnFields
  <2>2. QED
    BY <2>1 DEF OwnIs
<1>2. p \in Nat
  <2>1. BufferIs(s, in)
    BY BufferFields
  <2>2. QED
    BY <2>1 DEF BufferIs
<1>3. UpTo(h, p) /\ UpTo(v, p) /\ (h # <<>> => v = <<>>) /\ a = Len(v)
  OBVIOUS
<1>4. SubSeq(v, 1, a) = v
  <2> HIDE DEF v, T, w, h, p, q
  <2>1. SubSeq(v, 1, Len(v)) = v
    BY <1>1
  <2>2. QED
    BY <1>3, <2>1
<1>5. hh = h \o v \o w
  <2>1. hh = h \o SubSeq(v, 1, a) \o w
    BY DEF DigestIs
  <2> HIDE DEF v, T, w, h, p, q
  <2>2. QED
    BY <1>4, <2>1
<1>6. UpTo(h \o w, q) /\ UpTo(v \o w, q)
  <2> HIDE DEF v, T, h
  <2>1. UpTo(h \o Run(p, b), p + b) /\ UpTo(v \o Run(p, b), p + b)
    <3> HIDE DEF p
    <3>1. QED
      BY <1>1, <1>2, <1>3, UpToJoin
  <2>2. QED
    BY <2>1
<1> HIDE DEF v, T, w, h, p, q
<1>7. h \o v = h \/ h \o v = v
  BY <1>1, <1>3, SMTT(30)
<1>8. UpTo(hh, q)
  BY <1>5, <1>6, <1>7, Zenon
<1>9. QED
  BY <1>8 DEF q

(* UF2_xxhCheck.                                                           *)
HashGoes(f, g, hh, st) == g.stage = st /\ g.dec = f.dec /\ g.overlap = <<>> /\ g.hash = hh

LEMMA CoreHash ==
  ASSUME NEW s \in Streams, NEW m, NEW f, Own(s, f), NEW in, Buffer(s, in), NEW o, NEW r,
         Core(s, m, f, in, "hash", r, o), f.stage = "hash", NEW a, NEW b,
         DigestTakes(f, in, a, b), NEW hh, DigestIs(f, in, a, b, hh),
         NEW in2, MovesTo(in, in2, in.pos + b),
         NEW st, st \in {"hash", "finished"}, st = "hash" => Len(hh) # HashSize,
         NEW g, HashGoes(f, g, hh, st)
  PROVE  Buffer(s, in2) /\ Core(s, m, g, in2, "report", r, o)
<1>0. /\ g.stage \in {"hash", "finished"} /\ g.dec = f.dec /\ g.overlap = <<>> /\ g.hash = hh
      /\ g.stage = "hash" => Len(hh) # HashSize
  BY DEF HashGoes
<1>1. /\ a \in Nat /\ b \in Nat /\ in.pos + b <= in.size
      /\ hh \in Seq(1 .. Len(s)) /\ Len(hh) <= HashSize
      /\ Len(hh) # HashSize => a = Len(f.overlap)
  BY DigestGives
<1>2. in.pos \in Nat /\ in.size \in Nat
  <2>1. BufferIs(s, in)
    BY BufferFields
  <2>2. QED
    BY <2>1 DEF BufferIs
<1>3. Buffer(s, in2) /\ in2.pos = in.pos + b
  <2> DEFINE q == in.pos + b
  <2>1. q \in Nat /\ in.pos <= q /\ q <= in.size /\ MovesTo(in, in2, q)
    BY <1>1, <1>2
  <2> HIDE DEF q
  <2>2. Buffer(s, in2) /\ in2.pos = q
    BY <2>1, BufferMoved
  <2>3. QED
    BY <2>2 DEF q
<1>4. /\ Nodes(m, o)
      /\ UpTo(f.overlap, in.pos) /\ UpTo(f.hash, in.pos)
      /\ f.hash # <<>> => f.overlap = <<>>
  BY DEF Core, Accounted
<1>5. g.stage = "hash" => UpTo(hh, in2.pos)
  BY <1>0, <1>1, <1>3, <1>4, DigestUpTo
<1>6. in2.pos \in Nat
  BY <1>1, <1>2, <1>3
<1>7. UpTo(<<>>, in2.pos)
  BY <1>6, UpToNothing
<1>8. Accounted(m, g, in2, o)
  BY <1>0, <1>4, <1>5, <1>7 DEF Accounted
<1>9. m.failState => OneThread(s, m, g, in2, o)
  <2> SUFFICES ASSUME m.failState PROVE OneThread(s, m, g, in2, o)
    OBVIOUS
  <2>1. OneThread(s, m, f, in, o)
    BY DEF Core
  <2>2. m.chain[1] # <<>> => FromChain(s, m, g.dec, g.stage, in2, o)
    BY <1>0, <2>1 DEF OneThread, FromChain
  <2>3. QED
    BY <1>0, <2>2 DEF OneThread
<1>10. SeveralThreads(s, m, g, in2, "report", r, o)
  BY <1>0 DEF SeveralThreads
<1>11. QED
  BY <1>3, <1>8, <1>9, <1>10 DEF Core
=============================================================================
