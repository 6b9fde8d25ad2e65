---------------------------- MODULE CollectorsProofs ----------------------------
(***************************************************************************)
(* Proofs about Collectors: the alerts of a pod, of a node and of a check  *)
(* of the load are the right ones, for any number of containers, restarts, *)
(* events, resources and changes.                                          *)
(*                                                                         *)
(* The rules build lists with FlattenSeq and add numbers with FoldLeft, so *)
(* the proofs first establish what these compute, by induction over the    *)
(* length: the elements of a concatenation, how many of them belong to a   *)
(* set, and that a sum of numbers is a number.  Each collector then has an *)
(* inductive invariant of its own, which relates what has been stored to   *)
(* the status it was stored for, and a step of one collector leaves the    *)
(* others' invariants alone.                                               *)
(***************************************************************************)
EXTENDS Collectors, SequenceLemmas, FiniteSetTheorems, WellFoundedInduction

-------------------------------------------------------------------------------
(* Induction *)

\* Induction over the natural numbers, for a property given by the set of the
\* numbers that have it.
LEMMA Induction ==
  ASSUME NEW P, 0 \in P, \A n \in Nat : n \in P => n + 1 \in P
  PROVE  \A n \in Nat : n \in P
<1> DEFINE R == {p \in Nat \X Nat : p[1] < p[2]}
<1>1. IsWellFoundedOn(R, Nat)
  BY NatLessThanWellFounded, Zenon DEF OpToRel
<1>2. \A x, y \in Nat : y < x => <<y, x>> \in R
  OBVIOUS
<1> HIDE DEF R
<1>3. Nat \ P = {}
  <2> SUFFICES ASSUME Nat \ P # {} PROVE FALSE
    OBVIOUS
  <2>1. PICK n \in Nat \ P : \A m \in Nat \ P : ~(<<m, n>> \in R)
    BY <1>1, WFMin
  <2>2. n # 0
    BY <2>1
  <2>3. n - 1 \in Nat /\ n - 1 < n /\ (n - 1) + 1 = n
    BY <2>1, <2>2
  <2>4. n - 1 \in P
    BY <1>2, <2>1, <2>3
  <2> QED
    BY <2>1, <2>3, <2>4
<1> QED
  BY <1>3

-------------------------------------------------------------------------------
(* Concatenation *)

LEMMA ConcatElements ==
  ASSUME NEW S, NEW s \in Seq(S), NEW t \in Seq(S)
  PROVE  /\ s \o t \in Seq(S)
         /\ Len(s \o t) = Len(s) + Len(t)
         /\ \A i \in 1 .. Len(s) : (s \o t)[i] = s[i]
         /\ \A i \in 1 .. Len(t) : (s \o t)[Len(s) + i] = t[i]
  OBVIOUS

\* The concatenations of the first i sequences: FlattenSeq is the last of them.
LEMMA Concatenations ==
  ASSUME NEW S, NEW seqs \in Seq(Seq(S))
  PROVE  \E f \in [0 .. Len(seqs) -> Seq(S)] :
           /\ f[0] = <<>>
           /\ \A i \in 1 .. Len(seqs) : f[i] = f[i - 1] \o seqs[i]
<1> DEFINE Good(n, f) == f[0] = <<>> /\ \A i \in 1 .. n : f[i] = f[i - 1] \o seqs[i]
<1> DEFINE P == {n \in Nat : n <= Len(seqs) => \E f \in [0 .. n -> Seq(S)] : Good(n, f)}
<1>1. 0 \in P
  <2> DEFINE f == [i \in 0 .. 0 |-> <<>>]
  <2>1. f \in [0 .. 0 -> Seq(S)] /\ f[0] = <<>>
    BY EmptyElements
  <2>2. Good(0, f)
    BY <2>1
  <2> QED
    BY <2>1, <2>2
<1>2. ASSUME NEW n \in Nat, n \in P PROVE n + 1 \in P
  <2> SUFFICES ASSUME n + 1 <= Len(seqs)
               PROVE  \E g \in [0 .. n + 1 -> Seq(S)] : Good(n + 1, g)
    <3> HIDE DEF Good
    <3> QED
      OBVIOUS
  <2>1. n + 1 \in 1 .. Len(seqs) /\ n <= Len(seqs)
    OBVIOUS
  <2>2. PICK f \in [0 .. n -> Seq(S)] : Good(n, f)
    BY <1>2, <2>1
  <2> DEFINE g == [i \in 0 .. n + 1 |-> IF i = n + 1 THEN f[n] \o seqs[n + 1] ELSE f[i]]
  <2>3. f[n] \o seqs[n + 1] \in Seq(S)
    BY <2>1, ConcatElements
  <2>4. g \in [0 .. n + 1 -> Seq(S)]
    BY <2>3
  <2>5. \A i \in 0 .. n : g[i] = f[i]
    OBVIOUS
  <2>6. g[n + 1] = f[n] \o seqs[n + 1]
    OBVIOUS
  <2> HIDE DEF g
  <2>7. ASSUME NEW i \in 1 .. n + 1 PROVE g[i] = g[i - 1] \o seqs[i]
    <3>1. CASE i = n + 1
      <4>1. i - 1 = n /\ n \in 0 .. n
        BY <3>1
      <4> QED
        BY <2>5, <2>6, <3>1, <4>1
    <3>2. CASE i # n + 1
      <4>1. i \in 1 .. n /\ i \in 0 .. n /\ i - 1 \in 0 .. n
        BY <3>2
      <4> QED
        BY <2>2, <2>5, <4>1
    <3> QED
      BY <3>1, <3>2
  <2>8. g[0] = <<>>
    BY <2>2, <2>5
  <2> QED
    BY <2>4, <2>7, <2>8
<1>3. Len(seqs) \in P
  <2> HIDE DEF P
  <2>1. Len(seqs) \in Nat
    OBVIOUS
  <2> QED
    BY <1>1, <1>2, <2>1, Induction
<1>4. \E f \in [0 .. Len(seqs) -> Seq(S)] : Good(Len(seqs), f)
  <2> HIDE DEF Good
  <2> QED
    BY <1>3
<1> QED
  BY <1>4

\* FlattenSeq is defined by recursion over the length: its value is the last of the
\* concatenations.
LEMMA FlattenSeqIs ==
  ASSUME NEW S, NEW seqs \in Seq(Seq(S))
  PROVE  \E f \in [0 .. Len(seqs) -> Seq(S)] :
           /\ f[0] = <<>>
           /\ \A i \in 1 .. Len(seqs) : f[i] = f[i - 1] \o seqs[i]
           /\ FlattenSeq(seqs) = f[Len(seqs)]
<1> DEFINE n == Len(seqs)
<1> DEFINE Step(g) == [i \in 1 .. n |-> IF i = 1 THEN seqs[i] ELSE g[i - 1] \o seqs[i]]
<1> DEFINE flatten == CHOOSE g : g = Step(g)
<1>0. n \in Nat
  OBVIOUS
<1>1. FlattenSeq(seqs) = IF n = 0 THEN seqs ELSE flatten[n]
  BY DEF FlattenSeq
<1>2. PICK f \in [0 .. n -> Seq(S)] :
        f[0] = <<>> /\ \A i \in 1 .. n : f[i] = f[i - 1] \o seqs[i]
  BY Concatenations
<1>9. \A i \in 1 .. n : seqs[i] \in Seq(S)
  OBVIOUS
<1>10. \A s \in Seq(S) : <<>> \o s = s
  OBVIOUS
<1>11. n = 0 => seqs = <<>>
  OBVIOUS
<1> HIDE DEF n
<1> DEFINE h == [i \in 1 .. n |-> f[i]]
<1>3. h = Step(h)
  <2>1. ASSUME NEW i \in 1 .. n
        PROVE  h[i] = IF i = 1 THEN seqs[i] ELSE h[i - 1] \o seqs[i]
    <3>1. f[i] = f[i - 1] \o seqs[i] /\ seqs[i] \in Seq(S)
      BY <1>2, <1>9
    <3>2. CASE i = 1
      <4>1. i - 1 = 0
        BY <3>2
      <4> QED
        BY <1>2, <1>10, <3>1, <3>2, <4>1
    <3>3. CASE i # 1
      <4>1. i - 1 \in 1 .. n
        BY <1>0, <3>3
      <4> QED
        BY <3>1, <3>3, <4>1
    <3> QED
      BY <3>2, <3>3
  <2> QED
    BY <2>1
<1>4. flatten = Step(flatten)
  <2> HIDE DEF Step, h
  <2> QED
    BY <1>3
<1> HIDE DEF flatten
<1> DEFINE P == {i \in Nat : i \in 1 .. n => flatten[i] = f[i]}
<1>5. 0 \in P
  OBVIOUS
<1>6. ASSUME NEW i \in Nat, i \in P PROVE i + 1 \in P
  <2> SUFFICES ASSUME i + 1 \in 1 .. n PROVE flatten[i + 1] = f[i + 1]
    OBVIOUS
  <2>1. flatten[i + 1] = IF i + 1 = 1 THEN seqs[i + 1] ELSE flatten[(i + 1) - 1] \o seqs[i + 1]
    BY <1>4
  <2>2. f[i + 1] = f[i] \o seqs[i + 1]
    <3>1. f[i + 1] = f[(i + 1) - 1] \o seqs[i + 1]
      BY <1>2
    <3>2. (i + 1) - 1 = i
      OBVIOUS
    <3> QED
      BY <3>1, <3>2
  <2>3. CASE i = 0
    <3>1. i + 1 = 1 /\ seqs[i + 1] \in Seq(S)
      BY <1>9, <2>3
    <3>2. f[i + 1] = <<>> \o seqs[i + 1]
      BY <1>2, <2>2, <2>3
    <3>3. f[i + 1] = seqs[i + 1]
      BY <1>10, <3>1, <3>2
    <3> QED
      BY <2>1, <3>1, <3>3
  <2>4. CASE i # 0
    <3>1. i \in 1 .. n /\ (i + 1) - 1 = i /\ i + 1 # 1
      BY <1>0, <2>4
    <3>2. flatten[i] = f[i]
      BY <1>6, <3>1
    <3> QED
      BY <2>1, <2>2, <3>1, <3>2
  <2> QED
    BY <2>3, <2>4
<1> HIDE DEF P
<1>7. n \in P
  BY <1>0, <1>5, <1>6, Induction
<1>8. FlattenSeq(seqs) = f[n]
  <2>1. CASE n = 0
    BY <1>1, <1>2, <1>11, <2>1
  <2>2. CASE n # 0
    <3>1. n \in 1 .. n
      BY <1>0, <2>2
    <3> QED
      BY <1>1, <1>7, <2>2, <3>1 DEF P
  <2> QED
    BY <2>1, <2>2
<1> QED
  BY <1>2, <1>8 DEF n

\* The elements of a concatenation are those of its parts.
LEMMA ConcatSet ==
  ASSUME NEW S, NEW s \in Seq(S), NEW t \in Seq(S)
  PROVE  Range(s \o t) = Range(s) \union Range(t)
<1>1. /\ DOMAIN s = 1 .. Len(s) /\ DOMAIN t = 1 .. Len(t)
      /\ DOMAIN (s \o t) = 1 .. Len(s) + Len(t)
      /\ Len(s) \in Nat /\ Len(t) \in Nat
      /\ \A i \in 1 .. Len(s) : (s \o t)[i] = s[i]
      /\ \A i \in 1 .. Len(t) : (s \o t)[Len(s) + i] = t[i]
  BY ConcatElements
<1> DEFINE u == s \o t
<1> HIDE DEF u
<1>2. ASSUME NEW i \in DOMAIN u PROVE u[i] \in Range(s) \union Range(t)
  <2>1. CASE i \in 1 .. Len(s)
    BY <1>1, <2>1 DEF Range, u
  <2>2. CASE i \notin 1 .. Len(s)
    <3>1. i - Len(s) \in 1 .. Len(t) /\ Len(s) + (i - Len(s)) = i
      BY <1>1, <2>2 DEF u
    <3>2. u[i] = t[i - Len(s)]
      BY <1>1, <3>1 DEF u
    <3> QED
      BY <1>1, <3>1, <3>2 DEF Range
  <2> QED
    BY <2>1, <2>2
<1>3. ASSUME NEW i \in DOMAIN s PROVE s[i] \in Range(u)
  <2>1. i \in DOMAIN u /\ u[i] = s[i]
    BY <1>1 DEF u
  <2> QED
    BY <2>1 DEF Range
<1>4. ASSUME NEW i \in DOMAIN t PROVE t[i] \in Range(u)
  <2>1. Len(s) + i \in DOMAIN u /\ u[Len(s) + i] = t[i]
    BY <1>1 DEF u
  <2> QED
    BY <2>1 DEF Range
<1>5. Range(u) = Range(s) \union Range(t)
  BY <1>2, <1>3, <1>4 DEF Range
<1> QED
  BY <1>5 DEF u

\* The elements of the flattened sequence are those of the sequences in it.
LEMMA FlattenElements ==
  ASSUME NEW S, NEW seqs \in Seq(Seq(S))
  PROVE  /\ FlattenSeq(seqs) \in Seq(S)
         /\ Range(FlattenSeq(seqs)) = UNION {Range(seqs[i]) : i \in 1 .. Len(seqs)}
<1>1. PICK f \in [0 .. Len(seqs) -> Seq(S)] :
        /\ f[0] = <<>>
        /\ \A i \in 1 .. Len(seqs) : f[i] = f[i - 1] \o seqs[i]
        /\ FlattenSeq(seqs) = f[Len(seqs)]
  BY FlattenSeqIs
<1> DEFINE n == Len(seqs)
<1>2. n \in Nat /\ \A i \in 1 .. n : seqs[i] \in Seq(S)
  OBVIOUS
<1> HIDE DEF n
<1> DEFINE P == {k \in Nat : k <= n => Range(f[k]) = UNION {Range(seqs[i]) : i \in 1 .. k}}
<1>3. 0 \in P
  <2>1. Range(f[0]) = {} /\ 1 .. 0 = {}
    BY <1>1 DEF Range
  <2> QED
    BY <2>1
<1>4. ASSUME NEW k \in Nat, k \in P PROVE k + 1 \in P
  <2> SUFFICES ASSUME k + 1 <= n
               PROVE  Range(f[k + 1]) = UNION {Range(seqs[i]) : i \in 1 .. k + 1}
    OBVIOUS
  <2>1. k + 1 \in 1 .. n /\ (k + 1) - 1 = k /\ k \in 0 .. n
    BY <1>2
  <2>2. f[k + 1] = f[k] \o seqs[k + 1] /\ f[k] \in Seq(S) /\ seqs[k + 1] \in Seq(S)
    BY <1>1, <1>2, <2>1 DEF n
  <2>3. Range(f[k + 1]) = Range(f[k]) \union Range(seqs[k + 1])
    BY <2>2, ConcatSet
  <2>4. Range(f[k]) = UNION {Range(seqs[i]) : i \in 1 .. k}
    BY <1>2, <1>4
  <2>5. 1 .. k + 1 = (1 .. k) \union {k + 1}
    OBVIOUS
  <2> QED
    BY <2>3, <2>4, <2>5, Zenon
<1> HIDE DEF P
<1>5. n \in P
  BY <1>2, <1>3, <1>4, Induction
<1>6. f[n] \in Seq(S)
  BY <1>1, <1>2 DEF n
<1> QED
  BY <1>1, <1>2, <1>5, <1>6 DEF P, n

-------------------------------------------------------------------------------
(* Counting *)

\* Where the elements of a sequence are that belong to a set.
Places(s, P) == {j \in DOMAIN s : s[j] \in P}

Count(s, P) == Cardinality(Places(s, P))

LEMMA CountIsNat ==
  ASSUME NEW S, NEW s \in Seq(S), NEW P
  PROVE  IsFiniteSet(Places(s, P)) /\ Count(s, P) \in Nat
<1>1. Len(s) \in Nat /\ DOMAIN s = 1 .. Len(s)
  OBVIOUS
<1>2. IsFiniteSet(1 .. Len(s)) /\ Places(s, P) \subseteq 1 .. Len(s)
  BY <1>1, FS_Interval DEF Places
<1> QED
  BY <1>2, FS_Subset, FS_CardinalityType DEF Count

\* A concatenation has as many elements of a set as its parts together.
LEMMA CountConcat ==
  ASSUME NEW S, NEW s \in Seq(S), NEW t \in Seq(S), NEW P
  PROVE  Count(s \o t, P) = Count(s, P) + Count(t, P)
<1> DEFINE A == Places(s, P)
<1> DEFINE B == Places(t, P)
<1> DEFINE C == {Len(s) + j : j \in B}
<1>1. /\ DOMAIN s = 1 .. Len(s) /\ DOMAIN t = 1 .. Len(t)
      /\ DOMAIN (s \o t) = 1 .. Len(s) + Len(t)
      /\ Len(s) \in Nat /\ Len(t) \in Nat
      /\ \A i \in 1 .. Len(s) : (s \o t)[i] = s[i]
      /\ \A i \in 1 .. Len(t) : (s \o t)[Len(s) + i] = t[i]
  BY ConcatElements
<1> DEFINE u == s \o t
<1> HIDE DEF u
<1>2. A \subseteq 1 .. Len(s) /\ B \subseteq 1 .. Len(t)
  BY <1>1 DEF Places
<1>3. Places(u, P) = A \union C
  <2>1. ASSUME NEW i \in Places(u, P) PROVE i \in A \union C
    <3>1. CASE i \in 1 .. Len(s)
      BY <1>1, <3>1 DEF Places, u
    <3>2. CASE i \notin 1 .. Len(s)
      <4>1. i \in 1 .. Len(s) + Len(t) /\ u[i] \in P
        BY <1>1 DEF Places, u
      <4>2. i - Len(s) \in 1 .. Len(t) /\ Len(s) + (i - Len(s)) = i
        BY <1>1, <3>2, <4>1
      <4>3. u[i] = t[i - Len(s)]
        BY <1>1, <4>2 DEF u
      <4>4. i - Len(s) \in B
        BY <1>1, <4>1, <4>2, <4>3 DEF Places
      <4> QED
        BY <4>2, <4>4
    <3> QED
      BY <3>1, <3>2
  <2>2. ASSUME NEW i \in A PROVE i \in Places(u, P)
    BY <1>1 DEF Places, u
  <2>3. ASSUME NEW j \in B PROVE Len(s) + j \in Places(u, P)
    BY <1>1 DEF Places, u
  <2> QED
    BY <2>1, <2>2, <2>3
<1>4. IsFiniteSet(A) /\ IsFiniteSet(B)
  BY CountIsNat
<1> HIDE DEF A, B
<1>5. IsFiniteSet(C) /\ Cardinality(C) = Cardinality(B)
  <2> DEFINE g == [j \in B |-> Len(s) + j]
  <2>1. g \in [B -> C]
    OBVIOUS
  <2>2. \A j, k \in B : g[j] = g[k] => j = k
    BY <1>1, <1>2
  <2>3. \A c \in C : \E j \in B : g[j] = c
    OBVIOUS
  <2>4. g \in Bijection(B, C)
    BY <2>1, <2>2, <2>3 DEF Bijection, Injection, Surjection, IsInjective
  <2>5. ExistsBijection(B, C)
    BY <2>4 DEF ExistsBijection
  <2> QED
    BY <1>4, <2>5, FS_Bijection
<1>6. A \intersect C = {}
  BY <1>1, <1>2
<1>7. Cardinality(A \union C) = Cardinality(A) + Cardinality(C)
  <2>1. Cardinality(A \union C) = Cardinality(A) + Cardinality(C) - Cardinality(A \intersect C)
    BY <1>4, <1>5, FS_Union
  <2>2. Cardinality(A \intersect C) = 0
    BY <1>6, FS_EmptySet
  <2>3. Cardinality(A) \in Nat /\ Cardinality(C) \in Nat
    BY <1>4, <1>5, FS_CardinalityType
  <2> QED
    BY <2>1, <2>2, <2>3
<1> QED
  BY <1>3, <1>5, <1>7 DEF Count, A, B, u

\* When no piece has more than one of them, they are as many as the pieces that have one.
LEMMA CountFlatten ==
  ASSUME NEW S, NEW seqs \in Seq(Seq(S)), NEW P, NEW H \in SUBSET (1 .. Len(seqs)),
         \A i \in 1 .. Len(seqs) : Count(seqs[i], P) = IF i \in H THEN 1 ELSE 0
  PROVE  Count(FlattenSeq(seqs), P) = Cardinality(H)
<1>1. PICK f \in [0 .. Len(seqs) -> Seq(S)] :
        /\ f[0] = <<>>
        /\ \A i \in 1 .. Len(seqs) : f[i] = f[i - 1] \o seqs[i]
        /\ FlattenSeq(seqs) = f[Len(seqs)]
  BY FlattenSeqIs
<1> DEFINE n == Len(seqs)
<1>2. n \in Nat /\ \A i \in 1 .. n : seqs[i] \in Seq(S)
  OBVIOUS
<1> HIDE DEF n
<1> DEFINE Q == {k \in Nat : k <= n => Count(f[k], P) = Cardinality(H \intersect (1 .. k))}
<1>3. 0 \in Q
  <2>1. Places(f[0], P) = {} /\ H \intersect (1 .. 0) = {}
    BY <1>1 DEF Places
  <2> QED
    BY <2>1, FS_EmptySet DEF Count
<1>4. ASSUME NEW k \in Nat, k \in Q PROVE k + 1 \in Q
  <2> SUFFICES ASSUME k + 1 <= n
               PROVE  Count(f[k + 1], P) = Cardinality(H \intersect (1 .. k + 1))
    OBVIOUS
  <2>1. k + 1 \in 1 .. n /\ (k + 1) - 1 = k /\ k \in 0 .. n
    BY <1>2
  <2>2. f[k + 1] = f[k] \o seqs[k + 1] /\ f[k] \in Seq(S) /\ seqs[k + 1] \in Seq(S)
    BY <1>1, <1>2, <2>1 DEF n
  <2>3. Count(f[k + 1], P) = Count(f[k], P) + Count(seqs[k + 1], P)
    BY <2>2, CountConcat
  <2>4. Count(f[k], P) = Cardinality(H \intersect (1 .. k))
    BY <1>2, <1>4
  <2> DEFINE T == H \intersect (1 .. k)
  <2>5. IsFiniteSet(T) /\ Cardinality(T) \in Nat /\ k + 1 \notin T
    <3>1. IsFiniteSet(1 .. k)
      BY FS_Interval
    <3> QED
      BY <3>1, FS_Subset, FS_CardinalityType
  <2>6. Cardinality(T \union {k + 1}) = Cardinality(T) + 1
    BY <2>5, FS_AddElement
  <2>7. H \intersect (1 .. k + 1) = IF k + 1 \in H THEN T \union {k + 1} ELSE T
    OBVIOUS
  <2>8. Count(seqs[k + 1], P) = IF k + 1 \in H THEN 1 ELSE 0
    BY <2>1 DEF n
  <2> HIDE DEF T
  <2>9. CASE k + 1 \in H
    BY <2>3, <2>4, <2>6, <2>7, <2>8, <2>9 DEF T
  <2>10. CASE k + 1 \notin H
    <3>1. H \intersect (1 .. k + 1) = T /\ Count(seqs[k + 1], P) = 0
      BY <2>7, <2>8, <2>10
    <3>2. Count(f[k], P) = Cardinality(T)
      BY <2>4 DEF T
    <3>3. Count(f[k + 1], P) = Cardinality(T) + 0
      BY <2>3, <3>1, <3>2, Zenon
    <3>4. Cardinality(T) + 0 = Cardinality(T)
      BY <2>5
    <3> QED
      BY <3>1, <3>3, <3>4, Zenon
  <2> QED
    BY <2>9, <2>10
<1> HIDE DEF Q
<1>5. n \in Q
  BY <1>2, <1>3, <1>4, Induction
<1>6. H \intersect (1 .. n) = H
  BY DEF n
<1> QED
  BY <1>1, <1>2, <1>5, <1>6 DEF Q, n

-------------------------------------------------------------------------------
(* The node *)

Condition == [type : ConditionType \union {"NetworkUnavailable"},
              status : {"True", "False", "Unknown"}]
NodeAlert == [type : ConditionType, severity : {"critical", "high", "medium"}]

\* While the kubelet is silent nobody knows the conditions it reports.
NodeInv ==
  /\ Node!TypeOK
  /\ DOMAIN conditions = 1 .. 5
  /\ \A i \in 1 .. 5 : conditions[i].type = Node!Types[i]
  /\ silent => \A i \in 1 .. 5 : Node!Types[i] \in ConditionType => conditions[i].status = "Unknown"
  /\ SilenceIsOneAlert

LEMMA NodeTypes ==
  /\ DOMAIN Node!Types = 1 .. 5
  /\ \A i \in 1 .. 4 : Node!Types[i] # "Ready"
  /\ Node!Types[5] = "Ready"
  /\ \A i \in 1 .. 5 : Node!Types[i] \in ConditionType \union {"NetworkUnavailable"}
  /\ Node!ConditionType = ConditionType
<1>1. Node!Types = <<"NetworkUnavailable", "MemoryPressure", "DiskPressure", "PIDPressure", "Ready">>
  BY DEF Node!Types
<1>2. Node!ConditionType = ConditionType
  BY DEF Node!ConditionType, ConditionType
<1> QED
  BY <1>1, <1>2 DEF ConditionType

LEMMA SameFlatten ==
  ASSUME NEW seqs
  PROVE  Node!FlattenSeq(seqs) = FlattenSeq(seqs)
  BY Zenon DEF Node!FlattenSeq, FlattenSeq

\* What a list of conditions gives rise to, condition by condition.
LEMMA NodePieces ==
  ASSUME NodeInv
  PROVE  \E pieces \in Seq(Seq(NodeAlert)) :
           /\ Len(pieces) = 5
           /\ Node!EvaluateNodeConditions(conditions) = FlattenSeq(pieces)
           /\ \A i \in 1 .. 5 :
                pieces[i] = IF Node!Alarming(conditions[i].type, conditions[i].status)
                            THEN <<[type |-> conditions[i].type,
                                    severity |-> Node!NodeSeverity[conditions[i].type]]>>
                            ELSE <<>>
<1> DEFINE pieces ==
      [i \in DOMAIN conditions |->
         Node!When(Node!Alarming(conditions[i].type, conditions[i].status),
                   [type |-> conditions[i].type,
                    severity |-> Node!NodeSeverity[conditions[i].type]])]
<1>1. Node!EvaluateNodeConditions(conditions) = FlattenSeq(pieces)
  BY SameFlatten DEF Node!EvaluateNodeConditions
<1>2. DOMAIN conditions = 1 .. 5
  BY DEF NodeInv
<1>3. ASSUME NEW i \in 1 .. 5
      PROVE  /\ pieces[i] = IF Node!Alarming(conditions[i].type, conditions[i].status)
                            THEN <<[type |-> conditions[i].type,
                                    severity |-> Node!NodeSeverity[conditions[i].type]]>>
                            ELSE <<>>
             /\ pieces[i] \in Seq(NodeAlert)
  <2>1. pieces[i] = IF Node!Alarming(conditions[i].type, conditions[i].status)
                    THEN <<[type |-> conditions[i].type,
                            severity |-> Node!NodeSeverity[conditions[i].type]]>>
                    ELSE <<>>
    BY <1>2 DEF Node!When
  <2>2. CASE Node!Alarming(conditions[i].type, conditions[i].status)
    <3>1. conditions[i].type \in ConditionType
      BY <2>2, NodeTypes DEF Node!Alarming, ConditionType
    <3>2. [type |-> conditions[i].type, severity |-> Node!NodeSeverity[conditions[i].type]]
            \in NodeAlert
      BY <3>1 DEF NodeAlert, Node!NodeSeverity, ConditionType
    <3> DEFINE a == [type |-> conditions[i].type,
                     severity |-> Node!NodeSeverity[conditions[i].type]]
    <3>3. pieces[i] = <<a>>
      BY <2>1, <2>2
    <3> HIDE DEF a
    <3>4. <<a>> \in Seq(NodeAlert)
      BY <3>2 DEF a
    <3> QED
      BY <2>1, <3>3, <3>4, Zenon
  <2>3. CASE ~Node!Alarming(conditions[i].type, conditions[i].status)
    BY <2>1, <2>3, EmptyElements
  <2> QED
    BY <2>1, <2>2, <2>3
<1>4. pieces \in Seq(Seq(NodeAlert)) /\ Len(pieces) = 5
  BY <1>2, <1>3
<1> QED
  BY <1>1, <1>3, <1>4

LEMMA NodeAlertsTyped ==
  ASSUME NodeInv
  PROVE  Node!EvaluateNodeConditions(conditions) \in Seq(NodeAlert)
  BY NodePieces, FlattenElements

\* Of the conditions nobody knows only Ready is alarming.
LEMMA SilentNode ==
  ASSUME NodeInv, silent
  PROVE  Node!EvaluateNodeConditions(conditions) = <<[type |-> "Ready", severity |-> "critical"]>>
<1> DEFINE ready == [type |-> "Ready", severity |-> "critical"]
<1>1. PICK pieces \in Seq(Seq(NodeAlert)) :
        /\ Len(pieces) = 5
        /\ Node!EvaluateNodeConditions(conditions) = FlattenSeq(pieces)
        /\ \A i \in 1 .. 5 :
             pieces[i] = IF Node!Alarming(conditions[i].type, conditions[i].status)
                         THEN <<[type |-> conditions[i].type,
                                 severity |-> Node!NodeSeverity[conditions[i].type]]>>
                         ELSE <<>>
  BY NodePieces
<1>2. ASSUME NEW i \in 1 .. 4 PROVE pieces[i] = <<>>
  <2>0. i \in 1 .. 5
    OBVIOUS
  <2>1. /\ conditions[i].type = Node!Types[i]
        /\ Node!Types[i] # "Ready"
        /\ Node!Types[i] \in ConditionType => conditions[i].status = "Unknown"
    BY <2>0, NodeTypes DEF NodeInv
  <2>2. ~Node!Alarming(conditions[i].type, conditions[i].status)
    BY <2>1, NodeTypes DEF Node!Alarming
  <2> QED
    BY <1>1, <2>2
<1>3. pieces[5] = <<ready>>
  <2>1. conditions[5].type = "Ready" /\ conditions[5].status = "Unknown"
    BY NodeTypes DEF NodeInv, ConditionType
  <2>2. Node!Alarming(conditions[5].type, conditions[5].status)
    BY <2>1 DEF Node!Alarming
  <2>3. Node!NodeSeverity["Ready"] = "critical"
    BY DEF Node!NodeSeverity
  <2> QED
    BY <1>1, <2>1, <2>2, <2>3
<1>4. PICK f \in [0 .. Len(pieces) -> Seq(NodeAlert)] :
        /\ f[0] = <<>>
        /\ \A i \in 1 .. Len(pieces) : f[i] = f[i - 1] \o pieces[i]
        /\ FlattenSeq(pieces) = f[Len(pieces)]
  BY FlattenSeqIs
<1>5. <<>> \o <<>> = <<>> /\ <<>> \o <<ready>> = <<ready>>
  OBVIOUS
<1>6. /\ f[1] = f[0] \o pieces[1]
      /\ f[2] = f[1] \o pieces[2]
      /\ f[3] = f[2] \o pieces[3]
      /\ f[4] = f[3] \o pieces[4]
      /\ f[5] = f[4] \o pieces[5]
  <2>1. \A i \in 1 .. 5 : f[i] = f[i - 1] \o pieces[i]
    BY <1>1, <1>4
  <2>2. 1 - 1 = 0 /\ 2 - 1 = 1 /\ 3 - 1 = 2 /\ 4 - 1 = 3 /\ 5 - 1 = 4
    OBVIOUS
  <2>3. {1, 2, 3, 4, 5} \subseteq 1 .. 5
    OBVIOUS
  <2> HIDE DEF ready
  <2> QED
    BY <2>1, <2>2, <2>3
<1>7. pieces[1] = <<>> /\ pieces[2] = <<>> /\ pieces[3] = <<>> /\ pieces[4] = <<>>
  BY <1>2
<1> HIDE DEF ready
<1>8. f[5] = <<ready>>
  <2>1. f[0] = <<>>
    BY <1>4
  <2>2. f[1] = <<>>
    BY <1>5, <1>6, <1>7, <2>1
  <2>3. f[2] = <<>>
    BY <1>5, <1>6, <1>7, <2>2
  <2>4. f[3] = <<>>
    BY <1>5, <1>6, <1>7, <2>3
  <2>5. f[4] = <<>>
    BY <1>5, <1>6, <1>7, <2>4
  <2> QED
    BY <1>3, <1>5, <1>6, <2>5
<1>9. FlattenSeq(pieces) = f[5]
  BY <1>1, <1>4
<1> QED
  BY <1>1, <1>8, <1>9 DEF ready
\* The invariant of the node: initially, and at each step.
LEMMA NodeInitial ==
  ASSUME Node!Init
  PROVE  NodeInv
<1>1. conditions = [i \in DOMAIN Node!Types |->
        [type |-> Node!Types[i], status |-> IF Node!Types[i] = "Ready" THEN "True" ELSE "False"]]
  BY DEF Node!Init
<1>2. silent = FALSE /\ nodeEvents = 0 /\ nodeStored = <<>>
  BY DEF Node!Init
<1>3. DOMAIN conditions = 1 .. 5
  BY <1>1, NodeTypes
<1>4. ASSUME NEW i \in 1 .. 5
      PROVE  /\ conditions[i].type = Node!Types[i]
             /\ conditions[i] \in Condition
  BY <1>1, NodeTypes DEF Condition
<1>5. Node!TypeOK
  <2>1. nodeEvents \in 0 .. MaxEvents
    BY <1>2, PodAssumption
  <2>2. conditions \in Seq(Condition)
    BY <1>1, <1>3, <1>4
  <2>3. /\ nodeStored \in Seq(NodeAlert)
        /\ silent \in BOOLEAN
    BY <1>2, EmptyElements
  <2> QED
    BY <2>1, <2>2, <2>3, NodeTypes, Zenon DEF Node!TypeOK, NodeAlert, Condition
<1>6. SilenceIsOneAlert
  BY <1>2 DEF SilenceIsOneAlert, Node!SilenceIsOneAlert
<1> QED
  BY <1>2, <1>3, <1>4, <1>5, <1>6 DEF NodeInv

\* The status changes: the types of its conditions do not, and nothing is stored of it yet.
LEMMA NodeChange ==
  ASSUME NodeInv, NEW list \in Seq(Condition), Node!ChangeTo(list), silent' \in BOOLEAN,
         DOMAIN list = 1 .. 5,
         \A i \in 1 .. 5 :
           /\ list[i].type = conditions[i].type
           /\ silent' /\ Node!Types[i] \in ConditionType => list[i].status = "Unknown"
  PROVE  NodeInv'
<1>1. conditions' = list /\ nodeEvents' = 0 /\ nodeStored' = <<>>
  BY DEF Node!ChangeTo
<1>2. DOMAIN conditions = 1 .. 5 /\ \A i \in 1 .. 5 : conditions[i].type = Node!Types[i]
  BY DEF NodeInv
<1>3. conditions' \in Seq(Condition)
  BY <1>1
<1>4. Node!TypeOK'
  <2>1. nodeEvents' \in 0 .. MaxEvents
    BY <1>1, PodAssumption
  <2>2. nodeStored' \in Seq(NodeAlert)
    BY <1>1, EmptyElements
  <2> QED
    BY <1>3, <2>1, <2>2, NodeTypes, Zenon DEF Node!TypeOK, NodeAlert, Condition
<1>5. SilenceIsOneAlert'
  BY <1>1 DEF SilenceIsOneAlert, Node!SilenceIsOneAlert
<1> QED
  BY <1>1, <1>2, <1>4, <1>5 DEF NodeInv

\* What an event adds.
LEMMA NodeEvent ==
  ASSUME NodeInv, Node!Event
  PROVE  NodeInv'
<1> DEFINE new == Node!EvaluateNodeConditions(conditions)
<1>1. /\ nodeEvents < MaxEvents
      /\ nodeEvents' = nodeEvents + 1
      /\ nodeStored' = nodeStored \o new
      /\ conditions' = conditions
      /\ silent' = silent
  BY DEF Node!Event
<1>2. new \in Seq(NodeAlert)
  BY NodeAlertsTyped
<1>3. /\ conditions \in Seq(Condition)
      /\ silent \in BOOLEAN
      /\ nodeEvents \in 0 .. MaxEvents
      /\ nodeStored \in Seq(NodeAlert)
  BY NodeTypes, Zenon DEF NodeInv, Node!TypeOK, NodeAlert, Condition
<1> HIDE DEF new
<1>4. nodeStored' \in Seq(NodeAlert)
  BY <1>1, <1>2, <1>3, ConcatElements
<1>5. nodeEvents' \in 0 .. MaxEvents
  BY <1>1, <1>3, PodAssumption
<1>6. Node!TypeOK'
  BY <1>1, <1>3, <1>4, <1>5, NodeTypes, Zenon DEF Node!TypeOK, NodeAlert, Condition
<1>7. ASSUME silent
      PROVE  /\ Len(nodeStored') = nodeEvents'
             /\ \A j \in DOMAIN nodeStored' :
                  nodeStored'[j] = [type |-> "Ready", severity |-> "critical"]
  <2> DEFINE ready == [type |-> "Ready", severity |-> "critical"]
  <2>1. new = <<ready>>
    BY <1>7, SilentNode DEF new
  <2>2. Len(nodeStored) = nodeEvents /\ \A j \in DOMAIN nodeStored : nodeStored[j] = ready
    BY <1>7 DEF NodeInv, SilenceIsOneAlert, Node!SilenceIsOneAlert
  <2> HIDE DEF ready
  <2>3. nodeStored' = Append(nodeStored, ready)
    BY <1>1, <1>3, <2>1
  <2>4. /\ Len(nodeStored') = Len(nodeStored) + 1
        /\ \A j \in DOMAIN nodeStored' : nodeStored'[j] = ready
    BY <1>3, <2>2, <2>3
  <2> QED
    BY <1>1, <2>2, <2>4 DEF ready
<1>8. SilenceIsOneAlert'
  BY <1>1, <1>7 DEF SilenceIsOneAlert, Node!SilenceIsOneAlert
<1> QED
  BY <1>1, <1>6, <1>8 DEF NodeInv

LEMMA NodeNext ==
  ASSUME NodeInv, Node!Next
  PROVE  NodeInv'
<1>1. /\ DOMAIN conditions = 1 .. 5
      /\ \A i \in 1 .. 5 :
           /\ conditions[i] \in Condition
           /\ conditions[i].type = Node!Types[i]
      /\ silent \in BOOLEAN
      /\ conditions \in Seq(Condition)
  <2>1. /\ DOMAIN conditions = 1 .. 5
        /\ \A i \in 1 .. 5 : conditions[i].type = Node!Types[i]
    BY DEF NodeInv
  <2>2. conditions \in Seq(Condition) /\ silent \in BOOLEAN
    BY NodeTypes, Zenon DEF NodeInv, Node!TypeOK, Condition
  <2>3. \A i \in 1 .. 5 : conditions[i] \in Condition
    <3>1. \A s \in Seq(Condition) : \A i \in DOMAIN s : s[i] \in Condition
      OBVIOUS
    <3> QED
      BY <2>1, <2>2, <3>1, Zenon
  <2> QED
    BY <2>1, <2>2, <2>3, Zenon
<1>2. CASE Node!FallSilent
  <2> DEFINE list == [i \in DOMAIN conditions |->
        IF conditions[i].type \in Node!ConditionType
        THEN [conditions[i] EXCEPT !.status = "Unknown"] ELSE conditions[i]]
  <2>1. Node!ChangeTo(list) /\ silent' = TRUE
    BY <1>2 DEF Node!FallSilent
  <2>2. DOMAIN list = 1 .. 5
    BY <1>1
  <2>3. ASSUME NEW i \in 1 .. 5
        PROVE  /\ list[i] \in Condition
               /\ list[i].type = conditions[i].type
               /\ Node!Types[i] \in ConditionType => list[i].status = "Unknown"
    BY <1>1, NodeTypes DEF Condition
  <2>4. list \in Seq(Condition)
    BY <2>2, <2>3
  <2> HIDE DEF list
  <2> QED
    BY <2>1, <2>2, <2>3, <2>4, NodeChange
<1>3. CASE Node!ReportAgain
  <2>1. PICK status \in [Node!ConditionType -> {"True", "False"}] :
          Node!ChangeTo([i \in DOMAIN conditions |->
            IF conditions[i].type \in Node!ConditionType
            THEN [conditions[i] EXCEPT !.status = status[Node!Types[i]]] ELSE conditions[i]])
    BY <1>3 DEF Node!ReportAgain
  <2>2. silent' = FALSE
    BY <1>3 DEF Node!ReportAgain
  <2> DEFINE list == [i \in DOMAIN conditions |->
        IF conditions[i].type \in Node!ConditionType
        THEN [conditions[i] EXCEPT !.status = status[Node!Types[i]]] ELSE conditions[i]]
  <2>3. DOMAIN list = 1 .. 5
    BY <1>1
  <2>4. ASSUME NEW i \in 1 .. 5
        PROVE  /\ list[i] \in Condition
               /\ list[i].type = conditions[i].type
    BY <1>1, <2>1, NodeTypes DEF Condition
  <2>5. Node!ChangeTo(list)
    BY <2>1
  <2>6. list \in Seq(Condition)
    BY <2>3, <2>4
  <2> HIDE DEF list
  <2> QED
    BY <2>2, <2>3, <2>4, <2>5, <2>6, NodeChange
<1>4. ASSUME NEW i \in DOMAIN Node!Types, NEW status \in {"True", "False"},
             Node!SetCondition(i, status)
      PROVE  NodeInv'
  <2> DEFINE list == [conditions EXCEPT ![i].status = status]
  <2>1. Node!ChangeTo(list) /\ silent' = silent /\ ~silent
    BY <1>4 DEF Node!SetCondition
  <2>2. DOMAIN list = 1 .. 5
    BY <1>1
  <2>3. ASSUME NEW k \in 1 .. 5
        PROVE  /\ list[k] \in Condition
               /\ list[k].type = conditions[k].type
    BY <1>1, NodeTypes DEF Condition
  <2>4. list \in Seq(Condition)
    <3>1. Len(conditions) = 5
      BY <1>1
    <3>2. list = [k \in 1 .. 5 |-> list[k]]
      BY <1>1, <2>2
    <3> HIDE DEF list
    <3> QED
      BY <2>3, <3>2
  <2>5. silent' \in BOOLEAN /\ ~silent'
    BY <2>1, <1>1
  <2> HIDE DEF list
  <2> QED
    BY <2>1, <2>2, <2>3, <2>4, <2>5, NodeChange
<1> QED
  BY <1>2, <1>3, <1>4, NodeEvent DEF Node!Next

LEMMA NodeStutter ==
  ASSUME NodeInv, UNCHANGED nodeVars
  PROVE  NodeInv'
  BY DEF nodeVars, NodeInv, Node!TypeOK, SilenceIsOneAlert, Node!SilenceIsOneAlert,
         Node!Types
-------------------------------------------------------------------------------
(* The check of the load *)

Amounts == {Load!Total(parts, field) : parts \in Shape \union {<<>>}, field \in {"usage", "base"}}
Read == [name : Load!Name, usage : Amounts, base : Amounts]
LoadAlert == [name : Load!Name, metric : Load!Metric, severity : {"high", "critical"}]

\* The names of the resources that have been read.
Known == {metrics[i].name : i \in DOMAIN metrics}

\* The alerts that what has been read gives rise to.
Due == {Load!Alert(metrics[p[1]], p[2]) :
          p \in {p \in (DOMAIN metrics) \X Load!Metric : Load!Raised(metrics[p[1]], p[2])}}

\* What has been read of a resource that is undisturbed is what it has.
ReadRight ==
  /\ \A i \in DOMAIN metrics :
       metrics[i].name \notin disturbed =>
         \A field \in {"usage", "base"} :
           metrics[i][field] = Load!Total(cluster[metrics[i].name], field)
  /\ usage # <<>> =>
       /\ usage \in Seq(Amounts)
       /\ Head(todo) \notin disturbed => Head(usage) = Load!Total(cluster[Head(todo)], "usage")

LoadTyped ==
  /\ env \in [Load!Metric -> {<<>>, <<EnvThreshold>>}]
  /\ metrics \in Seq(Read)
  /\ alerts \in Seq(LoadAlert)

\* None is lost: what is undisturbed and exists is still to be read, or has been.
NoneForgotten ==
  \A n \in Load!Name \ disturbed : cluster[n] # <<>> => n \in Range(todo) \union Known

Progress ==
  /\ check = "due" => todo = <<>> /\ usage = <<>> /\ metrics = <<>>
  /\ check \in {"due", "reading"} => alerts = <<>> /\ processed = {}
  /\ check \in {"reading", "alerting", "returned"} => NoneForgotten
  /\ check \in {"alerting", "returned"} =>
       todo = <<>> /\ Range(alerts) \union {p.alert : p \in processed} = Due
  /\ check = "returned" => alerts = <<>>

LoadInv == Load!TypeOK /\ LoadTyped /\ ReadRight /\ Progress

LEMMA SameFlattenLoad ==
  ASSUME NEW seqs
  PROVE  Load!FlattenSeq(seqs) = FlattenSeq(seqs)
  BY Zenon DEF Load!FlattenSeq, FlattenSeq

\* The alerts are those of the metrics each resource is over the threshold of.
LEMMA LoadAlertsAreDue ==
  ASSUME metrics \in Seq(Read)
  PROVE  Load!LoadAlerts \in Seq(LoadAlert) /\ Range(Load!LoadAlerts) = Due
<1> DEFINE one(i, m) == IF Load!Raised(metrics[i], m) THEN <<Load!Alert(metrics[i], m)>> ELSE <<>>
<1> DEFINE pieces == [i \in DOMAIN metrics |-> one(i, "cpu") \o one(i, "memory")]
<1>1. Load!LoadAlerts = FlattenSeq(pieces)
  BY SameFlattenLoad DEF Load!LoadAlerts
<1>2. DOMAIN metrics = 1 .. Len(metrics) /\ Len(metrics) \in Nat
  OBVIOUS
<1>3. \A i \in DOMAIN metrics : metrics[i] \in Read
  OBVIOUS
<1>4. ASSUME NEW i \in DOMAIN metrics, NEW m \in Load!Metric
      PROVE  /\ one(i, m) \in Seq(LoadAlert)
             /\ Range(one(i, m)) = {Load!Alert(metrics[i], k) :
                                      k \in {k \in {m} : Load!Raised(metrics[i], k)}}
  <2> DEFINE a == Load!Alert(metrics[i], m)
  <2>1. a \in LoadAlert
    BY <1>3 DEF Load!Alert, LoadAlert, Read
  <2> HIDE DEF a
  <2>2. <<a>> \in Seq(LoadAlert) /\ Range(<<a>>) = {a}
    BY <2>1 DEF Range
  <2>3. CASE Load!Raised(metrics[i], m)
    <3>1. one(i, m) = <<a>>
      BY <2>3 DEF a
    <3>2. {Load!Alert(metrics[i], k) : k \in {k \in {m} : Load!Raised(metrics[i], k)}} = {a}
      BY <2>3 DEF a
    <3> QED
      BY <2>2, <3>1, <3>2, Zenon
  <2>4. CASE ~Load!Raised(metrics[i], m)
    <3>1. one(i, m) = <<>>
      BY <2>4
    <3>2. {Load!Alert(metrics[i], k) : k \in {k \in {m} : Load!Raised(metrics[i], k)}} = {}
      BY <2>4
    <3> QED
      BY <3>1, <3>2, EmptyElements, Zenon
  <2> QED
    BY <2>3, <2>4
<1> HIDE DEF one
<1>5. Load!Metric = {"cpu", "memory"}
  BY DEF Load!Metric
<1>6. ASSUME NEW i \in DOMAIN metrics
      PROVE  /\ pieces[i] \in Seq(LoadAlert)
             /\ Range(pieces[i]) = {Load!Alert(metrics[i], k) :
                                      k \in {k \in Load!Metric : Load!Raised(metrics[i], k)}}
  <2>1. pieces[i] = one(i, "cpu") \o one(i, "memory")
    OBVIOUS
  <2>2. one(i, "cpu") \in Seq(LoadAlert) /\ one(i, "memory") \in Seq(LoadAlert)
    BY <1>4, <1>5
  <2>3. /\ pieces[i] \in Seq(LoadAlert)
        /\ Range(pieces[i]) = Range(one(i, "cpu")) \union Range(one(i, "memory"))
    BY <2>1, <2>2, ConcatElements, ConcatSet
  <2> QED
    BY <1>4, <1>5, <2>3
<1>7. pieces \in Seq(Seq(LoadAlert)) /\ DOMAIN pieces = DOMAIN metrics /\ Len(pieces) = Len(metrics)
  BY <1>2, <1>6
<1> HIDE DEF pieces
<1>8. /\ FlattenSeq(pieces) \in Seq(LoadAlert)
      /\ Range(FlattenSeq(pieces)) = UNION {Range(pieces[i]) : i \in 1 .. Len(pieces)}
  BY <1>7, FlattenElements
<1>9. UNION {Range(pieces[i]) : i \in 1 .. Len(pieces)} = Due
  <2>1. ASSUME NEW a, a \in UNION {Range(pieces[i]) : i \in 1 .. Len(pieces)} PROVE a \in Due
    <3>1. PICK i \in DOMAIN metrics : a \in Range(pieces[i])
      BY <1>2, <1>7, <2>1
    <3>2. PICK k \in Load!Metric : Load!Raised(metrics[i], k) /\ a = Load!Alert(metrics[i], k)
      BY <1>6, <3>1
    <3> DEFINE p == <<i, k>>
    <3>3. p \in (DOMAIN metrics) \X Load!Metric /\ p[1] = i /\ p[2] = k
      OBVIOUS
    <3> HIDE DEF p
    <3>4. Load!Raised(metrics[p[1]], p[2]) /\ a = Load!Alert(metrics[p[1]], p[2])
      BY <3>2, <3>3
    <3> QED
      BY <3>3, <3>4, Zenon DEF Due
  <2>2. ASSUME NEW a \in Due PROVE a \in UNION {Range(pieces[i]) : i \in 1 .. Len(pieces)}
    <3>1. PICK i \in DOMAIN metrics, k \in Load!Metric :
            Load!Raised(metrics[i], k) /\ a = Load!Alert(metrics[i], k)
      BY DEF Due
    <3>2. a \in Range(pieces[i])
      BY <1>6, <3>1
    <3> QED
      BY <1>2, <1>7, <3>2
  <2> QED
    BY <2>1, <2>2
<1> QED
  BY <1>1, <1>8, <1>9
\* SetToSeq lists a finite set.
LEMMA SetToSeqIs ==
  ASSUME NEW S, IsFiniteSet(S)
  PROVE  SetToSeq(S) \in Seq(S) /\ Range(SetToSeq(S)) = S
<1> DEFINE n == Cardinality(S)
<1>1. n \in Nat /\ ExistsBijection(1 .. n, S)
  BY FS_CardinalityType
<1> HIDE DEF n
<1>2. PICK g \in Bijection(1 .. n, S) : TRUE
  BY <1>1 DEF ExistsBijection
<1>3. g \in [1 .. n -> S] /\ IsInjective(g)
  BY <1>2 DEF Bijection, Injection, IsInjective
<1> DEFINE f == CHOOSE f \in [1 .. n -> S] : IsInjective(f)
<1>4. f \in [1 .. n -> S] /\ IsInjective(f)
  BY <1>3
<1> HIDE DEF f
<1>5. f \in Injection(1 .. n, S)
  BY <1>4 DEF Injection
<1>6. IsFiniteSet(1 .. n) /\ Cardinality(1 .. n) = n
  BY <1>1, FS_Interval
<1>7. f \in Surjection(1 .. n, S)
  BY <1>5, <1>6, FS_Injection DEF n
<1>8. f \in Seq(S)
  BY <1>1, <1>4
<1>9. Range(f) = S
  BY <1>4, <1>7 DEF Surjection, Range
<1> QED
  BY <1>8, <1>9 DEF SetToSeq, f, n

LEMMA SameSetToSeq ==
  ASSUME NEW S
  PROVE  Load!SetToSeq(S) = SetToSeq(S)
  BY Zenon DEF Load!SetToSeq, SetToSeq, Load!IsInjective, IsInjective, Load!Cardinality, Cardinality

\* The invariant of the check: initially, and at each step.
LEMMA LoadInitial ==
  ASSUME Load!Init
  PROVE  LoadInv
<1>1. /\ check = "due" /\ todo = <<>> /\ usage = <<>> /\ metrics = <<>>
      /\ alerts = <<>> /\ processed = {} /\ changes = 0 /\ disturbed = {}
  BY DEF Load!Init
<1>2. /\ kind \in {"pods", "nodes"}
      /\ env \in [Load!Metric -> {<<>>, <<EnvThreshold>>}]
      /\ cluster \in [Load!Name -> Shape \union {<<>>}]
  BY DEF Load!Init
<1>3. Load!TypeOK
  BY <1>1, <1>2, EmptyElements, LoadAssumption DEF Load!TypeOK
<1>4. LoadTyped
  BY <1>1, <1>2, EmptyElements DEF LoadTyped
<1>5. ReadRight
  BY <1>1 DEF ReadRight
<1>6. Progress
  BY <1>1 DEF Progress
<1> QED
  BY <1>3, <1>4, <1>5, <1>6 DEF LoadInv

LEMMA LoadList ==
  ASSUME LoadInv, Load!List
  PROVE  LoadInv'
<1> DEFINE S == {n \in Load!Name : cluster[n] # <<>>}
<1>1. /\ check = "due" /\ check' = "reading" /\ todo' = SetToSeq(S)
      /\ usage' = usage /\ metrics' = metrics /\ alerts' = alerts /\ processed' = processed
      /\ disturbed' = disturbed /\ kind' = kind /\ env' = env /\ cluster' = cluster
      /\ changes' = changes
  BY SameSetToSeq DEF Load!List, Load!CheckVia, Load!evalVars
<1>2. IsFiniteSet(S)
  <2>1. IsFiniteSet(Load!Name)
    BY LoadAssumption, FS_Interval DEF Load!Name
  <2> QED
    BY <2>1, FS_Subset
<1> HIDE DEF S
<1>3. todo' \in Seq(S) /\ Range(todo') = S
  BY <1>1, <1>2, SetToSeqIs
<1>4. todo' \in Seq(Load!Name)
  BY <1>3 DEF S
<1>5. usage = <<>> /\ metrics = <<>> /\ alerts = <<>> /\ processed = {}
  BY <1>1 DEF LoadInv, Progress
<1>6. Load!TypeOK'
  BY <1>1, <1>4, <1>5 DEF LoadInv, Load!TypeOK
<1>7. LoadTyped'
  BY <1>1 DEF LoadInv, LoadTyped
<1>8. ReadRight'
  BY <1>1, <1>5 DEF ReadRight
<1>9. NoneForgotten'
  BY <1>1, <1>3 DEF NoneForgotten, S
<1>10. Progress'
  BY <1>1, <1>5, <1>9 DEF Progress
<1> QED
  BY <1>6, <1>7, <1>8, <1>10 DEF LoadInv

LEMMA LoadListFails ==
  ASSUME LoadInv, Load!ListFails
  PROVE  LoadInv'
<1>1. /\ check = "due" /\ check' = "failed"
      /\ todo' = todo
      /\ usage' = usage /\ metrics' = metrics /\ alerts' = alerts /\ processed' = processed
      /\ disturbed' = disturbed /\ kind' = kind /\ env' = env /\ cluster' = cluster
      /\ changes' = changes
  BY DEF Load!ListFails, Load!CheckVia, Load!evalVars, Load!readVars
<1>2. Load!TypeOK'
  BY <1>1 DEF LoadInv, Load!TypeOK
<1>3. LoadTyped' /\ ReadRight'
  BY <1>1 DEF LoadInv, LoadTyped, ReadRight
<1>4. Progress'
  BY <1>1 DEF Progress
<1> QED
  BY <1>2, <1>3, <1>4 DEF LoadInv
LEMMA LoadChange ==
  ASSUME LoadInv, NEW n \in Load!Name, Load!Change(n)
  PROVE  LoadInv'
<1>1. /\ check = "reading" /\ check' = "reading"
      /\ changes < MaxChanges /\ changes' = changes + 1
      /\ disturbed' = disturbed \union {n}
      /\ todo' = todo /\ usage' = usage /\ metrics' = metrics
      /\ alerts' = alerts /\ processed' = processed /\ kind' = kind /\ env' = env
  BY DEF Load!Change, Load!evalVars, Load!readVars
<1>2. PICK parts \in Shape \union {<<>>} : cluster' = [cluster EXCEPT ![n] = parts]
  BY DEF Load!Change
<1>3. /\ cluster \in [Load!Name -> Shape \union {<<>>}]
      /\ changes \in 0 .. MaxChanges
      /\ \A i \in DOMAIN metrics : metrics[i].name \in Load!Name
  BY DEF LoadInv, Load!TypeOK
<1>4. cluster' \in [Load!Name -> Shape \union {<<>>}]
  BY <1>2, <1>3
<1>5. \A k \in Load!Name \ disturbed' : cluster'[k] = cluster[k] /\ k \notin disturbed
  BY <1>1, <1>2, <1>3
<1>6. Load!TypeOK'
  <2>1. changes' \in 0 .. MaxChanges
    BY <1>1, <1>3, LoadAssumption
  <2> QED
    BY <1>1, <1>4, <2>1 DEF LoadInv, Load!TypeOK
<1>7. LoadTyped'
  BY <1>1 DEF LoadInv, LoadTyped
<1>8. ReadRight'
  <2>1. ASSUME NEW i \in DOMAIN metrics, metrics[i].name \notin disturbed',
               NEW field \in {"usage", "base"}
        PROVE  metrics[i][field] = Load!Total(cluster'[metrics[i].name], field)
    <3>1. metrics[i].name \in Load!Name \ disturbed' /\ metrics[i].name \notin disturbed
      BY <1>1, <1>3, <2>1
    <3>2. metrics[i][field] = Load!Total(cluster[metrics[i].name], field)
      BY <3>1 DEF LoadInv, ReadRight
    <3> QED
      BY <1>5, <3>1, <3>2
  <2>2. ASSUME usage # <<>>, Head(todo) \notin disturbed'
        PROVE  Head(usage) = Load!Total(cluster'[Head(todo)], "usage")
    <3>1. Head(todo) \in Load!Name
      <4>1. todo \in Seq(Load!Name) /\ todo # <<>>
        BY <2>2 DEF LoadInv, Load!TypeOK
      <4> QED
        BY <4>1, TailElements
    <3>2. cluster'[Head(todo)] = cluster[Head(todo)] /\ Head(todo) \notin disturbed
      BY <1>5, <2>2, <3>1
    <3>3. Head(usage) = Load!Total(cluster[Head(todo)], "usage")
      BY <2>2, <3>2 DEF LoadInv, ReadRight
    <3> QED
      BY <3>2, <3>3
  <2>3. usage # <<>> => usage \in Seq(Amounts)
    BY DEF LoadInv, ReadRight
  <2> QED
    BY <1>1, <2>1, <2>2, <2>3 DEF ReadRight
<1>9. NoneForgotten'
  <2>1. NoneForgotten
    BY <1>1 DEF LoadInv, Progress
  <2> QED
    BY <1>1, <1>5, <2>1 DEF NoneForgotten, Known
<1>10. Progress'
  BY <1>1, <1>9 DEF LoadInv, Progress
<1> QED
  BY <1>6, <1>7, <1>8, <1>10 DEF LoadInv

LEMMA LoadReadUsage ==
  ASSUME LoadInv, Load!ReadUsage
  PROVE  LoadInv'
<1>1. /\ check = "reading" /\ check' = "reading"
      /\ todo # <<>> /\ usage = <<>>
      /\ usage' = <<Load!Total(cluster[Head(todo)], "usage")>>
      /\ changes' = changes /\ disturbed' = disturbed /\ todo' = todo /\ metrics' = metrics
      /\ alerts' = alerts /\ processed' = processed /\ kind' = kind /\ env' = env
      /\ cluster' = cluster
  BY DEF Load!ReadUsage, Load!CheckVia, Load!evalVars
<1>2. /\ cluster \in [Load!Name -> Shape \union {<<>>}]
      /\ todo \in Seq(Load!Name)
  BY DEF LoadInv, Load!TypeOK
<1>3. Head(todo) \in Load!Name
  BY <1>1, <1>2, TailElements
<1> DEFINE total == Load!Total(cluster[Head(todo)], "usage")
<1>4. total \in Amounts
  BY <1>2, <1>3 DEF Amounts
<1> HIDE DEF total
<1>5. usage' = <<total>> /\ usage' \in Seq(Amounts) /\ Len(usage') = 1 /\ Head(usage') = total
  BY <1>1, <1>4 DEF total
<1>6. Load!TypeOK'
  BY <1>1, <1>5 DEF LoadInv, Load!TypeOK
<1>7. LoadTyped'
  BY <1>1 DEF LoadInv, LoadTyped
<1>8. ReadRight'
  BY <1>1, <1>5 DEF LoadInv, ReadRight, total
<1>9. NoneForgotten'
  BY <1>1 DEF LoadInv, Progress, NoneForgotten, Known
<1>10. Progress'
  BY <1>1, <1>9 DEF LoadInv, Progress
<1> QED
  BY <1>6, <1>7, <1>8, <1>10 DEF LoadInv

LEMMA LoadReadBase ==
  ASSUME LoadInv, Load!ReadBase
  PROVE  LoadInv'
<1> DEFINE read == [name |-> Head(todo), usage |-> Head(usage),
                    base |-> Load!Total(cluster[Head(todo)], "base")]
<1>1. /\ check = "reading" /\ check' = "reading"
      /\ usage # <<>> /\ usage' = <<>>
      /\ metrics' = Append(metrics, read) /\ todo' = Tail(todo)
      /\ changes' = changes /\ disturbed' = disturbed
      /\ alerts' = alerts /\ processed' = processed /\ kind' = kind /\ env' = env
      /\ cluster' = cluster
  BY DEF Load!ReadBase, Load!CheckVia, Load!evalVars
<1>2. /\ cluster \in [Load!Name -> Shape \union {<<>>}]
      /\ todo \in Seq(Load!Name) /\ todo # <<>>
      /\ metrics \in Seq(Read)
      /\ usage \in Seq(Amounts)
  BY <1>1 DEF LoadInv, Load!TypeOK, LoadTyped, ReadRight
<1>3. Head(todo) \in Load!Name /\ Tail(todo) \in Seq(Load!Name)
      /\ Range(todo) = {Head(todo)} \union Range(Tail(todo))
  BY <1>2, TailElements, TailRange
<1>4. read \in Read
  <2>1. Head(usage) \in Amounts
    BY <1>1, <1>2, TailElements
  <2>2. Load!Total(cluster[Head(todo)], "base") \in Amounts
    BY <1>2, <1>3 DEF Amounts
  <2> QED
    BY <1>3, <2>1, <2>2 DEF Read
<1>5. /\ read.name = Head(todo) /\ read.usage = Head(usage)
      /\ read.base = Load!Total(cluster[Head(todo)], "base")
      /\ read["usage"] = read.usage /\ read["base"] = read.base
  OBVIOUS
<1> HIDE DEF read
<1>6. /\ metrics' \in Seq(Read)
      /\ DOMAIN metrics' = 1 .. Len(metrics) + 1
      /\ Len(metrics) \in Nat /\ DOMAIN metrics = 1 .. Len(metrics)
      /\ \A i \in 1 .. Len(metrics) : metrics'[i] = metrics[i]
      /\ metrics'[Len(metrics) + 1] = read
  BY <1>1, <1>2, <1>4, AppendElements
<1>7. Load!TypeOK'
  <2>1. \A i \in DOMAIN metrics' : metrics'[i].name \in Load!Name
    <3>1. \A s \in Seq(Read) : \A i \in DOMAIN s : s[i] \in Read
      OBVIOUS
    <3>2. \A r \in Read : r.name \in Load!Name
      BY DEF Read
    <3> QED
      BY <1>6, <3>1, <3>2, Zenon
  <2>2. Len(usage') <= 1 /\ usage' = <<>>
    BY <1>1, EmptyElements
  <2> QED
    BY <1>1, <1>3, <2>1, <2>2 DEF LoadInv, Load!TypeOK
<1>8. LoadTyped'
  BY <1>1, <1>6 DEF LoadInv, LoadTyped
<1>9. ReadRight'
  <2>1. ASSUME NEW i \in DOMAIN metrics', metrics'[i].name \notin disturbed,
               NEW field \in {"usage", "base"}
        PROVE  metrics'[i][field] = Load!Total(cluster[metrics'[i].name], field)
    <3>1. CASE i \in 1 .. Len(metrics)
      BY <1>6, <2>1, <3>1 DEF LoadInv, ReadRight
    <3>2. CASE i = Len(metrics) + 1
      <4>1. metrics'[i] = read /\ Head(todo) \notin disturbed
        BY <1>5, <1>6, <2>1, <3>2
      <4>2. Head(usage) = Load!Total(cluster[Head(todo)], "usage")
        BY <1>1, <4>1 DEF LoadInv, ReadRight
      <4> QED
        BY <1>5, <4>1, <4>2
    <3> QED
      BY <1>6, <3>1, <3>2
  <2> QED
    BY <1>1, <2>1 DEF ReadRight
<1>10. NoneForgotten'
  <2>1. NoneForgotten
    BY <1>1 DEF LoadInv, Progress
  <2>2. Known \union {Head(todo)} \subseteq Known'
    <3>1. Head(todo) \in Known'
      <4>1. Len(metrics) + 1 \in DOMAIN metrics'
        BY <1>6
      <4> QED
        BY <1>5, <1>6, <4>1 DEF Known
    <3>2. ASSUME NEW i \in DOMAIN metrics PROVE metrics[i].name \in Known'
      BY <1>6 DEF Known
    <3> QED
      BY <3>1, <3>2 DEF Known
  <2> QED
    BY <1>1, <1>3, <2>1, <2>2 DEF NoneForgotten
<1>11. Progress'
  BY <1>1, <1>10 DEF LoadInv, Progress
<1> QED
  BY <1>7, <1>8, <1>9, <1>11 DEF LoadInv

LEMMA LoadReadFails ==
  ASSUME LoadInv, Load!ReadFails
  PROVE  LoadInv'
<1>1. /\ check = "reading" /\ check' = "reading"
      /\ todo # <<>> /\ usage' = <<>> /\ metrics' = metrics /\ todo' = Tail(todo)
      /\ disturbed' = disturbed \union {Head(todo)}
      /\ changes' = changes
      /\ alerts' = alerts /\ processed' = processed /\ kind' = kind /\ env' = env
      /\ cluster' = cluster
  BY DEF Load!ReadFails, Load!CheckVia, Load!evalVars
<1>2. todo \in Seq(Load!Name) /\ disturbed \subseteq Load!Name
  BY DEF LoadInv, Load!TypeOK
<1>3. Head(todo) \in Load!Name /\ Tail(todo) \in Seq(Load!Name)
      /\ Range(todo) = {Head(todo)} \union Range(Tail(todo))
  BY <1>1, <1>2, TailElements, TailRange
<1>4. Load!TypeOK'
  <2>1. Len(usage') <= 1 /\ usage' = <<>>
    BY <1>1, EmptyElements
  <2> QED
    BY <1>1, <1>2, <1>3, <2>1 DEF LoadInv, Load!TypeOK
<1>5. LoadTyped'
  BY <1>1 DEF LoadInv, LoadTyped
<1>6. ReadRight'
  BY <1>1 DEF LoadInv, ReadRight
<1>7. NoneForgotten'
  BY <1>1, <1>3 DEF LoadInv, Progress, NoneForgotten, Known
<1>8. Progress'
  BY <1>1, <1>7 DEF LoadInv, Progress
<1> QED
  BY <1>4, <1>5, <1>6, <1>8 DEF LoadInv

LEMMA LoadEvaluate ==
  ASSUME LoadInv, Load!Evaluate
  PROVE  LoadInv'
<1>1. /\ check = "reading" /\ check' = "alerting" /\ todo = <<>> /\ alerts' = Load!LoadAlerts
      /\ todo' = todo /\ usage' = usage /\ metrics' = metrics
      /\ disturbed' = disturbed /\ changes' = changes
      /\ processed' = processed /\ kind' = kind /\ env' = env /\ cluster' = cluster
  BY DEF Load!Evaluate, Load!CheckVia, Load!readVars
<1>2. metrics \in Seq(Read) /\ processed = {} /\ NoneForgotten
  BY <1>1 DEF LoadInv, LoadTyped, Progress
<1>3. alerts' \in Seq(LoadAlert) /\ Range(alerts') = Due
  BY <1>1, <1>2, LoadAlertsAreDue
<1>4. Due' = Due
  BY <1>1 DEF Due, Load!Alert, Load!Raised, Load!Measurable, Load!Over, Load!Threshold
<1>5. Load!TypeOK'
  BY <1>1 DEF LoadInv, Load!TypeOK
<1>6. LoadTyped' /\ ReadRight'
  BY <1>1, <1>3 DEF LoadInv, LoadTyped, ReadRight
<1>7. NoneForgotten'
  BY <1>1, <1>2 DEF NoneForgotten, Known
<1>8. Progress'
  BY <1>1, <1>2, <1>3, <1>4, <1>7 DEF Progress
<1> QED
  BY <1>5, <1>6, <1>8 DEF LoadInv

LEMMA LoadProcess ==
  ASSUME LoadInv, Load!Process
  PROVE  LoadInv'
<1>1. /\ check = "alerting" /\ check' = "alerting" /\ alerts # <<>> /\ alerts' = Tail(alerts)
      /\ todo' = todo /\ usage' = usage /\ metrics' = metrics
      /\ disturbed' = disturbed /\ changes' = changes
      /\ kind' = kind /\ env' = env /\ cluster' = cluster
  BY DEF Load!Process, Load!CheckVia, Load!readVars
<1>2. PICK done \in {"stored", "refused"} :
        processed' = processed \union {[alert |-> Head(alerts), done |-> done]}
  BY DEF Load!Process
<1>3. alerts \in Seq(LoadAlert)
  BY DEF LoadInv, LoadTyped
<1>4. alerts' \in Seq(LoadAlert) /\ Range(alerts) = {Head(alerts)} \union Range(alerts')
  BY <1>1, <1>3, TailElements, TailRange
<1>5. Due' = Due
  BY <1>1 DEF Due, Load!Alert, Load!Raised, Load!Measurable, Load!Over, Load!Threshold
<1>6. {p.alert : p \in processed'} = {p.alert : p \in processed} \union {Head(alerts)}
  <2> DEFINE entry == [alert |-> Head(alerts), done |-> done]
  <2>1. processed' = processed \union {entry} /\ entry.alert = Head(alerts)
    BY <1>2
  <2> HIDE DEF entry
  <2> QED
    BY <2>1
<1>7. Load!TypeOK'
  BY <1>1 DEF LoadInv, Load!TypeOK
<1>8. LoadTyped' /\ ReadRight'
  BY <1>1, <1>4 DEF LoadInv, LoadTyped, ReadRight
<1>9. NoneForgotten'
  BY <1>1 DEF LoadInv, Progress, NoneForgotten, Known
<1>10. /\ todo' = <<>>
       /\ Range(alerts') \union {p.alert : p \in processed'} = Due'
  <2>1. todo = <<>> /\ Range(alerts) \union {p.alert : p \in processed} = Due
    BY <1>1 DEF LoadInv, Progress
  <2> QED
    BY <1>1, <1>4, <1>5, <1>6, <2>1
<1>11. Progress'
  BY <1>1, <1>9, <1>10 DEF Progress
<1> QED
  BY <1>7, <1>8, <1>11 DEF LoadInv

LEMMA LoadReturn ==
  ASSUME LoadInv, Load!Return
  PROVE  LoadInv'
<1>1. /\ check = "alerting" /\ check' = "returned" /\ alerts = <<>>
      /\ todo' = todo /\ usage' = usage /\ metrics' = metrics /\ alerts' = alerts
      /\ disturbed' = disturbed /\ changes' = changes /\ processed' = processed
      /\ kind' = kind /\ env' = env /\ cluster' = cluster
  BY DEF Load!Return, Load!CheckVia, Load!readVars, Load!evalVars
<1>2. Due' = Due
  BY <1>1 DEF Due, Load!Alert, Load!Raised, Load!Measurable, Load!Over, Load!Threshold
<1>3. Load!TypeOK'
  BY <1>1 DEF LoadInv, Load!TypeOK
<1>4. LoadTyped' /\ ReadRight'
  BY <1>1 DEF LoadInv, LoadTyped, ReadRight
<1>5. NoneForgotten'
  BY <1>1 DEF LoadInv, Progress, NoneForgotten, Known
<1>6. Progress'
  BY <1>1, <1>2, <1>5 DEF LoadInv, Progress
<1> QED
  BY <1>3, <1>4, <1>6 DEF LoadInv

LEMMA LoadNext ==
  ASSUME LoadInv, Load!Next
  PROVE  LoadInv'
  BY LoadList, LoadListFails, LoadReadUsage, LoadReadBase, LoadReadFails, LoadEvaluate,
     LoadProcess, LoadReturn, LoadChange DEF Load!Next

LEMMA LoadStutter ==
  ASSUME LoadInv, UNCHANGED loadVars
  PROVE  LoadInv'
<1>1. Due' = Due
  BY DEF loadVars, Due, Load!Alert, Load!Raised, Load!Measurable, Load!Over, Load!Threshold
<1>2. NoneForgotten' = NoneForgotten
  BY DEF loadVars, NoneForgotten, Known
<1>3. Load!TypeOK'
  BY DEF loadVars, LoadInv, Load!TypeOK
<1>4. LoadTyped' /\ ReadRight'
  BY DEF loadVars, LoadInv, LoadTyped, ReadRight
<1>5. Progress'
  BY <1>1, <1>2 DEF loadVars, LoadInv, Progress
<1> QED
  BY <1>3, <1>4, <1>5 DEF LoadInv
\* Nothing amounts to nothing.
LEMMA NothingIsZero ==
  ASSUME NEW field \in {"usage", "base"}, NEW m \in Load!Metric
  PROVE  Load!Total(<<>>, field)[m] = 0
<1>1. DOMAIN <<>> = {}
  OBVIOUS
<1> DEFINE iter == CHOOSE g : g = [s \in SUBSET {} |->
        IF s = {} THEN 0
        ELSE g[s \ {Load!Max(s)}] + <<>>[Load!Max(s)][m][field]]
<1> DEFINE zero == [s \in SUBSET {} |-> 0]
<1>2. zero = [s \in SUBSET {} |->
        IF s = {} THEN 0
        ELSE zero[s \ {Load!Max(s)}] + <<>>[Load!Max(s)][m][field]]
  OBVIOUS
<1>3. iter = [s \in SUBSET {} |->
        IF s = {} THEN 0
        ELSE iter[s \ {Load!Max(s)}] + <<>>[Load!Max(s)][m][field]]
  <2> HIDE DEF zero
  <2> QED
    BY <1>2
<1>4. iter[{}] = 0
  <2> HIDE DEF iter
  <2> QED
    BY <1>3
<1>5. Load!Total(<<>>, field)[m] = iter[{}]
  BY <1>1 DEF Load!Total, Load!FoldLeft, Load!MapThenFoldSet
<1> QED
  BY <1>4, <1>5

\* The threshold of a metric, and when the load of a resource is over it.
Configured(m) == IF env[m] = <<EnvThreshold>> THEN EnvThreshold ELSE FileThreshold

LoadOver(n, m) ==
  LET used  == Load!Total(cluster[n], "usage")[m] * 100
      limit == Configured(m) * Load!Total(cluster[n], "base")[m]
  IN /\ kind = "pods" => Load!Total(cluster[n], "base")[m] > 0
     /\ used > limit \/ (used = limit /\ used > 0 /\ Load!RoundsUp(Configured(m)))

\* When the check has returned, the alerts processed are those that were due, and a
\* resource that is undisturbed was read for what it has.
LEMMA LoadsReported ==
  ASSUME LoadInv
  PROVE  StableLoadsReported
<1> SUFFICES ASSUME check = "returned", NEW n \in Load!Name \ disturbed, NEW m \in Load!Metric
             PROVE  (\E p \in processed : p.alert.name = n /\ p.alert.metric = m)
                      <=> LoadOver(n, m)
  BY Zenon DEF StableLoadsReported, Load!StableLoadsReported, LoadOver, Configured
<1> DEFINE base == Load!Total(cluster[n], "base")[m]
<1> DEFINE used == Load!Total(cluster[n], "usage")[m]
<1> DEFINE limit == Configured(m)
<1> DEFINE Over == LoadOver(n, m)
<1>0. Over <=> /\ kind = "pods" => base > 0
               /\ \/ used * 100 > limit * base
                  \/ used * 100 = limit * base /\ used * 100 > 0 /\ Load!RoundsUp(limit)
  BY DEF LoadOver
<1>1. {p.alert : p \in processed} = Due
  <2>1. alerts = <<>> /\ Range(alerts) \union {p.alert : p \in processed} = Due
    BY DEF LoadInv, Progress
  <2> QED
    BY <2>1, EmptyElements
<1>2. limit = Load!Threshold(m) /\ limit \in Nat
  <2>1. env[m] \in {<<>>, <<EnvThreshold>>}
    BY DEF LoadInv, LoadTyped
  <2>2. <<>> # <<EnvThreshold>> /\ Head(<<EnvThreshold>>) = EnvThreshold
    OBVIOUS
  <2>3. FileThreshold \in Nat /\ EnvThreshold \in Nat
    BY LoadAssumption
  <2> QED
    BY <2>1, <2>2, <2>3 DEF Load!Threshold, Configured
<1> HIDE DEF Over
<1>3. ASSUME NEW i \in DOMAIN metrics, metrics[i].name = n
      PROVE  Load!Raised(metrics[i], m) <=> Over
  <2>1. /\ metrics[i]["usage"] = Load!Total(cluster[n], "usage")
        /\ metrics[i]["base"] = Load!Total(cluster[n], "base")
    BY <1>3 DEF LoadInv, ReadRight
  <2>2. metrics[i].usage[m] = used /\ metrics[i].base[m] = base
    BY <2>1
  <2>3. base > 0 => base # 0
    OBVIOUS
  <2> HIDE DEF used, base, limit
  <2>4. Load!Over(metrics[i], m) <=>
          \/ used * 100 > limit * base
          \/ used * 100 = limit * base /\ used * 100 > 0 /\ Load!RoundsUp(limit)
    BY <1>2, <2>2 DEF Load!Over
  <2>5. base > 0 => \E k \in Load!Metric : metrics[i].base[k] # 0
    BY <2>2, <2>3
  <2> QED
    BY <1>0, <2>2, <2>4, <2>5 DEF Load!Raised, Load!Measurable
<1>4. (\E p \in processed : p.alert.name = n /\ p.alert.metric = m)
        <=> \E i \in DOMAIN metrics : metrics[i].name = n /\ Load!Raised(metrics[i], m)
  <2>1. ASSUME NEW p \in processed, p.alert.name = n, p.alert.metric = m
        PROVE  \E i \in DOMAIN metrics : metrics[i].name = n /\ Load!Raised(metrics[i], m)
    <3>1. p.alert \in Due
      BY <1>1
    <3>2. PICK q \in (DOMAIN metrics) \X Load!Metric :
            Load!Raised(metrics[q[1]], q[2]) /\ p.alert = Load!Alert(metrics[q[1]], q[2])
      BY <3>1, Zenon DEF Due
    <3>3. metrics[q[1]].name = n /\ q[2] = m
      BY <2>1, <3>2 DEF Load!Alert
    <3> QED
      BY <3>2, <3>3
  <2>2. ASSUME NEW i \in DOMAIN metrics, metrics[i].name = n, Load!Raised(metrics[i], m)
        PROVE  \E p \in processed : p.alert.name = n /\ p.alert.metric = m
    <3> DEFINE q == <<i, m>>
    <3>1. q \in (DOMAIN metrics) \X Load!Metric /\ q[1] = i /\ q[2] = m
      OBVIOUS
    <3> DEFINE a == Load!Alert(metrics[i], m)
    <3> HIDE DEF q
    <3>2. a \in Due
      <4>1. Load!Raised(metrics[q[1]], q[2]) /\ a = Load!Alert(metrics[q[1]], q[2])
        BY <2>2, <3>1
      <4> QED
        BY <3>1, <4>1, Zenon DEF Due
    <3>3. a.name = n /\ a.metric = m
      BY <2>2 DEF Load!Alert
    <3> HIDE DEF a
    <3>4. PICK p \in processed : p.alert = a
      BY <1>1, <3>2, Zenon
    <3> QED
      BY <3>3, <3>4
  <2> QED
    BY <2>1, <2>2
<1>5. CASE n \in Known
  <2>1. PICK i \in DOMAIN metrics : metrics[i].name = n
    BY <1>5 DEF Known
  <2>2. (\E k \in DOMAIN metrics : metrics[k].name = n /\ Load!Raised(metrics[k], m)) <=> Over
    BY <1>3, <2>1
  <2> QED
    BY <1>4, <2>2 DEF Over
<1>6. CASE n \notin Known
  <2>1. cluster[n] = <<>>
    <3>1. todo = <<>> /\ NoneForgotten
      BY DEF LoadInv, Progress
    <3> QED
      BY <1>6, <3>1, EmptyElements DEF NoneForgotten
  <2>2. used = 0 /\ base = 0
    BY <2>1, NothingIsZero
  <2>3. ~Over
    <3> HIDE DEF used, base, limit
    <3> QED
      BY <1>0, <1>2, <2>2
  <2>4. ~\E i \in DOMAIN metrics : metrics[i].name = n
    BY <1>6 DEF Known
  <2> QED
    BY <1>4, <2>3, <2>4 DEF Over
<1> QED
  BY <1>5, <1>6
-------------------------------------------------------------------------------
(* The extremes of a set, and a sum *)

\* A finite set of numbers that is not empty has a greatest.
LEMMA MaxIs ==
  ASSUME NEW S \in SUBSET Nat, IsFiniteSet(S), S # {}
  PROVE  Max(S) \in S /\ \A y \in S : Max(S) >= y
<1> DEFINE Has(T) == \E x \in T : \A y \in T : x >= y
<1> DEFINE P == {n \in Nat : \A T \in SUBSET Nat :
                   IsFiniteSet(T) /\ Cardinality(T) = n /\ T # {} => Has(T)}
<1>1. 0 \in P
  BY FS_EmptySet
<1>2. ASSUME NEW n \in Nat, n \in P PROVE n + 1 \in P
  <2> SUFFICES ASSUME NEW T \in SUBSET Nat, IsFiniteSet(T), Cardinality(T) = n + 1, T # {}
               PROVE  Has(T)
    <3> HIDE DEF Has
    <3> QED
      OBVIOUS
  <2>1. PICK x \in T : TRUE
    OBVIOUS
  <2> DEFINE U == T \ {x}
  <2>2. IsFiniteSet(U) /\ Cardinality(U) = n
    <3>1. IsFiniteSet(U) /\ Cardinality(U) = Cardinality(T) - 1
      BY <2>1, FS_RemoveElement
    <3>2. (n + 1) - 1 = n
      OBVIOUS
    <3> QED
      BY <3>1, <3>2
  <2>3. CASE U = {}
    BY <2>1, <2>3
  <2>4. CASE U # {}
    <3>1. PICK z \in U : \A y \in U : z >= y
      BY <1>2, <2>2, <2>4
    <3>2. x \in Nat /\ z \in Nat /\ T = U \union {x}
      BY <2>1
    <3>3. CASE x >= z
      BY <3>1, <3>2, <3>3
    <3>4. CASE ~(x >= z)
      BY <3>1, <3>2, <3>4
    <3> QED
      BY <3>3, <3>4
  <2> QED
    BY <2>3, <2>4
<1> HIDE DEF P
<1>3. Cardinality(S) \in P
  <2>1. Cardinality(S) \in Nat
    BY FS_CardinalityType
  <2> QED
    BY <1>1, <1>2, <2>1, Induction
<1>4. \E x \in S : \A y \in S : x >= y
  BY <1>3 DEF P
<1> QED
  BY <1>4 DEF Max

\* A set of numbers that is not empty has a least.
LEMMA MinIs ==
  ASSUME NEW S \in SUBSET Nat, S # {}
  PROVE  Min(S) \in S
<1> DEFINE P == {n \in Nat : \A x \in S : x <= n => \E z \in S : \A y \in S : z =< y}
<1>1. 0 \in P
  <2>1. ASSUME NEW x \in S, x <= 0 PROVE \A y \in S : x =< y
    BY <2>1
  <2> QED
    BY <2>1
<1>2. ASSUME NEW n \in Nat, n \in P PROVE n + 1 \in P
  <2> SUFFICES ASSUME NEW x \in S, x <= n + 1
               PROVE  \E z \in S : \A y \in S : z =< y
    OBVIOUS
  <2>1. CASE \E y \in S : y <= n
    BY <1>2, <2>1
  <2>2. CASE ~\E y \in S : y <= n
    <3>1. \A y \in S : x =< y
      BY <2>2
    <3> QED
      BY <3>1
  <2> QED
    BY <2>1, <2>2
<1>3. PICK x \in S : TRUE
  OBVIOUS
<1> HIDE DEF P
<1>4. x \in P
  BY <1>1, <1>2, Induction
<1>5. \E z \in S : \A y \in S : z =< y
  BY <1>4 DEF P
<1> QED
  BY <1>5 DEF Min

\* FirstContainer of a set is in it, when there is any.
LEMMA FirstIs ==
  ASSUME NEW S \in SUBSET Container
  PROVE  /\ S = {} => FirstContainer(S) = Unknown
         /\ S # {} => FirstContainer(S) \in S
         /\ FirstContainer(S) \in {Unknown} \union Container
<1>1. S \subseteq Nat
  BY PodAssumption DEF Container
<1> QED
  BY <1>1, MinIs DEF FirstContainer

\* A fold over 1 .. n that adds a number of each.
LEMMA SumIs ==
  ASSUME NEW n \in Nat, NEW f \in [1 .. n -> Nat]
  PROVE  LET sum == CHOOSE g : g = [s \in SUBSET (1 .. n) |->
                      IF s = {} THEN 0 ELSE g[s \ {Max(s)}] + f[Max(s)]]
         IN  /\ sum[1 .. n] \in Nat
             /\ (\A i \in 1 .. n : f[i] = 0) => sum[1 .. n] = 0
<1> DEFINE Step(g, k) == [s \in SUBSET (1 .. k) |->
                            IF s = {} THEN 0 ELSE g[s \ {Max(s)}] + f[Max(s)]]
<1> DEFINE Zero == \A i \in 1 .. n : f[i] = 0
<1>1. ASSUME NEW k \in Nat, NEW s \in SUBSET (1 .. k), s # {}
      PROVE  Max(s) \in s /\ \A y \in s : Max(s) >= y
  <2>1. IsFiniteSet(1 .. k) /\ s \subseteq Nat
    BY FS_Interval
  <2>2. IsFiniteSet(s)
    BY <2>1, FS_Subset
  <2> QED
    BY <2>1, <2>2, <1>1, MaxIs
<1>2. ASSUME NEW k \in Nat, NEW s \in SUBSET (1 .. k + 1), s \notin SUBSET (1 .. k)
      PROVE  s # {} /\ Max(s) = k + 1 /\ s \ {Max(s)} \in SUBSET (1 .. k)
  <2>1. k + 1 \in s
    BY <1>2
  <2>2. Max(s) \in s /\ Max(s) >= k + 1
    <3>1. k + 1 \in Nat /\ s # {}
      BY <2>1
    <3> QED
      BY <1>1, <2>1, <3>1
  <2>3. Max(s) = k + 1
    <3>1. Max(s) \in 1 .. k + 1
      BY <2>2
    <3> QED
      BY <2>2, <3>1
  <2> QED
    BY <2>1, <2>3
<1>3. ASSUME NEW k \in Nat, NEW s \in SUBSET (1 .. k), s # {}
      PROVE  Max(s) \in 1 .. k /\ s \ {Max(s)} \in SUBSET (1 .. k)
  BY <1>1, <1>3
<1> DEFINE Exists(k) == \E g \in [SUBSET (1 .. k) -> Nat] :
                   g = Step(g, k) /\ (Zero => \A s \in SUBSET (1 .. k) : g[s] = 0)
<1> DEFINE P == {k \in Nat : k <= n => Exists(k)}
<1>4. 0 \in P
  <2> DEFINE g == [s \in SUBSET (1 .. 0) |-> 0]
  <2>1. SUBSET (1 .. 0) = {{}}
    OBVIOUS
  <2>2. g \in [SUBSET (1 .. 0) -> Nat] /\ \A s \in SUBSET (1 .. 0) : g[s] = 0
    OBVIOUS
  <2>3. g = Step(g, 0)
    BY <2>1
  <2> QED
    BY <2>2, <2>3
<1>5. ASSUME NEW k \in Nat, k \in P PROVE k + 1 \in P
  <2> SUFFICES ASSUME k + 1 <= n PROVE Exists(k + 1)
    <3> HIDE DEF Exists
    <3> QED
      OBVIOUS
  <2>1. PICK g \in [SUBSET (1 .. k) -> Nat] :
          g = Step(g, k) /\ (Zero => \A s \in SUBSET (1 .. k) : g[s] = 0)
    <3>1. Exists(k)
      <4> HIDE DEF Exists
      <4> QED
        BY <1>5
    <3> HIDE DEF Step, Zero
    <3> QED
      BY <3>1
  <2> DEFINE h == [s \in SUBSET (1 .. k + 1) |->
                     IF s \in SUBSET (1 .. k) THEN g[s] ELSE g[s \ {Max(s)}] + f[Max(s)]]
  <2>2. \A s \in SUBSET (1 .. k) : s \in SUBSET (1 .. k + 1) /\ h[s] = g[s]
    OBVIOUS
  <2>3. k + 1 \in 1 .. n /\ f[k + 1] \in Nat
    OBVIOUS
  <2>4. ASSUME NEW s \in SUBSET (1 .. k + 1), s \notin SUBSET (1 .. k)
        PROVE  /\ h[s] = g[s \ {Max(s)}] + f[Max(s)]
               /\ g[s \ {Max(s)}] = h[s \ {Max(s)}]
               /\ h[s] \in Nat
               /\ Zero => h[s] = 0
    <3>1. Max(s) = k + 1 /\ s \ {Max(s)} \in SUBSET (1 .. k)
      BY <1>2, <2>4
    <3>2. h[s] = g[s \ {Max(s)}] + f[Max(s)]
      BY <2>4
    <3>3. g[s \ {Max(s)}] \in Nat
      BY <2>1, <3>1
    <3> HIDE DEF h
    <3>4. h[s] \in Nat
      BY <2>3, <3>1, <3>2, <3>3
    <3>5. Zero => g[s \ {Max(s)}] = 0 /\ f[Max(s)] = 0
      <4>1. Zero => f[k + 1] = 0
        BY <2>3
      <4> HIDE DEF Zero
      <4> QED
        BY <2>1, <3>1, <4>1
    <3>6. Zero => h[s] = 0
      <4> HIDE DEF Zero
      <4> QED
        BY <3>2, <3>5
    <3>7. g[s \ {Max(s)}] = h[s \ {Max(s)}]
      BY <2>2, <3>1
    <3> HIDE DEF Zero
    <3> QED
      BY <3>2, <3>4, <3>6, <3>7
  <2>5. h \in [SUBSET (1 .. k + 1) -> Nat]
    <3>1. \A s \in SUBSET (1 .. k + 1) : h[s] \in Nat
      BY <2>1, <2>2, <2>4
    <3> QED
      BY <3>1
  <2>6. ASSUME NEW s \in SUBSET (1 .. k + 1)
        PROVE  h[s] = IF s = {} THEN 0 ELSE h[s \ {Max(s)}] + f[Max(s)]
    <3>1. CASE s \in SUBSET (1 .. k)
      <4>1. g[s] = IF s = {} THEN 0 ELSE g[s \ {Max(s)}] + f[Max(s)]
        BY <2>1, <3>1
      <4>2. h[s] = g[s]
        BY <2>2, <3>1
      <4> HIDE DEF h
      <4>3. s # {} => h[s \ {Max(s)}] = g[s \ {Max(s)}]
        BY <1>3, <2>2, <3>1
      <4> QED
        BY <4>1, <4>2, <4>3
    <3>2. CASE s \notin SUBSET (1 .. k)
      <4> HIDE DEF h
      <4>1. s # {}
        BY <1>2, <3>2
      <4> QED
        BY <2>4, <3>2, <4>1
    <3> QED
      BY <3>1, <3>2
  <2> HIDE DEF h
  <2>7. h = Step(h, k + 1)
    <3>1. h = [s \in SUBSET (1 .. k + 1) |-> h[s]]
      BY <2>5
    <3> QED
      BY <2>6, <3>1
  <2>8. Zero => \A s \in SUBSET (1 .. k + 1) : h[s] = 0
    BY <2>1, <2>2, <2>4
  <2> HIDE DEF Step, Zero
  <2> QED
    BY <2>5, <2>7, <2>8
<1>6. n \in P
  <2> HIDE DEF P
  <2> QED
    BY <1>4, <1>5, Induction
<1> DEFINE sum == CHOOSE g : g = Step(g, n)
<1>7. sum = Step(sum, n)
  <2>1. Exists(n)
    <3> HIDE DEF Exists
    <3> QED
      BY <1>6
  <2> HIDE DEF Step, Zero
  <2> QED
    BY <2>1
<1> HIDE DEF sum
<1> DEFINE Number(k) == \A s \in SUBSET (1 .. k) : sum[s] \in Nat /\ (Zero => sum[s] = 0)
<1> DEFINE Q == {k \in Nat : k <= n => Number(k)}
<1>8. 0 \in Q
  <2>1. SUBSET (1 .. 0) = {{}} /\ {} \in SUBSET (1 .. n)
    OBVIOUS
  <2>2. sum[{}] = 0
    BY <1>7, <2>1
  <2> HIDE DEF Zero
  <2>3. ASSUME NEW s \in SUBSET (1 .. 0) PROVE sum[s] \in Nat /\ (Zero => sum[s] = 0)
    <3>1. s = {}
      OBVIOUS
    <3>2. sum[s] = 0
      BY <2>2, <3>1
    <3> QED
      BY <3>2
  <2> QED
    BY <2>3
<1>9. ASSUME NEW k \in Nat, k \in Q PROVE k + 1 \in Q
  <2> SUFFICES ASSUME k + 1 <= n PROVE Number(k + 1)
    <3> HIDE DEF Number
    <3> QED
      OBVIOUS
  <2>1. Number(k)
    <3> HIDE DEF Number
    <3> QED
      BY <1>9
  <2> SUFFICES ASSUME NEW s \in SUBSET (1 .. k + 1)
               PROVE  sum[s] \in Nat /\ (Zero => sum[s] = 0)
    BY Zenon
  <2>2. CASE s \in SUBSET (1 .. k)
    <3> HIDE DEF Zero
    <3> QED
      BY <2>2, <2>1
  <2>3. CASE s \notin SUBSET (1 .. k)
    <3>1. s # {} /\ Max(s) = k + 1 /\ s \ {Max(s)} \in SUBSET (1 .. k)
      BY <1>2, <2>3
    <3>2. s \in SUBSET (1 .. n) /\ k + 1 \in 1 .. n
      OBVIOUS
    <3>3. sum[s] = sum[s \ {Max(s)}] + f[k + 1]
      BY <1>7, <3>1, <3>2
    <3>4. sum[s \ {Max(s)}] \in Nat /\ (Zero => sum[s \ {Max(s)}] = 0)
      BY <2>1, <3>1
    <3>5. f[k + 1] \in Nat /\ (Zero => f[k + 1] = 0)
      BY <3>2
    <3> HIDE DEF Zero
    <3> QED
      BY <3>3, <3>4, <3>5
  <2> HIDE DEF Zero
  <2> QED
    BY <2>2, <2>3
<1>10. n \in Q
  <2> HIDE DEF Q
  <2> QED
    BY <1>8, <1>9, Induction
<1>11. Number(n)
  <2> HIDE DEF Number
  <2> QED
    BY <1>10
<1>12. sum[1 .. n] \in Nat /\ (Zero => sum[1 .. n] = 0)
  <2>1. 1 .. n \in SUBSET (1 .. n)
    OBVIOUS
  <2> HIDE DEF Zero
  <2> QED
    BY <1>11, <2>1
<1> QED
  BY <1>12 DEF sum
-------------------------------------------------------------------------------
(* The pod *)

Status == [restarts : 0 .. MaxRestarts,
           state : NotStarted \union {"Running", "Terminated", "CrashLoopBackOff"},
           last : Reason \union {"none"}]
PodAlert == [type : DOMAIN PodSeverity, severity : {"critical", "high", "medium"},
             value : Nat, container : {Unknown} \union Container]

OfType(type) == {a \in PodAlert : a.type = type}

\* The alert is about a container that has the trouble it reports, and carries the
\* restarts of that one where no other has it.
Right(a) ==
  LET i == a.container IN
  CASE a.type \in {"pod_oom_killed", "pod_crash_loop"} ->
         /\ i \in InTrouble(a.type)
         /\ InTrouble(a.type) = {i} => a.value = containers[i].restarts
    [] a.type = "pod_image_pull" -> i \in InTrouble(a.type)
    [] a.type = "pod_restart_threshold" ->
         i \in Container /\ \A k \in Container : containers[k].restarts <= containers[i].restarts
    [] OTHER -> i = Unknown

Troubles == {"pod_oom_killed", "pod_crash_loop", "pod_image_pull"}

PodTyped == containers \in [Container -> Status]

LEMMA PodTypes ==
  /\ DOMAIN PodSeverity =
       {"pod_failed", "pod_unknown", "pod_oom_killed", "pod_crash_loop", "pod_image_pull",
        "pod_restart_threshold", "pod_pending"}
  /\ \A type \in DOMAIN PodSeverity : PodSeverity[type] \in {"critical", "high", "medium"}
  /\ Unknown \notin Container
  /\ Pod.containers = containers
<1>1. Unknown \notin Container
  BY PodAssumption DEF Unknown, Container
<1>2. Pod.containers = containers
  BY DEF Pod
<1> QED
  BY <1>1, <1>2 DEF PodSeverity

\* TotalRestarts is a number, and nothing when no container has restarted.
LEMMA RestartsAddUp ==
  ASSUME PodTyped
  PROVE  /\ TotalRestarts(Pod) \in Nat
         /\ (\A i \in Container : containers[i].restarts = 0) => TotalRestarts(Pod) = 0
<1> DEFINE f == [i \in 1 .. ContainerCount |-> containers[i].restarts]
<1>1. f \in [1 .. ContainerCount -> Nat] /\ ContainerCount \in Nat
  BY PodAssumption DEF PodTyped, Status, Container
<1>2. DOMAIN containers = 1 .. ContainerCount
  BY DEF PodTyped, Container
<1> DEFINE sum == CHOOSE g : g = [s \in SUBSET (1 .. ContainerCount) |->
                    IF s = {} THEN 0 ELSE g[s \ {Max(s)}] + f[Max(s)]]
<1> DEFINE fold == CHOOSE g : g = [s \in SUBSET (1 .. ContainerCount) |->
                    IF s = {} THEN 0 ELSE g[s \ {Max(s)}] + containers[Max(s)].restarts]
<1>3. TotalRestarts(Pod) = fold[1 .. ContainerCount]
  BY <1>2, PodTypes, ZenonT(30) DEF TotalRestarts, FoldLeft, MapThenFoldSet
<1>4. ASSUME NEW g PROVE [s \in SUBSET (1 .. ContainerCount) |->
                    IF s = {} THEN 0 ELSE g[s \ {Max(s)}] + f[Max(s)]]
              = [s \in SUBSET (1 .. ContainerCount) |->
                    IF s = {} THEN 0 ELSE g[s \ {Max(s)}] + containers[Max(s)].restarts]
  <2>1. ASSUME NEW s \in SUBSET (1 .. ContainerCount), s # {}
        PROVE  f[Max(s)] = containers[Max(s)].restarts
    <3>1. IsFiniteSet(s) /\ s \in SUBSET Nat
      <4>1. IsFiniteSet(1 .. ContainerCount)
        BY <1>1, FS_Interval
      <4>2. IsFiniteSet(s)
        BY <4>1, FS_Subset
      <4> QED
        BY <4>2
    <3>2. Max(s) \in 1 .. ContainerCount
      BY <2>1, <3>1, MaxIs
    <3> QED
      BY <3>2
  <2> HIDE DEF f
  <2> QED
    BY <2>1
<1>5. fold = sum
  <2> HIDE DEF f
  <2> QED
    BY <1>4, Zenon
<1> HIDE DEF fold
<1>6. /\ sum[1 .. ContainerCount] \in Nat
      /\ (\A i \in 1 .. ContainerCount : f[i] = 0) => sum[1 .. ContainerCount] = 0
  <2> HIDE DEF f
  <2> QED
    BY <1>1, SumIs
<1> HIDE DEF sum
<1> QED
  BY <1>3, <1>5, <1>6 DEF Container
\* An alert that is raised when a condition holds.
LEMMA CountOne ==
  ASSUME NEW S, NEW a \in S, NEW P, NEW condition \in BOOLEAN
  PROVE  /\ When(condition, a) \in Seq(S)
         /\ Range(When(condition, a)) = IF condition THEN {a} ELSE {}
         /\ Count(When(condition, a), P) = IF condition /\ a \in P THEN 1 ELSE 0
<1>1. CASE condition
  <2>1. When(condition, a) = <<a>>
    BY <1>1 DEF When
  <2>2. <<a>> \in Seq(S) /\ DOMAIN <<a>> = {1} /\ <<a>>[1] = a
    OBVIOUS
  <2>3. Range(<<a>>) = {a}
    BY <2>2, Zenon DEF Range
  <2>4. CASE a \in P
    <3>1. Places(<<a>>, P) = {1}
      BY <2>2, <2>4 DEF Places
    <3>2. Count(<<a>>, P) = 1
      BY <3>1, FS_Singleton DEF Count
    <3> QED
      BY <1>1, <2>1, <2>2, <2>3, <2>4, <3>2
  <2>5. CASE a \notin P
    <3>1. Places(<<a>>, P) = {}
      BY <2>2, <2>5 DEF Places
    <3>2. Count(<<a>>, P) = 0
      BY <3>1, FS_EmptySet DEF Count
    <3> QED
      BY <1>1, <2>1, <2>2, <2>3, <2>5, <3>2
  <2> QED
    BY <2>4, <2>5
<1>2. CASE ~condition
  <2>1. When(condition, a) = <<>>
    BY <1>2 DEF When
  <2>2. <<>> \in Seq(S) /\ DOMAIN <<>> = {}
    OBVIOUS
  <2>3. Range(<<>>) = {} /\ Places(<<>>, P) = {}
    BY <2>2 DEF Range, Places
  <2>4. Count(<<>>, P) = 0
    BY <2>3, FS_EmptySet DEF Count
  <2> QED
    BY <1>2, <2>1, <2>2, <2>3, <2>4
<1> QED
  BY <1>1, <1>2

\* The second look at the pod finds a container with the trouble.
LEMMA TroubleNamed ==
  ASSUME PodTyped, NEW type \in Troubles, NEW one \in InTrouble(type), NEW value \in Nat,
         type # "pod_image_pull" => value = containers[one].restarts
  PROVE  LET a == BuildPodAlert(Pod, type, value)
         IN  a \in PodAlert /\ a.type = type /\ Right(a)
<1> DEFINE a == BuildPodAlert(Pod, type, value)
<1>1. DOMAIN containers = Container
  BY DEF PodTyped
<1>2. NamedContainer(Pod, type) = FirstContainer(InTrouble(type))
  <2>1. CASE type = "pod_oom_killed"
    <3>1. InTrouble(type) = {i \in DOMAIN Pod.containers : OOMKilled(Pod.containers[i])}
      BY <1>1, <2>1, PodTypes DEF InTrouble
    <3> QED
      BY <2>1, <3>1 DEF NamedContainer
  <2>2. CASE type = "pod_crash_loop"
    <3>1. InTrouble(type) = {i \in DOMAIN Pod.containers : CrashLooping(Pod.containers[i])}
      BY <1>1, <2>2, PodTypes DEF InTrouble
    <3> QED
      BY <2>2, <3>1 DEF NamedContainer
  <2>3. CASE type = "pod_image_pull"
    <3>1. InTrouble(type) = {i \in DOMAIN Pod.containers : ImagePullFails(Pod.containers[i])}
      BY <1>1, <2>3, PodTypes DEF InTrouble
    <3> QED
      BY <2>3, <3>1 DEF NamedContainer
  <2> QED
    BY <2>1, <2>2, <2>3 DEF Troubles
<1>3. NamedContainer(Pod, type) \in InTrouble(type)
  BY <1>2, FirstIs DEF InTrouble
<1>4. type \in DOMAIN PodSeverity
  BY PodTypes DEF Troubles
<1>5. /\ a.type = type /\ a.value = value /\ a.severity = PodSeverity[type]
      /\ a.container = NamedContainer(Pod, type)
      /\ a = [type |-> type, severity |-> PodSeverity[type], value |-> value,
              container |-> NamedContainer(Pod, type)]
  BY DEF BuildPodAlert
<1> HIDE DEF a
<1>6. a.container \in Container
  BY <1>3, <1>5 DEF InTrouble
<1>7. a \in PodAlert
  BY <1>4, <1>5, <1>6, PodTypes DEF PodAlert
<1>8. Right(a)
  <2>1. a.container \in InTrouble(type)
    BY <1>3, <1>5
  <2>2. InTrouble(type) = {a.container} => one = a.container
    OBVIOUS
  <2> QED
    BY <1>5, <2>1, <2>2 DEF Right, Troubles
<1> QED
  BY <1>5, <1>7, <1>8 DEF a

\* Of a pod that restarted, the one that restarted most.
LEMMA RestartsNamed ==
  ASSUME PodTyped, TotalRestarts(Pod) > RestartThreshold
  PROVE  LET a == BuildPodAlert(Pod, "pod_restart_threshold", TotalRestarts(Pod))
         IN  a \in PodAlert /\ a.type = "pod_restart_threshold" /\ Right(a)
<1> DEFINE a == BuildPodAlert(Pod, "pod_restart_threshold", TotalRestarts(Pod))
<1> DEFINE R == {containers[i].restarts : i \in Container}
<1> DEFINE most == Max({0} \union R)
<1>1. DOMAIN containers = Container /\ \A i \in Container : containers[i].restarts \in 0 .. MaxRestarts
  BY DEF PodTyped, Status
<1>2. TotalRestarts(Pod) \in Nat /\ TotalRestarts(Pod) # 0
  BY RestartsAddUp, ThresholdAssumption
<1>3. PICK i \in Container : containers[i].restarts # 0
  BY <1>2, RestartsAddUp
<1>4. /\ {0} \union R \in SUBSET Nat
      /\ {0} \union R # {}
      /\ IsFiniteSet({0} \union R)
  <2>1. {0} \union R \subseteq 0 .. MaxRestarts
    BY <1>1, PodAssumption
  <2>2. IsFiniteSet(0 .. MaxRestarts)
    BY PodAssumption, FS_Interval
  <2> HIDE DEF R
  <2>3. IsFiniteSet({0} \union R)
    BY <2>1, <2>2, FS_Subset
  <2> QED
    BY <2>1, <2>3, PodAssumption
<1>5. most \in {0} \union R /\ \A y \in {0} \union R : most >= y
  <2> HIDE DEF R
  <2> QED
    BY <1>4, MaxIs
<1> DEFINE S == {k \in Container : most > 0 /\ containers[k].restarts = most}
<1>6. HighestRestartContainer(Pod) = FirstContainer(S)
  <2> DEFINE T == {Pod.containers[k].restarts : k \in DOMAIN Pod.containers}
  <2>1. HighestRestartContainer(Pod) = FirstContainer({k \in DOMAIN Pod.containers :
          Max({0} \union T) > 0 /\ Pod.containers[k].restarts = Max({0} \union T)})
    BY Zenon DEF HighestRestartContainer
  <2>2. T = R
    BY <1>1, PodTypes
  <2> HIDE DEF R, T
  <2>3. {k \in DOMAIN Pod.containers :
          Max({0} \union T) > 0 /\ Pod.containers[k].restarts = Max({0} \union T)} = S
    BY <1>1, <2>2, PodTypes
  <2> QED
    BY <2>1, <2>3, Zenon
<1> HIDE DEF most
<1>7. most > 0 /\ most \in R
  <2>1. containers[i].restarts \in R /\ containers[i].restarts \in Nat
    BY <1>1
  <2>2. most >= containers[i].restarts /\ most \in Nat
    BY <1>4, <1>5, <2>1
  <2>3. most > 0
    BY <1>3, <2>1, <2>2
  <2> HIDE DEF R
  <2> QED
    BY <1>5, <2>3
<1>8. S # {} /\ S \subseteq Container
  BY <1>7
<1>9. FirstContainer(S) \in S
  <2> HIDE DEF S
  <2> QED
    BY <1>8, FirstIs
<1>10. NamedContainer(Pod, "pod_restart_threshold") = FirstContainer(S)
  BY <1>6 DEF NamedContainer
<1>11. /\ a.type = "pod_restart_threshold" /\ a.value = TotalRestarts(Pod)
       /\ a.severity = PodSeverity["pod_restart_threshold"]
       /\ a.container = FirstContainer(S)
       /\ a = [type |-> "pod_restart_threshold", severity |-> PodSeverity["pod_restart_threshold"],
               value |-> TotalRestarts(Pod), container |-> FirstContainer(S)]
  BY <1>10 DEF BuildPodAlert
<1> HIDE DEF a
<1>12. a.container \in Container /\ containers[a.container].restarts = most
  BY <1>9, <1>11
<1>13. a \in PodAlert
  BY <1>2, <1>11, <1>12, PodTypes DEF PodAlert
<1>14. ASSUME NEW k \in Container PROVE containers[k].restarts <= containers[a.container].restarts
  <2>1. containers[k].restarts \in R /\ containers[k].restarts \in Nat
    BY <1>1
  <2>2. most >= containers[k].restarts /\ most \in Nat
    BY <1>4, <1>5, <2>1
  <2> QED
    BY <1>12, <2>1, <2>2
<1>15. Right(a)
  BY <1>11, <1>12, <1>14 DEF Right
<1> QED
  BY <1>11, <1>13, <1>15 DEF a

\* An alert about the pod itself names no container.
LEMMA PodItself ==
  ASSUME NEW type \in {"pod_failed", "pod_unknown", "pod_pending"}
  PROVE  LET a == BuildPodAlert(Pod, type, 1)
         IN  a \in PodAlert /\ a.type = type /\ Right(a)
<1> DEFINE a == BuildPodAlert(Pod, type, 1)
<1>1. NamedContainer(Pod, type) = Unknown
  BY DEF NamedContainer
<1>2. /\ a.type = type /\ a.container = Unknown
      /\ a = [type |-> type, severity |-> PodSeverity[type], value |-> 1, container |-> Unknown]
  BY <1>1 DEF BuildPodAlert
<1> HIDE DEF a
<1>3. a \in PodAlert
  BY <1>2, PodTypes DEF PodAlert
<1>4. Right(a)
  BY <1>2 DEF Right
<1> QED
  BY <1>2, <1>3, <1>4 DEF a
\* What one container gives rise to.
LEMMA ContainerPieces ==
  ASSUME PodTyped, NEW i \in Container
  PROVE  LET piece == ContainerAlerts(Pod, containers[i])
         IN  /\ piece \in Seq(PodAlert)
             /\ \A a \in Range(piece) : Right(a)
             /\ \A type \in Troubles :
                  Count(piece, OfType(type)) = IF i \in InTrouble(type) THEN 1 ELSE 0
<1> DEFINE cs == containers[i]
<1> DEFINE value(type) == IF type = "pod_image_pull" THEN 1 ELSE cs.restarts
<1> DEFINE has(type) ==
      CASE type = "pod_oom_killed" -> OOMKilled(cs)
        [] type = "pod_crash_loop" -> CrashLooping(cs)
        [] type = "pod_image_pull" -> ImagePullFails(cs)
<1> DEFINE one(type) == When(has(type), BuildPodAlert(Pod, type, value(type)))
<1>1. ContainerAlerts(Pod, cs) = one("pod_oom_killed") \o one("pod_crash_loop") \o one("pod_image_pull")
  BY DEF ContainerAlerts
<1>2. cs.restarts \in Nat
  BY PodAssumption DEF PodTyped, Status
<1>3. ASSUME NEW type \in Troubles
      PROVE  (has(type) <=> i \in InTrouble(type)) /\ has(type) \in BOOLEAN
  <2>1. CASE type = "pod_oom_killed"
    <3>1. has(type) = OOMKilled(cs)
      BY <2>1
    <3>2. i \in InTrouble(type) <=> OOMKilled(cs)
      BY <2>1 DEF InTrouble
    <3> HIDE DEF has
    <3> QED
      BY <3>1, <3>2 DEF OOMKilled
  <2>2. CASE type = "pod_crash_loop"
    <3>1. has(type) = CrashLooping(cs)
      BY <2>2
    <3>2. i \in InTrouble(type) <=> CrashLooping(cs)
      BY <2>2 DEF InTrouble
    <3> HIDE DEF has
    <3> QED
      BY <3>1, <3>2 DEF CrashLooping
  <2>3. CASE type = "pod_image_pull"
    <3>1. has(type) = ImagePullFails(cs)
      BY <2>3
    <3>2. i \in InTrouble(type) <=> ImagePullFails(cs)
      BY <2>3 DEF InTrouble
    <3> HIDE DEF has
    <3>3. ImagePullFails(cs) \in BOOLEAN
      BY DEF ImagePullFails
    <3> QED
      BY <3>1, <3>2, <3>3, Zenon
  <2> QED
    BY <2>1, <2>2, <2>3, Zenon DEF Troubles
<1> HIDE DEF has
<1>4. ASSUME NEW type \in Troubles
      PROVE  /\ one(type) \in Seq(PodAlert)
             /\ \A a \in Range(one(type)) : Right(a)
             /\ \A other \in Troubles :
                  Count(one(type), OfType(other)) =
                    IF type = other /\ i \in InTrouble(type) THEN 1 ELSE 0
  <2> DEFINE a == BuildPodAlert(Pod, type, value(type))
  <2>1. value(type) \in Nat
    BY <1>2
  <2>2. CASE has(type)
    <3>1. a \in PodAlert /\ a.type = type /\ Right(a)
      BY <1>3, <2>1, <2>2, TroubleNamed
    <3> HIDE DEF a
    <3>2. \A other \in Troubles : a \in OfType(other) <=> type = other
      BY <3>1 DEF OfType
    <3>3. one(type) = When(has(type), a)
      BY DEF a
    <3>4. Range(one(type)) = {a} /\ one(type) \in Seq(PodAlert)
      BY <1>3, <2>2, <3>1, <3>3, CountOne
    <3>5. ASSUME NEW other \in Troubles
          PROVE  Count(one(type), OfType(other)) = IF a \in OfType(other) THEN 1 ELSE 0
      <4>1. Count(When(has(type), a), OfType(other)) =
              IF has(type) /\ a \in OfType(other) THEN 1 ELSE 0
        BY <1>3, <3>1, CountOne
      <4> HIDE DEF one
      <4> QED
        BY <2>2, <3>3, <4>1
    <3> HIDE DEF one
    <3> QED
      BY <1>3, <2>2, <3>1, <3>2, <3>4, <3>5
  <2>3. CASE ~has(type)
    <3>1. one(type) = <<>>
      BY <2>3 DEF When
    <3>2. \A other \in Troubles : Places(<<>>, OfType(other)) = {}
      BY DEF Places
    <3>3. \A other \in Troubles : Count(<<>>, OfType(other)) = 0
      BY <3>2, FS_EmptySet DEF Count
    <3> HIDE DEF one
    <3> QED
      BY <1>3, <2>3, <3>1, <3>3, EmptyElements
  <2> QED
    BY <2>2, <2>3
<1> HIDE DEF one
<1> DEFINE p == one("pod_oom_killed")
<1> DEFINE q == one("pod_crash_loop")
<1> DEFINE r == one("pod_image_pull")
<1>5. /\ p \in Seq(PodAlert) /\ q \in Seq(PodAlert) /\ r \in Seq(PodAlert)
      /\ \A a \in Range(p) \union Range(q) \union Range(r) : Right(a)
      /\ Troubles = {"pod_oom_killed", "pod_crash_loop", "pod_image_pull"}
  BY <1>4 DEF Troubles
<1>6. ASSUME NEW other \in Troubles
      PROVE  /\ Count(p, OfType(other)) =
                  IF "pod_oom_killed" = other /\ i \in InTrouble(other) THEN 1 ELSE 0
             /\ Count(q, OfType(other)) =
                  IF "pod_crash_loop" = other /\ i \in InTrouble(other) THEN 1 ELSE 0
             /\ Count(r, OfType(other)) =
                  IF "pod_image_pull" = other /\ i \in InTrouble(other) THEN 1 ELSE 0
  BY <1>4, <1>5
<1> HIDE DEF p, q, r
<1>7. p \o q \in Seq(PodAlert) /\ (p \o q) \o r \in Seq(PodAlert)
  BY <1>5, ConcatElements
<1>8. Range((p \o q) \o r) = Range(p) \union Range(q) \union Range(r)
  <2>1. ASSUME NEW s \in Seq(PodAlert), NEW t \in Seq(PodAlert)
        PROVE  Range(s \o t) = Range(s) \union Range(t)
    BY ConcatSet
  <2>2. Range(p \o q) = Range(p) \union Range(q)
    BY <1>5, <2>1, Zenon
  <2>3. Range((p \o q) \o r) = Range(p \o q) \union Range(r)
    BY <1>5, <1>7, <2>1, Zenon
  <2> QED
    BY <2>2, <2>3, Zenon
<1>9. ASSUME NEW other \in Troubles
      PROVE  Count((p \o q) \o r, OfType(other)) = IF i \in InTrouble(other) THEN 1 ELSE 0
  <2>1. Count((p \o q) \o r, OfType(other))
          = Count(p, OfType(other)) + Count(q, OfType(other)) + Count(r, OfType(other))
    <3>1. ASSUME NEW s \in Seq(PodAlert), NEW t \in Seq(PodAlert)
          PROVE  Count(s \o t, OfType(other)) = Count(s, OfType(other)) + Count(t, OfType(other))
      BY CountConcat
    <3>2. Count((p \o q) \o r, OfType(other)) = Count(p \o q, OfType(other)) + Count(r, OfType(other))
      BY <1>5, <1>7, <3>1, Zenon
    <3>3. Count(p \o q, OfType(other)) = Count(p, OfType(other)) + Count(q, OfType(other))
      BY <1>5, <3>1, Zenon
    <3> QED
      BY <3>2, <3>3, Zenon
  <2> QED
    BY <1>5, <1>6, <2>1
<1>10. ContainerAlerts(Pod, containers[i]) = (p \o q) \o r
  BY <1>1 DEF p, q, r
<1> QED
  BY <1>5, <1>7, <1>8, <1>9, <1>10

\* What all the containers give rise to: one alert for each that has the trouble.
LEMMA AllPieces ==
  ASSUME PodTyped
  PROVE  LET flat == FlattenSeq([i \in DOMAIN Pod.containers |->
                                   ContainerAlerts(Pod, Pod.containers[i])])
         IN  /\ flat \in Seq(PodAlert)
             /\ \A a \in Range(flat) : Right(a)
             /\ \A type \in Troubles :
                  Count(flat, OfType(type)) = Cardinality(InTrouble(type))
<1> DEFINE pieces == [i \in Container |-> ContainerAlerts(Pod, containers[i])]
<1>1. DOMAIN Pod.containers = Container /\ Pod.containers = containers
  BY PodTypes DEF PodTyped
<1>2. [i \in DOMAIN Pod.containers |-> ContainerAlerts(Pod, Pod.containers[i])] = pieces
  BY <1>1, Zenon
<1>3. \A i \in Container :
        /\ pieces[i] \in Seq(PodAlert)
        /\ \A a \in Range(pieces[i]) : Right(a)
        /\ \A type \in Troubles :
             Count(pieces[i], OfType(type)) = IF i \in InTrouble(type) THEN 1 ELSE 0
  BY ContainerPieces
<1>4. pieces \in Seq(Seq(PodAlert)) /\ Len(pieces) = ContainerCount /\ 1 .. Len(pieces) = Container
  <2>1. Container = 1 .. ContainerCount /\ ContainerCount \in Nat
    BY PodAssumption DEF Container
  <2> QED
    BY <1>3, <2>1
<1> HIDE DEF pieces
<1>5. /\ FlattenSeq(pieces) \in Seq(PodAlert)
      /\ Range(FlattenSeq(pieces)) = UNION {Range(pieces[i]) : i \in 1 .. Len(pieces)}
  BY <1>4, FlattenElements
<1>6. \A a \in Range(FlattenSeq(pieces)) : Right(a)
  BY <1>3, <1>4, <1>5
<1>7. ASSUME NEW type \in Troubles
      PROVE  Count(FlattenSeq(pieces), OfType(type)) = Cardinality(InTrouble(type))
  <2>1. InTrouble(type) \in SUBSET (1 .. Len(pieces))
    BY <1>4 DEF InTrouble
  <2>2. \A i \in 1 .. Len(pieces) :
          Count(pieces[i], OfType(type)) = IF i \in InTrouble(type) THEN 1 ELSE 0
    BY <1>3, <1>4
  <2> QED
    BY <1>4, <2>1, <2>2, CountFlatten
<1> QED
  BY <1>2, <1>5, <1>6, <1>7
\* An alert of another type counts as no trouble of a container.
LEMMA ItselfPieces ==
  ASSUME NEW type \in DOMAIN PodSeverity \ Troubles, NEW condition \in BOOLEAN, NEW a,
         condition => a \in PodAlert /\ a.type = type /\ Right(a)
  PROVE  /\ When(condition, a) \in Seq(PodAlert)
         /\ \A b \in Range(When(condition, a)) : Right(b)
         /\ \A other \in Troubles : Count(When(condition, a), OfType(other)) = 0
<1>1. CASE condition
  <2>1. Range(When(condition, a)) = {a} /\ When(condition, a) \in Seq(PodAlert)
    BY <1>1, CountOne
  <2>2. ASSUME NEW other \in Troubles PROVE Count(When(condition, a), OfType(other)) = 0
    <3>1. a \notin OfType(other)
      BY <1>1 DEF OfType
    <3>2. Count(When(condition, a), OfType(other)) =
            IF condition /\ a \in OfType(other) THEN 1 ELSE 0
      BY <1>1, CountOne
    <3> QED
      BY <3>1, <3>2
  <2> QED
    BY <1>1, <2>1, <2>2
<1>2. CASE ~condition
  <2>1. When(condition, a) = <<>>
    BY <1>2 DEF When
  <2>2. \A other \in Troubles : Places(<<>>, OfType(other)) = {}
    BY DEF Places
  <2>3. \A other \in Troubles : Count(<<>>, OfType(other)) = 0
    BY <2>2, FS_EmptySet DEF Count
  <2> QED
    BY <2>1, <2>3, EmptyElements
<1> QED
  BY <1>1, <1>2

\* What an event of the pod stores.
LEMMA PodAlertsAre ==
  ASSUME PodTyped
  PROVE  /\ EvaluatePodConditions(Pod) \in Seq(PodAlert)
         /\ \A a \in Range(EvaluatePodConditions(Pod)) : Right(a)
         /\ \A type \in Troubles :
              Count(EvaluatePodConditions(Pod), OfType(type)) = Cardinality(InTrouble(type))
<1> DEFINE failed == When(Pod.phase = "Failed", BuildPodAlert(Pod, "pod_failed", 1))
<1> DEFINE lost == When(Pod.phase = "Unknown", BuildPodAlert(Pod, "pod_unknown", 1))
<1> DEFINE flat == FlattenSeq([i \in DOMAIN Pod.containers |->
                                 ContainerAlerts(Pod, Pod.containers[i])])
<1> DEFINE many == When(TotalRestarts(Pod) > RestartThreshold,
                        BuildPodAlert(Pod, "pod_restart_threshold", TotalRestarts(Pod)))
<1> DEFINE late == When(Pod.phase = "Pending" /\ Pod.overdue, BuildPodAlert(Pod, "pod_pending", 1))
<1> DEFINE Fine(s, n) == /\ s \in Seq(PodAlert)
                         /\ \A a \in Range(s) : Right(a)
                         /\ \A type \in Troubles : Count(s, OfType(type)) = n[type]
<1> DEFINE none == [type \in Troubles |-> 0]
<1> DEFINE all == [type \in Troubles |-> Cardinality(InTrouble(type))]
<1>1. EvaluatePodConditions(Pod) = failed \o lost \o flat \o many \o late
  BY DEF EvaluatePodConditions
<1>2. {"pod_failed", "pod_unknown", "pod_pending", "pod_restart_threshold"}
        \subseteq DOMAIN PodSeverity \ Troubles
  BY PodTypes DEF Troubles
<1>3. ASSUME NEW type \in DOMAIN PodSeverity \ Troubles, NEW condition \in BOOLEAN, NEW a,
              condition => a \in PodAlert /\ a.type = type /\ Right(a)
       PROVE  Fine(When(condition, a), none)
  BY <1>3, ItselfPieces
<1>4. ASSUME NEW type \in {"pod_failed", "pod_unknown", "pod_pending"}, NEW condition \in BOOLEAN
       PROVE  Fine(When(condition, BuildPodAlert(Pod, type, 1)), none)
  <2> DEFINE a == BuildPodAlert(Pod, type, 1)
  <2>1. a \in PodAlert /\ a.type = type /\ Right(a)
    BY PodItself
  <2>2. type \in DOMAIN PodSeverity \ Troubles
    BY <1>2
  <2> HIDE DEF a, Fine
  <2>3. Fine(When(condition, a), none)
    BY <1>3, <2>1, <2>2
  <2> QED
    BY <2>3 DEF a
<1>5. Fine(failed, none)
  <2>1. (Pod.phase = "Failed") \in BOOLEAN
    OBVIOUS
  <2> HIDE DEF Fine
  <2> QED
    BY <1>4, <2>1
<1>6. Fine(lost, none)
  <2>1. (Pod.phase = "Unknown") \in BOOLEAN
    OBVIOUS
  <2> HIDE DEF Fine
  <2> QED
    BY <1>4, <2>1
<1>7. Fine(flat, all)
  BY AllPieces, Zenon
<1>8. Fine(many, none)
  <2> DEFINE a == BuildPodAlert(Pod, "pod_restart_threshold", TotalRestarts(Pod))
  <2> DEFINE condition == TotalRestarts(Pod) > RestartThreshold
  <2>1. condition => a \in PodAlert /\ a.type = "pod_restart_threshold" /\ Right(a)
    BY RestartsNamed
  <2>2. condition \in BOOLEAN
    OBVIOUS
  <2>3. many = When(condition, a)
    OBVIOUS
  <2> HIDE DEF a, condition, Fine, many
  <2> QED
    BY <1>2, <1>3, <2>1, <2>2, <2>3
<1>9. Fine(late, none)
  <2>1. (Pod.phase = "Pending" /\ Pod.overdue) \in BOOLEAN
    OBVIOUS
  <2> HIDE DEF Fine
  <2> QED
    BY <1>4, <2>1
<1> HIDE DEF failed, lost, flat, many, late, none, all
<1>10. /\ \A type \in Troubles : all[type] \in Nat /\ none[type] = 0
      /\ all \in [Troubles -> Nat] /\ none \in [Troubles -> Nat]
  <2>1. ASSUME NEW type \in Troubles PROVE Cardinality(InTrouble(type)) \in Nat
    <3>1. IsFiniteSet(Container)
      BY PodAssumption, FS_Interval DEF Container
    <3>2. InTrouble(type) \subseteq Container
      BY DEF InTrouble
    <3> QED
      BY <3>1, <3>2, FS_Subset, FS_CardinalityType
  <2> QED
    BY <2>1 DEF all, none
<1>11. ASSUME NEW s, NEW t, NEW n \in [Troubles -> Nat], NEW k \in [Troubles -> Nat],
             Fine(s, n), Fine(t, k)
      PROVE  Fine(s \o t, [type \in Troubles |-> n[type] + k[type]])
  <2>1. s \o t \in Seq(PodAlert) /\ Range(s \o t) = Range(s) \union Range(t)
    BY <1>11, ConcatElements, ConcatSet
  <2>2. ASSUME NEW type \in Troubles
        PROVE  Count(s \o t, OfType(type)) = n[type] + k[type]
    BY <1>11, CountConcat
  <2> QED
    BY <1>11, <2>1, <2>2
<1>12. /\ [type \in Troubles |-> none[type] + none[type]] = none
       /\ [type \in Troubles |-> none[type] + all[type]] = all
       /\ [type \in Troubles |-> all[type] + none[type]] = all
  BY <1>10
<1> HIDE DEF Fine
<1>13. Fine(failed \o lost, none)
  BY <1>5, <1>6, <1>10, <1>11, <1>12
<1>14. Fine(failed \o lost \o flat, all)
  BY <1>7, <1>10, <1>11, <1>12, <1>13
<1>15. Fine(failed \o lost \o flat \o many, all)
  BY <1>8, <1>10, <1>11, <1>12, <1>14
<1>16. Fine(failed \o lost \o flat \o many \o late, all)
  BY <1>9, <1>10, <1>11, <1>12, <1>15
<1> QED
  BY <1>1, <1>16 DEF Fine, all
\* A container that is not dead reports what it died of last.
LastInv ==
  \A i \in Container : containers[i].state # "Terminated" => containers[i].last = died[i]

PodInv ==
  /\ TypeOK
  /\ LastInv
  /\ \A j \in DOMAIN stored : Right(stored[j])
  /\ \A type \in Troubles : Count(stored, OfType(type)) = events * Cardinality(InTrouble(type))

LEMMA TroublesCounted ==
  ASSUME NEW type
  PROVE  IsFiniteSet(InTrouble(type)) /\ Cardinality(InTrouble(type)) \in Nat
<1>1. IsFiniteSet(Container)
  BY PodAssumption, FS_Interval DEF Container
<1>2. InTrouble(type) \subseteq Container
  BY DEF InTrouble
<1> QED
  BY <1>1, <1>2, FS_Subset, FS_CardinalityType

LEMMA PodTypeIs ==
  TypeOK <=> /\ PodTyped
             /\ evicted \in BOOLEAN /\ nodeLost \in BOOLEAN /\ overdue \in BOOLEAN
             /\ events \in 0 .. MaxEvents
             /\ stored \in Seq(PodAlert)
             /\ died \in [Container -> Reason \union {"none"}]
             /\ recent \in Nat
             /\ reported \in Nat
<1>1. {evicted, nodeLost, overdue} \subseteq BOOLEAN
        <=> evicted \in BOOLEAN /\ nodeLost \in BOOLEAN /\ overdue \in BOOLEAN
  BY Zenon
<1> QED
  BY <1>1, Zenon DEF TypeOK, PodTyped, Status, PodAlert

\* The properties follow from the invariant.
LEMMA PodInvImplies ==
  ASSUME PodInv
  PROVE  NoneMasked /\ OOMSurvivesRestart /\ NamesOneInTrouble
<1>1. stored \in Seq(PodAlert) /\ PodTyped /\ events \in Nat
  BY PodTypeIs, PodAssumption DEF PodInv
<1>2. ASSUME NEW type PROVE Stored(type) = Places(stored, OfType(type))
  <2>1. \A j \in DOMAIN stored : stored[j] \in PodAlert
    BY <1>1
  <2> QED
    BY <2>1 DEF Stored, Places, OfType
<1>3. \A type \in Troubles : Cardinality(Stored(type)) = events * Cardinality(InTrouble(type))
  BY <1>2 DEF PodInv, Count
<1>4. NoneMasked
  <2>1. InTrouble("pod_crash_loop") = {i \in Container : containers[i].state = "CrashLoopBackOff"}
    BY DEF InTrouble, CrashLooping
  <2>2. InTrouble("pod_image_pull") = {i \in Container : containers[i].state = "ErrImagePull"}
    <3>1. \A i \in Container : containers[i].state # "ImagePullBackOff"
      BY <1>1 DEF PodTyped, Status, NotStarted
    <3>2. InTrouble("pod_image_pull") = {i \in Container : ImagePullFails(containers[i])}
      BY DEF InTrouble
    <3> QED
      BY <3>1, <3>2 DEF ImagePullFails
  <2> QED
    BY <1>3, <2>1, <2>2, Zenon DEF NoneMasked, Troubles
<1>5. OOMSurvivesRestart
  <2> DEFINE killed == {i \in Container : died[i] = "OOMKilled" /\ containers[i].state # "Terminated"}
  <2> DEFINE all == InTrouble("pod_oom_killed")
  <2>1. all = {i \in Container : containers[i].last = "OOMKilled"}
    BY DEF InTrouble, OOMKilled
  <2>2. killed \subseteq all
    BY <2>1 DEF PodInv, LastInv
  <2>3. IsFiniteSet(all) /\ Cardinality(all) \in Nat
    BY TroublesCounted
  <2>4. Cardinality(Stored("pod_oom_killed")) = events * Cardinality(all)
    BY <1>3 DEF Troubles
  <2> HIDE DEF killed, all
  <2>5. Cardinality(killed) \in Nat /\ Cardinality(killed) <= Cardinality(all)
    BY <2>2, <2>3, FS_Subset, FS_CardinalityType
  <2>6. \A e, a, b \in Nat : b <= a => e * a >= e * b
    <3>1. ASSUME NEW e \in Nat, NEW a \in Nat, NEW b \in Nat, b <= a PROVE e * a >= e * b
      <4>1. a - b \in Nat /\ a = b + (a - b)
        BY <3>1
      <4>2. e * a = e * b + e * (a - b)
        BY <4>1
      <4>3. e * (a - b) \in Nat /\ e * b \in Nat
        BY <4>1
      <4> QED
        BY <4>2, <4>3
    <3> QED
      BY <3>1
  <2> QED
    BY <1>1, <2>3, <2>4, <2>5, <2>6 DEF OOMSurvivesRestart, killed
<1>6. NamesOneInTrouble
  BY Zenon DEF PodInv, NamesOneInTrouble, Right
<1> QED
  BY <1>4, <1>5, <1>6

\* The status changes: nothing is stored of the new one yet.
LEMMA PodChange ==
  ASSUME PodInv, Changes, PodTyped', LastInv',
         evicted' \in BOOLEAN, nodeLost' \in BOOLEAN, overdue' \in BOOLEAN,
         died' \in [Container -> Reason \union {"none"}], recent' \in Nat
  PROVE  PodInv'
<1>1. events' = 0 /\ stored' = <<>> /\ reported' = reported
  BY DEF Changes
<1>2. reported' \in Nat /\ events' \in 0 .. MaxEvents /\ stored' \in Seq(PodAlert)
  BY <1>1, PodTypeIs, PodAssumption, EmptyElements DEF PodInv
<1>3. {evicted', nodeLost', overdue'} \subseteq BOOLEAN
  OBVIOUS
<1>4. TypeOK'
  BY <1>2, <1>3, Zenon DEF TypeOK, PodTyped, Status, PodAlert
<1>5. \A j \in DOMAIN stored' : Right(stored[j])'
  <2>1. DOMAIN stored' = {}
    BY <1>1
  <2> QED
    BY <2>1
<1>6. ASSUME NEW type \in Troubles
      PROVE  Count(stored', OfType(type)) = events' * Cardinality(InTrouble(type)')
  <2>1. Places(stored', OfType(type)) = {}
    BY <1>1 DEF Places
  <2>2. Count(stored', OfType(type)) = 0
    BY <2>1, FS_EmptySet DEF Count
  <2>3. Cardinality(InTrouble(type)') \in Nat
    <3>1. IsFiniteSet(Container)
      BY PodAssumption, FS_Interval DEF Container
    <3>2. InTrouble(type)' \subseteq Container
      BY DEF InTrouble
    <3> QED
      BY <3>1, <3>2, FS_Subset, FS_CardinalityType
  <2> QED
    BY <1>1, <2>2, <2>3
<1> QED
  BY <1>4, <1>5, <1>6 DEF PodInv
\* The invariant of the pod: initially, and at each step.
LEMMA PodInitial ==
  ASSUME Init
  PROVE  PodInv
<1>1. /\ containers = [i \in Container |-> [restarts |-> 0, state |-> "Creating", last |-> "none"]]
      /\ evicted = FALSE /\ nodeLost = FALSE /\ overdue = FALSE
      /\ events = 0 /\ stored = <<>> /\ died = [i \in Container |-> "none"]
      /\ recent = 0 /\ reported = 0
  BY DEF Init
<1>2. PodTyped
  <2>1. [restarts |-> 0, state |-> "Creating", last |-> "none"] \in Status
    BY PodAssumption DEF Status, NotStarted
  <2> QED
    BY <1>1, <2>1 DEF PodTyped
<1>3. TypeOK
  <2>1. events \in 0 .. MaxEvents /\ stored \in Seq(PodAlert)
    BY <1>1, PodAssumption, EmptyElements
  <2>2. died \in [Container -> Reason \union {"none"}]
    BY <1>1
  <2> QED
    BY <1>1, <1>2, <2>1, <2>2, PodTypeIs
<1>4. LastInv
  BY <1>1 DEF LastInv
<1>5. DOMAIN stored = {}
  BY <1>1
<1>6. ASSUME NEW type \in Troubles
      PROVE  Count(stored, OfType(type)) = events * Cardinality(InTrouble(type))
  <2>1. Places(stored, OfType(type)) = {}
    BY <1>5 DEF Places
  <2>2. Count(stored, OfType(type)) = 0
    BY <2>1, FS_EmptySet DEF Count
  <2> QED
    BY <1>1, <2>2, TroublesCounted
<1> QED
  BY <1>3, <1>4, <1>5, <1>6 DEF PodInv

\* One container changes.
LEMMA ContainerChange ==
  ASSUME PodInv, NEW i \in Container, NEW from, NEW to \in Status, ContainerVia(i, from, to),
         died' \in [Container -> Reason \union {"none"}], recent' \in Nat,
         \A k \in Container \ {i} : died'[k] = died[k],
         to.state # "Terminated" => to.last = died'[i]
  PROVE  PodInv'
<1>1. /\ containers' = [containers EXCEPT ![i] = to]
      /\ Changes
      /\ evicted' = evicted /\ nodeLost' = nodeLost /\ overdue' = overdue
  BY DEF ContainerVia
<1>2. /\ PodTyped /\ LastInv
      /\ evicted \in BOOLEAN /\ nodeLost \in BOOLEAN /\ overdue \in BOOLEAN
  BY PodTypeIs DEF PodInv
<1>3. PodTyped'
  BY <1>1, <1>2 DEF PodTyped
<1>4. LastInv'
  BY <1>1, <1>2 DEF LastInv, PodTyped
<1>5. evicted' \in BOOLEAN /\ nodeLost' \in BOOLEAN /\ overdue' \in BOOLEAN
  BY <1>1, <1>2
<1> QED
  BY <1>1, <1>3, <1>4, <1>5, PodChange

\* What an event adds.
LEMMA PodEvent ==
  ASSUME PodInv, Event
  PROVE  PodInv'
<1> DEFINE new == EvaluatePodConditions(Pod)
<1> DEFINE values == {new[j].value : j \in {k \in DOMAIN new : new[k].type = "pod_restart_threshold"}}
<1>1. /\ events < MaxEvents /\ events' = events + 1
      /\ stored' = stored \o new
      /\ reported' = Max({reported} \union values)
      /\ containers' = containers /\ evicted' = evicted /\ nodeLost' = nodeLost
      /\ overdue' = overdue /\ died' = died /\ recent' = recent
  BY DEF Event, podVars
<1>2. /\ PodTyped /\ LastInv
      /\ evicted \in BOOLEAN /\ nodeLost \in BOOLEAN /\ overdue \in BOOLEAN
      /\ events \in 0 .. MaxEvents
      /\ stored \in Seq(PodAlert)
      /\ died \in [Container -> Reason \union {"none"}]
      /\ recent \in Nat
      /\ reported \in Nat
  BY PodTypeIs DEF PodInv
<1>3. /\ new \in Seq(PodAlert)
      /\ \A a \in Range(new) : Right(a)
      /\ \A type \in Troubles : Count(new, OfType(type)) = Cardinality(InTrouble(type))
  BY <1>2, PodAlertsAre
<1>4. reported' \in Nat
  <2>1. \A j \in DOMAIN new : new[j].value \in Nat
    <3>1. \A s \in Seq(PodAlert) : \A j \in DOMAIN s : s[j] \in PodAlert
      OBVIOUS
    <3>2. \A a \in PodAlert : a.value \in Nat
      BY DEF PodAlert
    <3> QED
      BY <1>3, <3>1, <3>2, Zenon
  <2>2. {reported} \union values \in SUBSET Nat /\ {reported} \union values # {}
    BY <1>2, <2>1
  <2>3. IsFiniteSet({reported} \union values)
    <3>1. IsFiniteSet(DOMAIN new)
      <4>1. DOMAIN new = 1 .. Len(new) /\ Len(new) \in Nat
        BY <1>3
      <4> QED
        BY <4>1, FS_Interval
    <3> DEFINE all == {new[j].value : j \in DOMAIN new}
    <3>2. IsFiniteSet(all)
      <4> DEFINE g == [j \in DOMAIN new |-> new[j].value]
      <4>1. g \in Surjection(DOMAIN new, all)
        BY DEF Surjection
      <4> HIDE DEF g, all
      <4> QED
        BY <3>1, <4>1, FS_Surjection
    <3>3. values \subseteq all
      OBVIOUS
    <3> HIDE DEF all, values
    <3>4. IsFiniteSet(values)
      BY <3>2, <3>3, FS_Subset
    <3>5. IsFiniteSet(values \union {reported})
      BY <3>4, FS_AddElement
    <3>6. values \union {reported} = {reported} \union values
      OBVIOUS
    <3> QED
      BY <3>5, <3>6
  <2> HIDE DEF values
  <2>4. Max({reported} \union values) \in {reported} \union values
    BY <2>2, <2>3, MaxIs
  <2> QED
    BY <1>1, <2>2, <2>4
<1> HIDE DEF new
<1>5. stored' \in Seq(PodAlert) /\ Range(stored') = Range(stored) \union Range(new)
  BY <1>1, <1>2, <1>3, ConcatElements, ConcatSet
<1>6. events' \in 0 .. MaxEvents
  BY <1>1, <1>2, PodAssumption
<1>7. TypeOK'
  <2>1. PodTyped'
    BY <1>1, <1>2 DEF PodTyped
  <2>2. {evicted', nodeLost', overdue'} \subseteq BOOLEAN
    BY <1>1, <1>2
  <2>3. died' \in [Container -> Reason \union {"none"}] /\ recent' \in Nat
    BY <1>1, <1>2
  <2> QED
    BY <1>4, <1>5, <1>6, <2>1, <2>2, <2>3, Zenon DEF TypeOK, PodTyped, Status, PodAlert
<1>8. LastInv'
  BY <1>1, <1>2 DEF LastInv
<1>9. ASSUME NEW a PROVE Right(a)' = Right(a)
  BY <1>1 DEF Right, InTrouble
<1>10. \A j \in DOMAIN stored' : Right(stored[j])'
  <2>1. \A a \in Range(stored) : Right(a)
    BY DEF PodInv, Range
  <2>2. ASSUME NEW j \in DOMAIN stored' PROVE Right(stored'[j])
    <3>1. stored'[j] \in Range(stored')
      BY DEF Range
    <3> QED
      BY <1>3, <1>5, <2>1, <3>1
  <2> QED
    BY <1>1, <2>2 DEF Right, InTrouble
<1>11. ASSUME NEW type \in Troubles
       PROVE  Count(stored', OfType(type)) = events' * Cardinality(InTrouble(type)')
  <2> DEFINE c == Cardinality(InTrouble(type))
  <2>1. Count(stored, OfType(type)) = events * c /\ Count(new, OfType(type)) = c
    BY <1>3 DEF PodInv
  <2>2. Count(stored', OfType(type)) = Count(stored, OfType(type)) + Count(new, OfType(type))
    BY <1>1, <1>2, <1>3, CountConcat
  <2>3. c \in Nat /\ events \in Nat
    BY <1>2, PodAssumption, TroublesCounted
  <2>4. InTrouble(type)' = InTrouble(type)
    BY <1>1 DEF InTrouble
  <2> HIDE DEF c
  <2>5. (events + 1) * c = events * c + c
    BY <2>3
  <2>6. Count(stored', OfType(type)) = (events + 1) * c
    BY <2>1, <2>2, <2>5
  <2> QED
    BY <1>1, <2>4, <2>6 DEF c
<1> QED
  BY <1>7, <1>8, <1>10, <1>11 DEF PodInv
LEMMA PodNext ==
  ASSUME PodInv, Next
  PROVE  PodInv'
<1>1. /\ PodTyped /\ LastInv
      /\ evicted \in BOOLEAN /\ nodeLost \in BOOLEAN /\ overdue \in BOOLEAN
      /\ events \in 0 .. MaxEvents
      /\ stored \in Seq(PodAlert)
      /\ died \in [Container -> Reason \union {"none"}]
      /\ recent \in Nat
      /\ reported \in Nat
  BY PodTypeIs DEF PodInv
<1>2. ASSUME NEW i \in Container
      PROVE  /\ containers[i] \in Status
             /\ containers[i].state # "Terminated" => containers[i].last = died[i]
             /\ died[i] \in Reason \union {"none"}
  BY <1>1 DEF PodTyped, LastInv
<1>3. ASSUME NEW i \in Container, PullFails(i) PROVE PodInv'
  <2> DEFINE to == [containers[i] EXCEPT !.state = "ErrImagePull"]
  <2>1. ContainerVia(i, "Creating", to) /\ died' = died /\ recent' = recent
    BY <1>3 DEF PullFails
  <2>2. containers[i].state = "Creating"
    BY <2>1 DEF ContainerVia
  <2>3. to \in Status /\ to.last = died[i]
    BY <1>2, <2>2 DEF Status, NotStarted
  <2> HIDE DEF to
  <2> QED
    BY <1>1, <2>1, <2>3, ContainerChange
<1>4. ASSUME NEW i \in Container, Run(i) PROVE PodInv'
  <2> DEFINE to == [containers[i] EXCEPT !.state = "Running"]
  <2>1. PICK from \in NotStarted : ContainerVia(i, from, to)
    BY <1>4 DEF Run
  <2>2. died' = died /\ recent' = recent
    BY <1>4 DEF Run
  <2>3. containers[i].state \in NotStarted
    BY <2>1 DEF ContainerVia
  <2>4. to \in Status /\ to.last = died[i]
    BY <1>2, <2>3 DEF Status, NotStarted
  <2> HIDE DEF to
  <2> QED
    BY <1>1, <2>1, <2>2, <2>4, ContainerChange
<1>5. ASSUME NEW i \in Container, BackOff(i) PROVE PodInv'
  <2> DEFINE to == [containers[i] EXCEPT !.state = "CrashLoopBackOff", !.last = died[i]]
  <2>1. ContainerVia(i, "Terminated", to) /\ died' = died /\ recent' = recent
    BY <1>5 DEF BackOff
  <2>2. to \in Status /\ to.last = died[i]
    BY <1>2 DEF Status
  <2> HIDE DEF to
  <2> QED
    BY <1>1, <2>1, <2>2, ContainerChange
<1>6. ASSUME NEW i \in Container, Restart(i) PROVE PodInv'
  <2> DEFINE to == [restarts |-> containers[i].restarts + 1, state |-> "Running", last |-> died[i]]
  <2>1. PICK from \in {"Terminated", "CrashLoopBackOff"} : ContainerVia(i, from, to)
    BY <1>6 DEF Restart
  <2>2. containers[i].restarts < MaxRestarts /\ died' = died /\ recent' = recent + 1
    BY <1>6 DEF Restart
  <2>3. to \in Status /\ to.last = died[i]
    BY <1>2, <2>2, PodAssumption DEF Status
  <2>4. recent' \in Nat
    BY <1>1, <2>2
  <2> HIDE DEF to
  <2> QED
    BY <1>1, <2>1, <2>2, <2>3, <2>4, ContainerChange
<1>7. ASSUME NEW i \in Container, NEW reason \in Reason, Die(i, reason) PROVE PodInv'
  <2> DEFINE to == [containers[i] EXCEPT !.state = "Terminated"]
  <2>1. ContainerVia(i, "Running", to) /\ died' = [died EXCEPT ![i] = reason] /\ recent' = recent
    BY <1>7 DEF Die
  <2>2. to \in Status /\ to.state = "Terminated"
    BY <1>2 DEF Status
  <2>3. /\ died' \in [Container -> Reason \union {"none"}]
        /\ \A k \in Container \ {i} : died'[k] = died[k]
    BY <1>1, <2>1
  <2> HIDE DEF to
  <2> QED
    BY <1>1, <2>1, <2>2, <2>3, ContainerChange
<1>8. CASE Evict
  <2>1. /\ evicted' = TRUE /\ Changes /\ containers' = containers /\ nodeLost' = nodeLost
        /\ overdue' = overdue /\ died' = died /\ recent' = recent
    BY <1>8 DEF Evict
  <2>2. PodTyped' /\ LastInv'
    BY <1>1, <2>1 DEF PodTyped, LastInv
  <2>3. evicted' \in BOOLEAN /\ nodeLost' \in BOOLEAN /\ overdue' \in BOOLEAN
    BY <1>1, <2>1
  <2> QED
    BY <1>1, <2>1, <2>2, <2>3, PodChange
<1>9. CASE LoseOrFindNode
  <2>1. /\ nodeLost' = ~nodeLost /\ Changes /\ containers' = containers /\ evicted' = evicted
        /\ overdue' = overdue /\ died' = died /\ recent' = recent
    BY <1>9 DEF LoseOrFindNode
  <2>2. PodTyped' /\ LastInv'
    BY <1>1, <2>1 DEF PodTyped, LastInv
  <2>3. evicted' \in BOOLEAN /\ nodeLost' \in BOOLEAN /\ overdue' \in BOOLEAN
    BY <1>1, <2>1
  <2> QED
    BY <1>1, <2>1, <2>2, <2>3, PodChange
<1>10. CASE FiveMinutes
  <2>1. /\ overdue' = TRUE /\ recent' = 0 /\ containers' = containers /\ evicted' = evicted
        /\ nodeLost' = nodeLost /\ died' = died
        /\ events' = events /\ stored' = stored /\ reported' = reported
    BY <1>10 DEF FiveMinutes, evalVars
  <2>2. TypeOK'
    BY <1>1, <2>1 DEF PodInv, TypeOK
  <2>3. LastInv' /\ \A j \in DOMAIN stored' : Right(stored[j])'
    BY <2>1 DEF PodInv, LastInv, Right, InTrouble
  <2>4. \A type \in Troubles : InTrouble(type)' = InTrouble(type)
    BY <2>1 DEF InTrouble
  <2>5. ASSUME NEW type \in Troubles
        PROVE  Count(stored', OfType(type)) = events' * Cardinality(InTrouble(type)')
    BY <2>1, <2>4 DEF PodInv
  <2> QED
    BY <2>2, <2>3, <2>5 DEF PodInv
<1> QED
  BY <1>3, <1>4, <1>5, <1>6, <1>7, <1>8, <1>9, <1>10, PodEvent DEF Next

LEMMA PodStutter ==
  ASSUME PodInv, UNCHANGED vars
  PROVE  PodInv'
<1>1. /\ overdue' = overdue /\ recent' = recent /\ containers' = containers /\ evicted' = evicted
      /\ nodeLost' = nodeLost /\ died' = died
      /\ events' = events /\ stored' = stored /\ reported' = reported
  BY DEF vars, podVars, evalVars
<1>2. TypeOK'
  BY <1>1 DEF PodInv, TypeOK
<1>3. LastInv' /\ \A j \in DOMAIN stored' : Right(stored[j])'
  BY <1>1 DEF PodInv, LastInv, Right, InTrouble
<1>4. \A type \in Troubles : InTrouble(type)' = InTrouble(type)
  BY <1>1 DEF InTrouble
<1>5. ASSUME NEW type \in Troubles
      PROVE  Count(stored', OfType(type)) = events' * Cardinality(InTrouble(type)')
  BY <1>1, <1>4 DEF PodInv
<1> QED
  BY <1>2, <1>3, <1>5 DEF PodInv

-------------------------------------------------------------------------------
(* The three collectors *)

CollectorsInv == PodInv /\ NodeInv /\ LoadInv

LEMMA CollectorsInductive ==
  CollectorsSpec => []CollectorsInv
<1>1. CollectorsInit => CollectorsInv
  BY PodInitial, NodeInitial, LoadInitial DEF CollectorsInit, CollectorsInv
<1>2. ASSUME CollectorsInv, [CollectorsNext]_<<collector, vars, nodeVars, loadVars>>
      PROVE  CollectorsInv'
  <2>1. PodInv /\ NodeInv /\ LoadInv
    BY <1>2 DEF CollectorsInv
  <2>2. PodInv'
    <3>1. Next \/ UNCHANGED vars
      BY <1>2, Zenon DEF CollectorsNext
    <3> QED
      BY <2>1, <3>1, PodNext, PodStutter
  <2>3. NodeInv'
    <3>1. Node!Next \/ UNCHANGED nodeVars
      BY <1>2, Zenon DEF CollectorsNext
    <3> QED
      BY <2>1, <3>1, NodeNext, NodeStutter
  <2>4. LoadInv'
    <3>1. Load!Next \/ UNCHANGED loadVars
      BY <1>2, Zenon DEF CollectorsNext
    <3> QED
      BY <2>1, <3>1, LoadNext, LoadStutter
  <2> QED
    BY <2>2, <2>3, <2>4 DEF CollectorsInv
<1> QED
  BY <1>1, <1>2, PTL DEF CollectorsSpec

\* The variables of the three collectors keep their types.
THEOREM TypeCorrect == CollectorsSpec => []CollectorsTypeOK
<1>1. CollectorsInv => CollectorsTypeOK
  BY DEF CollectorsInv, PodInv, NodeInv, LoadInv, CollectorsTypeOK
<1> QED
  BY <1>1, CollectorsInductive, PTL

\* Each event stores an alert for every container in trouble, whatever else is wrong
\* (pod_collector.go:219).
THEOREM NothingMasksTrouble == CollectorsSpec => []NoneMasked
<1>1. CollectorsInv => NoneMasked
  BY PodInvImplies DEF CollectorsInv
<1> QED
  BY <1>1, CollectorsInductive, PTL

\* A container killed for memory is reported until it dies of something else
\* (pod_collector.go:223).
THEOREM KillingIsReported == CollectorsSpec => []OOMSurvivesRestart
<1>1. CollectorsInv => OOMSurvivesRestart
  BY PodInvImplies DEF CollectorsInv
<1> QED
  BY <1>1, CollectorsInductive, PTL

\* An alert names a container that has the trouble it reports, and where that is the
\* only one, carries its restarts (alert_builder.go:57).
THEOREM NameIsRight == CollectorsSpec => []NamesOneInTrouble
<1>1. CollectorsInv => NamesOneInTrouble
  BY PodInvImplies DEF CollectorsInv
<1> QED
  BY <1>1, CollectorsInductive, PTL

\* A silent node is one alert with each event (node_collector.go:194).
THEOREM SilentNodeIsOneAlert == CollectorsSpec => []SilenceIsOneAlert
<1>1. CollectorsInv => SilenceIsOneAlert
  BY DEF CollectorsInv, NodeInv
<1> QED
  BY <1>1, CollectorsInductive, PTL

\* What could be read is reported for exactly the metrics its load is over the
\* threshold of (metrics_client.go:154).
THEOREM LoadsAreReported == CollectorsSpec => []StableLoadsReported
<1>1. CollectorsInv => StableLoadsReported
  BY LoadsReported DEF CollectorsInv
<1> QED
  BY <1>1, CollectorsInductive, PTL
=================================================================================
