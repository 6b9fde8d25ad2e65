----------------------------- MODULE SequenceLemmas -----------------------------
(***************************************************************************)
(* What the proofs need to know of the sequences that stand for Go's       *)
(* channels and slices: what a send at the end and a receive at the front  *)
(* do to the elements, to the set of them and to their being distinct.     *)
(***************************************************************************)
EXTENDS Integers, Sequences, Functions, TLAPS

LEMMA RangeIsImage ==
  ASSUME NEW S, NEW q \in Seq(S)
  PROVE  /\ Range(q) = {q[i] : i \in 1 .. Len(q)}
         /\ Range(q) \subseteq S
  BY DEF Range

LEMMA RangeElements ==
  ASSUME NEW S, NEW q \in Seq(S)
  PROVE  /\ \A i \in 1 .. Len(q) : q[i] \in Range(q)
         /\ \A e \in Range(q) : \E i \in 1 .. Len(q) : q[i] = e
  BY DEF Range

LEMMA SameElements ==
  ASSUME NEW S, NEW p \in Seq(S), NEW q \in Seq(S), Len(p) = Len(q),
         \A i \in 1 .. Len(p) : p[i] = q[i]
  PROVE  p = q
<1>1. p = [i \in 1 .. Len(p) |-> p[i]] /\ q = [i \in 1 .. Len(q) |-> q[i]]
  OBVIOUS
<1> QED
  BY <1>1

LEMMA EmptyElements ==
  /\ \A S : <<>> \in Seq(S)
  /\ Len(<<>>) = 0
  /\ Range(<<>>) = {}
  /\ IsInjective(<<>>)
  BY DEF Range, IsInjective

LEMMA AppendElements ==
  ASSUME NEW S, NEW q \in Seq(S), NEW x \in S
  PROVE  /\ Append(q, x) \in Seq(S)
         /\ Len(Append(q, x)) = Len(q) + 1
         /\ \A i \in 1 .. Len(q) : Append(q, x)[i] = q[i]
         /\ Append(q, x)[Len(q) + 1] = x
  OBVIOUS

LEMMA AppendRange ==
  ASSUME NEW S, NEW q \in Seq(S), NEW x \in S
  PROVE  Range(Append(q, x)) = Range(q) \union {x}
<1>1. Range(Append(q, x)) = {Append(q, x)[i] : i \in 1 .. Len(q) + 1}
  BY AppendElements DEF Range
<1>2. Range(q) = {q[i] : i \in 1 .. Len(q)} /\ Len(q) \in Nat
  BY DEF Range
<1> QED
  BY <1>1, <1>2, AppendElements

LEMMA AppendDistinct ==
  ASSUME NEW S, NEW q \in Seq(S), NEW x \in S, IsInjective(q), x \notin Range(q)
  PROVE  IsInjective(Append(q, x))
<1> DEFINE p == Append(q, x)
<1> SUFFICES ASSUME NEW i \in 1 .. Len(q) + 1, NEW j \in 1 .. Len(q) + 1, p[i] = p[j]
             PROVE  i = j
  BY AppendElements DEF IsInjective
<1>1. \A k \in 1 .. Len(q) : q[k] # x
  BY RangeIsImage
<1>2. CASE i \in 1 .. Len(q) /\ j \in 1 .. Len(q)
  BY <1>2, AppendElements DEF IsInjective
<1>3. CASE i = Len(q) + 1 \/ j = Len(q) + 1
  BY <1>1, <1>3, AppendElements
<1> QED
  BY <1>2, <1>3

LEMMA TailElements ==
  ASSUME NEW S, NEW q \in Seq(S), q # <<>>
  PROVE  /\ Tail(q) \in Seq(S)
         /\ Len(q) \in Nat \ {0}
         /\ Len(Tail(q)) = Len(q) - 1
         /\ \A i \in 1 .. Len(q) - 1 : Tail(q)[i] = q[i + 1]
         /\ Head(q) = q[1]
         /\ Head(q) \in S
  OBVIOUS

LEMMA TailRange ==
  ASSUME NEW S, NEW q \in Seq(S), q # <<>>
  PROVE  Range(q) = {Head(q)} \union Range(Tail(q))
<1> DEFINE t == Tail(q)
<1>1. /\ t \in Seq(S)
      /\ Len(q) \in Nat \ {0}
      /\ Len(t) = Len(q) - 1
      /\ \A i \in 1 .. Len(t) : t[i] = q[i + 1] /\ i + 1 \in 1 .. Len(q)
      /\ Head(q) = q[1]
  BY TailElements
<1>2. Range(q) = {q[i] : i \in 1 .. Len(q)}
  BY RangeIsImage
<1>3. Range(t) = {t[i] : i \in 1 .. Len(t)}
  BY <1>1, RangeIsImage
<1> HIDE DEF t
<1>4. ASSUME NEW i \in 1 .. Len(q) PROVE q[i] = Head(q) \/ q[i] \in Range(t)
  <2>1. CASE i = 1
    BY <1>1, <2>1
  <2>2. CASE i # 1
    <3>1. i - 1 \in 1 .. Len(t) /\ (i - 1) + 1 = i
      BY <1>1, <2>2
    <3>2. t[i - 1] = q[i]
      BY <1>1, <3>1
    <3> QED
      BY <1>3, <3>1, <3>2
  <2> QED
    BY <2>1, <2>2
<1>5. Head(q) \in Range(q)
  BY <1>1, <1>2
<1>6. \A i \in 1 .. Len(t) : t[i] \in Range(q)
  BY <1>1, <1>2
<1>7. Range(q) = {Head(q)} \union Range(t)
  BY <1>2, <1>3, <1>4, <1>5, <1>6
<1> QED
  BY <1>7 DEF t

LEMMA TailDistinct ==
  ASSUME NEW S, NEW q \in Seq(S), q # <<>>, IsInjective(q)
  PROVE  /\ IsInjective(Tail(q))
         /\ Head(q) \notin Range(Tail(q))
         /\ Range(Tail(q)) = Range(q) \ {Head(q)}
<1>1. \A i, j \in 1 .. Len(q) : q[i] = q[j] => i = j
  BY DEF IsInjective
<1>2. \A i \in 1 .. Len(q) - 1 : i + 1 \in 1 .. Len(q) /\ i + 1 # 1 /\ Tail(q)[i] = q[i + 1]
  BY TailElements
<1>3. IsInjective(Tail(q))
  <2> SUFFICES ASSUME NEW i \in 1 .. Len(q) - 1, NEW j \in 1 .. Len(q) - 1,
                      Tail(q)[i] = Tail(q)[j]
               PROVE  i = j
    BY TailElements DEF IsInjective
  <2>1. i + 1 = j + 1
    BY <1>1, <1>2
  <2> QED
    BY <2>1
<1>4. Head(q) \notin Range(Tail(q))
  <2>1. 1 \in 1 .. Len(q) /\ Head(q) = q[1]
    BY TailElements
  <2>2. \A i \in 1 .. Len(q) - 1 : Tail(q)[i] # Head(q)
    BY <1>1, <1>2, <2>1
  <2>3. Tail(q) \in Seq(S) /\ Len(Tail(q)) = Len(q) - 1
    BY TailElements
  <2>4. Range(Tail(q)) = {Tail(q)[i] : i \in 1 .. Len(q) - 1}
    BY <2>3, RangeIsImage
  <2> QED
    BY <2>2, <2>4
<1> QED
  BY <1>3, <1>4, TailRange
=================================================================================
