----------------------- MODULE StreamingDeliveryProofs -----------------------
(* Proofs about StreamingDelivery, for any chunk sizes, batch size, events  *)
(* and failures. The first half is about sequences: FlattenSeq recurs, so   *)
(* each fact about it is an induction, which is taken over a set of         *)
(* naturals (SetInduction, StepInduction) from the well-foundedness of <.   *)
EXTENDS StreamingDelivery, NaturalsInduction, WellFoundedInduction,
        FiniteSetTheorems, SequenceTheorems, TLAPS

(* Every non-empty set of naturals has a least element.                     *)
LEMMA LeastNatural ==
  ASSUME NEW T \in SUBSET Nat, T # {}
  PROVE  \E n \in T : \A m \in T : n <= m
<1> DEFINE Less == {ss \in Nat \X Nat : ss[1] < ss[2]}
<1>1. IsWellFoundedOn(Less, Nat)
  BY NatLessThanWellFounded DEF OpToRel
<1>2. PICK n \in T : \A m \in T : ~ (<<m, n>> \in Less)
  <2> HIDE DEF Less
  <2> QED
    BY <1>1, WFMin
<1>3. \A m \in T : ~ (m < n)
  BY <1>2
<1> QED
  BY <1>3

(* Induction, for the set of the naturals that have the property.           *)
LEMMA SetInduction ==
  ASSUME NEW T, 0 \in T, \A n \in Nat : n \in T => n + 1 \in T
  PROVE  \A n \in Nat : n \in T
<1> DEFINE Others == {n \in Nat : n \notin T}
<1> SUFFICES ASSUME Others # {} PROVE FALSE
  OBVIOUS
<1>1. PICK n \in Others : \A m \in Others : n <= m
  BY LeastNatural
<1>2. n \in Nat /\ n # 0
  BY <1>1
<1>3. n - 1 \in Nat /\ n - 1 \notin Others
  BY <1>1, <1>2
<1> QED
  BY <1>1, <1>2, <1>3

(* Induction up to m.                                                       *)
LEMMA StepInduction ==
  ASSUME NEW m \in Nat, NEW T, 0 \in T, \A i \in 1 .. m : i - 1 \in T => i \in T
  PROVE  \A i \in 0 .. m : i \in T
<1> DEFINE U == {n \in Nat : n <= m => n \in T}
<1>1. ASSUME NEW n \in Nat, n \in U
      PROVE  n + 1 \in U
  <2> SUFFICES ASSUME n + 1 <= m PROVE n + 1 \in T
    OBVIOUS
  <2>1. n + 1 \in 1 .. m /\ n + 1 - 1 = n /\ n \in T
    BY <1>1
  <2> QED
    BY <2>1
<1>2. \A n \in Nat : n \in U
  <2>1. 0 \in U
    OBVIOUS
  <2> HIDE DEF U
  <2> QED
    BY <1>1, <2>1, SetInduction
<1> QED
  BY <1>2

(* Concatenation, under a name the provers do not look into.               *)
Cat(s, t) == s \o t

(* What is used of it.                                                      *)
LEMMA CatType ==
  ASSUME NEW S, NEW s \in Seq(S), NEW t \in Seq(S)
  PROVE  Cat(s, t) \in Seq(S)
  BY DEF Cat

LEMMA CatAssociates ==
  ASSUME NEW S, NEW s \in Seq(S), NEW t \in Seq(S), NEW u \in Seq(S)
  PROVE  Cat(Cat(s, t), u) = Cat(s, Cat(t, u))
  BY DEF Cat

LEMMA CatEmpty ==
  ASSUME NEW S, NEW s \in Seq(S)
  PROVE  Cat(s, <<>>) = s /\ Cat(<<>>, s) = s
  BY DEF Cat

(* What \div returns.                                                       *)
LEMMA Div ==
  ASSUME NEW a \in Nat, NEW b \in Nat \ {0}
  PROVE /\ a \div b \in Nat
        /\ (a \div b) * b <= a /\ a < (a \div b) * b + b
  BY Z3

(* The function by which FlattenSeq recurs exists.                          *)
LEMMA FlattenUnfolds ==
  ASSUME NEW ss, Len(ss) \in Nat \ {0}
  PROVE  \E f : /\ f = [i \in 1 .. Len(ss) |-> IF i = 1 THEN ss[i] ELSE f[i - 1] \o ss[i]]
                /\ FlattenSeq(ss) = f[Len(ss)]
<1> DEFINE Upto(n) == \E f : f = [i \in 1 .. n |-> IF i = 1 THEN ss[i] ELSE f[i - 1] \o ss[i]]
<1>1. Upto(0)
  <2> DEFINE f == [i \in 1 .. 0 |-> ss[i]]
  <2>1. f = [i \in 1 .. 0 |-> IF i = 1 THEN ss[i] ELSE f[i - 1] \o ss[i]]
    OBVIOUS
  <2> QED
    BY <2>1
<1>2. ASSUME NEW n \in Nat, Upto(n)
      PROVE  Upto(n + 1)
  <2>1. PICK f : f = [i \in 1 .. n |-> IF i = 1 THEN ss[i] ELSE f[i - 1] \o ss[i]]
    BY <1>2
  <2> DEFINE g == [i \in 1 .. n + 1 |-> IF i \in 1 .. n THEN f[i]
                                        ELSE IF i = 1 THEN ss[i] ELSE f[i - 1] \o ss[i]]
  <2>2. \A i \in 1 .. n + 1 : i # 1 => g[i - 1] = f[i - 1]
    OBVIOUS
  <2>3. \A i \in 1 .. n + 1 : g[i] = IF i = 1 THEN ss[i] ELSE g[i - 1] \o ss[i]
    BY <2>1, <2>2
  <2>4. g = [i \in 1 .. n + 1 |-> IF i = 1 THEN ss[i] ELSE g[i - 1] \o ss[i]]
    BY <2>3
  <2> QED
    BY <2>4
<1>3. \A n \in Nat : Upto(n)
  <2> DEFINE T == {n \in Nat : Upto(n)}
  <2> HIDE DEF Upto
  <2>1. 0 \in T /\ \A n \in Nat : n \in T => n + 1 \in T
    BY <1>1, <1>2
  <2>2. \A n \in Nat : n \in T
    <3> HIDE DEF T
    <3> QED
      BY <2>1, SetInduction
  <2> QED
    BY <2>2
<1>4. Upto(Len(ss))
  BY <1>3
<1> DEFINE f == CHOOSE f : f = [i \in 1 .. Len(ss) |-> IF i = 1 THEN ss[i] ELSE f[i - 1] \o ss[i]]
<1>5. f = [i \in 1 .. Len(ss) |-> IF i = 1 THEN ss[i] ELSE f[i - 1] \o ss[i]]
  BY <1>4
<1>6. FlattenSeq(ss) = f[Len(ss)]
  BY DEF FlattenSeq
<1> HIDE DEF f
<1> QED
  BY <1>5, <1>6

(* The prefixes of ss flattened, one after the other, are steps of which    *)
(* the last is FlattenSeq(ss), and no others start and go on like them.     *)
FlattenSteps(S, ss, f) ==
  /\ f \in [0 .. Len(ss) -> Seq(S)]
  /\ f[0] = <<>>
  /\ \A i \in 1 .. Len(ss) : f[i] = f[i - 1] \o ss[i]

(* FlattenSeq takes these steps.                                            *)
LEMMA FlattenTakesSteps ==
  ASSUME NEW S, NEW ss \in Seq(Seq(S))
  PROVE  \E f : FlattenSteps(S, ss, f) /\ FlattenSeq(ss) = f[Len(ss)]
<1>1. CASE Len(ss) = 0
  <2> DEFINE f == [i \in 0 .. 0 |-> <<>>]
  <2>1. FlattenSeq(ss) = <<>> /\ ss = <<>>
    BY <1>1 DEF FlattenSeq
  <2>2. FlattenSteps(S, ss, f)
    BY <1>1 DEF FlattenSteps
  <2> QED
    BY <2>1, <2>2, <1>1
<1>2. CASE Len(ss) # 0
  <2>1. Len(ss) \in Nat \ {0}
    BY <1>2
  <2>2. PICK g : /\ g = [i \in 1 .. Len(ss) |-> IF i = 1 THEN ss[i] ELSE g[i - 1] \o ss[i]]
                 /\ FlattenSeq(ss) = g[Len(ss)]
    BY <2>1, FlattenUnfolds
  <2>3. \A i \in 1 .. Len(ss) : ss[i] \in Seq(S)
    OBVIOUS
  <2>12. \A i \in 1 .. Len(ss) : g[i] = IF i = 1 THEN ss[i] ELSE g[i - 1] \o ss[i]
    BY <2>2
  <2> DEFINE T == {n \in 0 .. Len(ss) : n # 0 => g[n] \in Seq(S)}
  <2>4. 0 \in T
    BY <2>1
  <2>5. ASSUME NEW i \in 1 .. Len(ss), i - 1 \in T
        PROVE  i \in T
    <3>1. CASE i = 1
      BY <3>1, <2>12, <2>3
    <3>2. CASE i # 1
      <4>1. g[i - 1] \in Seq(S)
        BY <3>2, <2>5
      <4>2. g[i] = g[i - 1] \o ss[i]
        BY <3>2, <2>12
      <4>3. g[i - 1] \o ss[i] \in Seq(S)
        BY <4>1, <2>3, ConcatProperties
      <4>4. g[i] \in Seq(S)
        BY <4>2, <4>3, Zenon
      <4> QED
        BY <4>4
    <3> QED
      BY <3>1, <3>2
  <2>6. \A i \in 0 .. Len(ss) : i \in T
    <3> HIDE DEF T
    <3> QED
      BY <2>1, <2>4, <2>5, StepInduction
  <2>7. \A i \in 1 .. Len(ss) : g[i] \in Seq(S)
    BY <2>6
  <2> DEFINE f == [i \in 0 .. Len(ss) |-> IF i = 0 THEN <<>> ELSE g[i]]
  <2>8. f \in [0 .. Len(ss) -> Seq(S)]
    BY <2>7
  <2>9. \A i \in 1 .. Len(ss) : f[i] = f[i - 1] \o ss[i]
    <3> SUFFICES ASSUME NEW i \in 1 .. Len(ss) PROVE f[i] = f[i - 1] \o ss[i]
      OBVIOUS
    <3>1. CASE i = 1
      <4>1. f[0] = <<>> /\ f[1] = ss[1] /\ i - 1 = 0
        BY <2>1, <2>2, <3>1
      <4>2. <<>> \o ss[1] = ss[1]
        BY <2>3, <2>1
      <4> QED
        BY <3>1, <4>1, <4>2
    <3>2. CASE i # 1
      <4>1. g[i] = g[i - 1] \o ss[i]
        BY <3>2, <2>12
      <4>2. i - 1 \in 0 .. Len(ss) /\ i - 1 # 0 /\ i \in 0 .. Len(ss) /\ i # 0
        BY <3>2
      <4> QED
        BY <4>1, <4>2
    <3> QED
      BY <3>1, <3>2
  <2>13. f[0] = <<>>
    OBVIOUS
  <2>10. FlattenSteps(S, ss, f)
    <3> HIDE DEF f
    <3> QED
      BY <2>8, <2>9, <2>13 DEF FlattenSteps
  <2>11. FlattenSeq(ss) = f[Len(ss)]
    BY <2>1, <2>2
  <2> HIDE DEF f
  <2> QED
    BY <2>10, <2>11
<1> QED
  BY <1>1, <1>2

(* Whatever takes these steps ends in FlattenSeq(ss).                       *)
LEMMA FlattenIs ==
  ASSUME NEW S, NEW ss \in Seq(Seq(S)), NEW f, FlattenSteps(S, ss, f)
  PROVE  FlattenSeq(ss) = f[Len(ss)]
<1>1. PICK g : FlattenSteps(S, ss, g) /\ FlattenSeq(ss) = g[Len(ss)]
  BY FlattenTakesSteps
<1> DEFINE T == {n \in 0 .. Len(ss) : f[n] = g[n]}
<1>2. 0 \in T
  BY <1>1 DEF FlattenSteps
<1>3. ASSUME NEW i \in 1 .. Len(ss), i - 1 \in T
      PROVE  i \in T
  <2>1. f[i] = f[i - 1] \o ss[i] /\ g[i] = g[i - 1] \o ss[i]
    BY <1>1 DEF FlattenSteps
  <2>2. f[i - 1] = g[i - 1]
    BY <1>3
  <2>3. f[i] = g[i]
    BY <2>1, <2>2, Zenon
  <2> QED
    BY <2>3
<1>4. \A i \in 0 .. Len(ss) : i \in T
  <2>1. Len(ss) \in Nat
    OBVIOUS
  <2> HIDE DEF T
  <2> QED
    BY <1>2, <1>3, <2>1, StepInduction
<1>5. Len(ss) \in T
  BY <1>4
<1> QED
  BY <1>1, <1>5

(* What FlattenSeq returns is a sequence of the elements.                   *)
LEMMA FlattenType ==
  ASSUME NEW S, NEW ss \in Seq(Seq(S))
  PROVE  FlattenSeq(ss) \in Seq(S)
<1>1. PICK f : FlattenSteps(S, ss, f) /\ FlattenSeq(ss) = f[Len(ss)]
  BY FlattenTakesSteps
<1> QED
  BY <1>1 DEF FlattenSteps

(* Nothing flattened.                                                       *)
LEMMA FlattenEmpty == FlattenSeq(<<>>) = <<>>
  BY DEF FlattenSeq

(* A sequence at the end.                                                   *)
LEMMA FlattenAppend ==
  ASSUME NEW S, NEW ss \in Seq(Seq(S)), NEW s \in Seq(S)
  PROVE  FlattenSeq(Append(ss, s)) = FlattenSeq(ss) \o s
<1>1. PICK f : FlattenSteps(S, ss, f) /\ FlattenSeq(ss) = f[Len(ss)]
  BY FlattenTakesSteps
<1> DEFINE g == [i \in 0 .. Len(ss) + 1 |-> IF i <= Len(ss) THEN f[i] ELSE f[Len(ss)] \o s]
           tt == Append(ss, s)
<1>2. tt \in Seq(Seq(S)) /\ Len(tt) = Len(ss) + 1 /\ Len(ss) \in Nat
  OBVIOUS
<1>3. g \in [0 .. Len(tt) -> Seq(S)] /\ g[0] = <<>>
  BY <1>1, <1>2 DEF FlattenSteps
<1>4. ASSUME NEW i \in 1 .. Len(tt)
      PROVE  g[i] = g[i - 1] \o tt[i]
  <2>1. CASE i = Len(ss) + 1
    <3>1. tt[i] = s /\ i - 1 = Len(ss)
      BY <1>2, <2>1
    <3>2. g[Len(ss)] = f[Len(ss)] /\ g[i] = f[Len(ss)] \o s
      BY <1>2, <2>1
    <3> QED
      BY <3>1, <3>2
  <2>2. CASE i # Len(ss) + 1
    <3>1. i \in 1 .. Len(ss) /\ tt[i] = ss[i] /\ i - 1 \in 0 .. Len(ss)
      BY <1>2, <2>2
    <3>2. f[i] = f[i - 1] \o ss[i]
      BY <3>1, <1>1 DEF FlattenSteps
    <3>3. g[i] = f[i] /\ g[i - 1] = f[i - 1]
      BY <3>1, <1>2
    <3> QED
      BY <3>1, <3>2, <3>3
  <2> QED
    BY <2>1, <2>2
<1>5. FlattenSteps(S, tt, g)
  BY <1>3, <1>4 DEF FlattenSteps
<1>6. FlattenSeq(tt) = g[Len(tt)]
  <2> HIDE DEF g, tt
  <2> QED
    BY <1>2, <1>5, FlattenIs
<1> QED
  BY <1>1, <1>2, <1>6

(* A sequence at the head.                                                  *)
LEMMA FlattenHead ==
  ASSUME NEW S, NEW ss \in Seq(Seq(S)), ss # <<>>
  PROVE  FlattenSeq(ss) = Head(ss) \o FlattenSeq(Tail(ss))
<1> DEFINE tt == Tail(ss)
<1>1. /\ tt \in Seq(Seq(S)) /\ Len(ss) \in Nat \ {0} /\ Len(tt) = Len(ss) - 1
      /\ Head(ss) = ss[1] /\ Head(ss) \in Seq(S)
      /\ \A i \in 1 .. Len(tt) : tt[i] = ss[i + 1] /\ tt[i] \in Seq(S)
  OBVIOUS
<1>2. PICK f : FlattenSteps(S, tt, f) /\ FlattenSeq(tt) = f[Len(tt)]
  BY <1>1, FlattenTakesSteps
<1> DEFINE g == [i \in 0 .. Len(ss) |-> IF i = 0 THEN <<>> ELSE Head(ss) \o f[i - 1]]
<1> HIDE DEF tt
<1>3. f \in [0 .. Len(tt) -> Seq(S)] /\ f[0] = <<>>
  BY <1>2 DEF FlattenSteps
<1>4. g \in [0 .. Len(ss) -> Seq(S)] /\ g[0] = <<>>
  <2>1. \A i \in 0 .. Len(ss) : i # 0 => f[i - 1] \in Seq(S)
    <3>1. \A i \in 0 .. Len(ss) : i # 0 => i - 1 \in 0 .. Len(tt)
      BY <1>1
    <3> QED
      BY <3>1, <1>3
  <2> QED
    BY <2>1, <1>1
<1>5. ASSUME NEW i \in 1 .. Len(ss)
      PROVE  g[i] = g[i - 1] \o ss[i]
  <2>1. CASE i = 1
    <3>0. 1 \in 0 .. Len(ss) /\ 0 \in 0 .. Len(ss) /\ 1 - 1 = 0
      BY <1>1
    <3>3. g[0] = <<>>
      BY <3>0
    <3>4. g[1] = IF 1 = 0 THEN <<>> ELSE Head(ss) \o f[1 - 1]
      BY <3>0, Zenon
    <3>5. 1 # 0
      OBVIOUS
    <3>1. g[1] = Head(ss) \o <<>>
      <4> HIDE DEF g
      <4> QED
        BY <3>0, <3>4, <3>5, <1>3, Zenon
    <3>2. Head(ss) \o <<>> = Head(ss) /\ <<>> \o ss[1] = ss[1]
      BY <1>1
    <3> QED
      BY <2>1, <3>0, <3>1, <3>2, <3>3, <1>1
  <2>2. CASE i # 1
    <3>1. i - 1 \in 1 .. Len(tt) /\ i - 2 \in 0 .. Len(tt) /\ ss[i] = tt[i - 1] /\ i - 1 - 1 = i - 2
      BY <1>1, <2>2
    <3>4. f[i - 1] = f[i - 1 - 1] \o tt[i - 1]
      BY <3>1, <1>2 DEF FlattenSteps
    <3>2. f[i - 1] = f[i - 2] \o ss[i] /\ f[i - 2] \in Seq(S) /\ ss[i] \in Seq(S)
      BY <3>1, <3>4, <1>1, <1>3
    <3>5. i \in 0 .. Len(ss) /\ i # 0 /\ i - 1 \in 0 .. Len(ss) /\ i - 1 # 0
      BY <2>2, <1>1
    <3>3. g[i] = Head(ss) \o f[i - 1] /\ g[i - 1] = Head(ss) \o f[i - 2]
      BY <3>1, <3>5
    <3>6. Cat(Cat(Head(ss), f[i - 2]), ss[i]) = Cat(Head(ss), Cat(f[i - 2], ss[i]))
      BY <3>2, <1>1, CatAssociates
    <3> HIDE DEF g
    <3> QED
      BY <3>2, <3>3, <3>6, Zenon DEF Cat
  <2> QED
    BY <2>1, <2>2
<1>6. FlattenSteps(S, ss, g)
  BY <1>4, <1>5 DEF FlattenSteps
<1>7. FlattenSeq(ss) = g[Len(ss)]
  <2> HIDE DEF g
  <2> QED
    BY <1>6, FlattenIs
<1>8. Len(ss) \in 0 .. Len(ss) /\ Len(ss) # 0 /\ Len(ss) - 1 = Len(tt)
  BY <1>1
<1>9. g[Len(ss)] = Head(ss) \o f[Len(tt)]
  BY <1>8
<1> QED
  BY <1>2, <1>7, <1>9 DEF tt


(* The whole batches of all, one after the other, are its beginning.        *)
LEMMA BatchesFlatten ==
  ASSUME NEW S, NEW all \in Seq(S), NEW b \in Nat \ {0}, NEW w \in Nat, w * b <= Len(all)
  PROVE  LET batches == [i \in 1 .. w |-> SubSeq(all, (i - 1) * b + 1, i * b)]
         IN  batches \in Seq(Seq(S)) /\ FlattenSeq(batches) = SubSeq(all, 1, w * b)
<1> DEFINE batches == [i \in 1 .. w |-> SubSeq(all, (i - 1) * b + 1, i * b)]
           f == [i \in 0 .. w |-> SubSeq(all, 1, i * b)]
<1>1. ASSUME NEW i \in 0 .. w
      PROVE  i * b \in 0 .. Len(all)
  BY Z3
<1>2. ASSUME NEW i \in 1 .. w
      PROVE  /\ (i - 1) * b \in 0 .. Len(all) /\ i * b \in (i - 1) * b .. Len(all)
             /\ i * b \in 0 .. Len(all)
  <2>1. i - 1 \in 0 .. w /\ i \in 0 .. w
    OBVIOUS
  <2>2. (i - 1) * b + b = i * b
    BY Z3
  <2>3. (i - 1) * b \in 0 .. Len(all) /\ i * b \in 0 .. Len(all)
    BY <1>1, <2>1
  <2> DEFINE x == (i - 1) * b
             y == i * b
  <2> HIDE DEF x, y
  <2> SUFFICES x \in 0 .. Len(all) /\ y \in x .. Len(all) /\ y \in 0 .. Len(all)
    BY DEF x, y
  <2>4. x + b = y /\ x \in 0 .. Len(all) /\ y \in 0 .. Len(all)
    BY <2>2, <2>3 DEF x, y
  <2> QED
    BY <2>4
<1>3. ASSUME NEW m \in 0 .. Len(all), NEW n \in 0 .. Len(all)
      PROVE  SubSeq(all, m + 1, n) \in Seq(S)
  BY SubSeqProperties
<1>4. \A i \in 1 .. w : batches[i] \in Seq(S)
  BY <1>2, <1>3
<1>5. batches \in Seq(Seq(S)) /\ Len(batches) = w
  BY <1>4
<1>6. f \in [0 .. w -> Seq(S)]
  <2>1. ASSUME NEW i \in 0 .. w
        PROVE  SubSeq(all, 1, i * b) \in Seq(S)
    <3>1. SubSeq(all, 0 + 1, i * b) \in Seq(S)
      BY <1>1, <1>3
    <3> QED
      BY <3>1
  <2> QED
    BY <2>1
<1>7. f[0] = <<>>
  BY SubSeqEmpty
<1>8. ASSUME NEW i \in 1 .. w
      PROVE  f[i] = f[i - 1] \o batches[i]
  <2> DEFINE x == (i - 1) * b
             y == i * b
  <2>1. f[i] = SubSeq(all, 1, y) /\ f[i - 1] = SubSeq(all, 1, x)
         /\ batches[i] = SubSeq(all, x + 1, y)
    OBVIOUS
  <2>2. x \in 0 .. Len(all) /\ y \in x .. Len(all)
    BY <1>2
  <2> HIDE DEF x, y, f, batches
  <2>3. SubSeq(all, 1, x) \o SubSeq(all, x + 1, y) = SubSeq(all, 1, y)
    <3>1. 1 \in 1 .. Len(all) + 1 /\ x \in 1 - 1 .. Len(all)
      BY <2>2
    <3> QED
      BY <2>2, <3>1, ConcatAdjacentSubSeq
  <2> QED
    BY <2>1, <2>3, Zenon
<1>9. FlattenSteps(S, batches, f)
  <2> HIDE DEF f, batches
  <2> QED
    BY <1>5, <1>6, <1>7, <1>8 DEF FlattenSteps
<1>10. FlattenSeq(batches) = f[w]
  <2> HIDE DEF f, batches
  <2> QED
    BY <1>5, <1>9, FlattenIs
<1>11. f[w] = SubSeq(all, 1, w * b)
  OBVIOUS
<1> HIDE DEF f
<1> QED
  BY <1>5, <1>10, <1>11

-----------------------------------------------------------------------------
(* How often an event is in a sequence.                                     *)

(* Nothing is in the empty sequence.                                        *)
LEMMA KeepsEmpty ==
  ASSUME NEW id
  PROVE  Keeps(<<>>, id) = 0
<1>1. {i \in DOMAIN <<>> : <<>>[i].id = id} = {}
  OBVIOUS
<1> QED
  BY <1>1, FS_EmptySet DEF Keeps

(* The places of an event are finitely many.                                *)
LEMMA KeepsType ==
  ASSUME NEW S, NEW s \in Seq(S), NEW id
  PROVE  IsFiniteSet({i \in DOMAIN s : s[i].id = id}) /\ Keeps(s, id) \in Nat
<1>1. DOMAIN s = 1 .. Len(s) /\ Len(s) \in Nat
  OBVIOUS
<1>2. IsFiniteSet(1 .. Len(s))
  BY <1>1, FS_Interval
<1>3. IsFiniteSet({i \in DOMAIN s : s[i].id = id})
  BY <1>1, <1>2, FS_Subset
<1> QED
  BY <1>3, FS_CardinalityType DEF Keeps

(* One event more.                                                          *)
LEMMA KeepsOneMore ==
  ASSUME NEW S, NEW s \in Seq(S), NEW e \in S, NEW id
  PROVE  Keeps(s \o <<e>>, id) = Keeps(s, id) + IF e.id = id THEN 1 ELSE 0
<1> DEFINE places(q) == {i \in DOMAIN q : q[i].id = id}
           t == s \o <<e>>
           n == Len(s) + 1
<1>1. /\ DOMAIN s = 1 .. Len(s) /\ Len(s) \in Nat /\ DOMAIN t = 1 .. n
      /\ \A i \in 1 .. Len(s) : t[i] = s[i]
      /\ t[n] = e
  OBVIOUS
<1>2. IsFiniteSet(places(s)) /\ n \notin places(s)
  <2>1. IsFiniteSet(places(s))
    BY KeepsType, Zenon
  <2> QED
    BY <1>1, <2>1
<1>3. CASE e.id = id
  <2>1. places(t) = places(s) \cup {n}
    <3> HIDE DEF t
    <3> QED
      BY <1>1, <1>3
  <2>2. Cardinality(places(s) \cup {n}) = Cardinality(places(s)) + 1
    <3> HIDE DEF places, n
    <3> QED
      BY <1>2, FS_AddElement
  <2> QED
    BY <1>3, <2>1, <2>2 DEF Keeps
<1>4. CASE e.id # id
  <2>1. places(t) = places(s)
    <3> HIDE DEF t
    <3> QED
      BY <1>1, <1>4
  <2>2. Keeps(s, id) \in Nat
    BY KeepsType, Zenon
  <2>3. Keeps(t, id) = Keeps(s, id)
    BY <2>1 DEF Keeps
  <2> HIDE DEF t
  <2>4. Keeps(s, id) + 0 = Keeps(s, id)
    BY <2>2
  <2> QED
    BY <1>4, <2>3, <2>4, Zenon DEF t
<1> QED
  BY <1>3, <1>4

(* A sequence up to a place is the one before it and what is there.         *)
LEMMA PrefixGrows ==
  ASSUME NEW S, NEW s \in Seq(S), NEW i \in 1 .. Len(s)
  PROVE  /\ SubSeq(s, 1, i) = SubSeq(s, 1, i - 1) \o <<s[i]>>
         /\ SubSeq(s, 1, i - 1) \in Seq(S) /\ s[i] \in S
<1>1. 1 \in 1 .. Len(s) /\ i \in 1 .. Len(s) /\ Len(s) \in Nat
  OBVIOUS
<1>2. SubSeq(s, 1, i) = SubSeq(s, 1, i - 1) \o <<s[i]>>
  BY <1>1, SubSeqRecursiveSecond
<1>3. \A j \in 1 .. i - 1 : s[j] \in S
  BY <1>1
<1>4. 1 \in Int /\ i - 1 \in Int
  OBVIOUS
<1>5. SubSeq(s, 1, i - 1) \in Seq(S)
  BY <1>3, <1>4, SubSeqProperties
<1> QED
  BY <1>1, <1>2, <1>5

(* What two sequences hold together.                                        *)
LEMMA KeepsConcat ==
  ASSUME NEW S, NEW s \in Seq(S), NEW t \in Seq(S), NEW id
  PROVE  Keeps(s \o t, id) = Keeps(s, id) + Keeps(t, id)
<1> DEFINE pre(n) == SubSeq(t, 1, n)
           T == {n \in 0 .. Len(t) : Keeps(s \o pre(n), id) = Keeps(s, id) + Keeps(pre(n), id)}
<1>1. 0 \in T
  <2>1. pre(0) = <<>> /\ s \o <<>> = s
    BY SubSeqEmpty
  <2>2. Keeps(s, id) \in Nat
    BY KeepsType, Zenon
  <2>3. Keeps(<<>>, id) = 0
    BY KeepsEmpty, Zenon
  <2>4. 0 \in 0 .. Len(t)
    OBVIOUS
  <2>5. Keeps(s \o pre(0), id) = Keeps(s, id) + Keeps(pre(0), id)
    <3>1. Keeps(s, id) + 0 = Keeps(s, id)
      BY <2>2
    <3> HIDE DEF pre
    <3> QED
      BY <2>1, <2>3, <3>1, Zenon
  <2> QED
    BY <2>4, <2>5
<1>2. ASSUME NEW i \in 1 .. Len(t), i - 1 \in T
      PROVE  i \in T
  <2> DEFINE p == pre(i - 1)
  <2>1. pre(i) = p \o <<t[i]>> /\ p \in Seq(S) /\ t[i] \in S
    BY PrefixGrows
  <2>2. Keeps(s \o p, id) = Keeps(s, id) + Keeps(p, id)
    BY <1>2
  <2> HIDE DEF p
  <2>3. s \o pre(i) = (s \o p) \o <<t[i]>>
    <3> DEFINE u == <<t[i]>>
    <3>1. u \in Seq(S)
      BY <2>1
    <3>2. pre(i) = p \o u
      BY <2>1
    <3> HIDE DEF u
    <3>3. Cat(Cat(s, p), u) = Cat(s, Cat(p, u))
      BY <2>1, <3>1, CatAssociates
    <3> QED
      BY <3>2, <3>3, Zenon DEF u, Cat
  <2>4. s \o p \in Seq(S)
    BY <2>1, ConcatProperties
  <2>5. Keeps(s \o pre(i), id) = Keeps(s \o p, id) + IF t[i].id = id THEN 1 ELSE 0
    <3> DEFINE q == s \o p
               e == t[i]
    <3>1. q \in Seq(S) /\ e \in S
      BY <2>1, <2>4
    <3> HIDE DEF q, e
    <3>2. Keeps(q \o <<e>>, id) = Keeps(q, id) + IF e.id = id THEN 1 ELSE 0
      BY <3>1, KeepsOneMore
    <3> QED
      BY <2>3, <3>2, Zenon DEF q, e
  <2>6. Keeps(pre(i), id) = Keeps(p, id) + IF t[i].id = id THEN 1 ELSE 0
    <3> DEFINE e == t[i]
    <3>1. e \in S /\ p \in Seq(S)
      BY <2>1
    <3> HIDE DEF e
    <3>2. Keeps(p \o <<e>>, id) = Keeps(p, id) + IF e.id = id THEN 1 ELSE 0
      BY <3>1, KeepsOneMore
    <3> QED
      BY <2>1, <3>2, Zenon DEF e
  <2>7. Keeps(s, id) \in Nat /\ Keeps(p, id) \in Nat
    BY <2>1, KeepsType
  <2>8. Keeps(s \o pre(i), id) = Keeps(s, id) + Keeps(pre(i), id)
    <3> HIDE DEF pre
    <3> QED
      BY <2>2, <2>5, <2>6, <2>7
  <2> QED
    BY <2>8
<1>3. Len(t) \in T
  <2>1. Len(t) \in Nat
    OBVIOUS
  <2> HIDE DEF T
  <2>2. \A i \in 0 .. Len(t) : i \in T
    BY <1>1, <1>2, <2>1, StepInduction
  <2> QED
    BY <2>1, <2>2
<1>4. pre(Len(t)) = t
  BY SubSeqFull
<1> QED
  BY <1>3, <1>4


(* The pieces of which Only keeps those of the kinds.                       *)
Pieces(kinds, seq) ==
  [i \in DOMAIN seq |-> IF seq[i].kind \in kinds THEN <<seq[i]>> ELSE <<>>]

(* They are sequences of events.                                            *)
LEMMA PiecesType ==
  ASSUME NEW kinds, NEW seq \in Seq(Event)
  PROVE  Pieces(kinds, seq) \in Seq(Seq(Event)) /\ Len(Pieces(kinds, seq)) = Len(seq)
<1>1. DOMAIN seq = 1 .. Len(seq) /\ Len(seq) \in Nat /\ \A i \in 1 .. Len(seq) : seq[i] \in Event
  OBVIOUS
<1>2. ASSUME NEW i \in 1 .. Len(seq)
      PROVE  (IF seq[i].kind \in kinds THEN <<seq[i]>> ELSE <<>>) \in Seq(Event)
  <2>1. seq[i] \in Event
    BY <1>1
  <2>2. <<seq[i]>> \in Seq(Event) /\ <<>> \in Seq(Event)
    BY <2>1
  <2> QED
    BY <2>2
<1> QED
  BY <1>1, <1>2 DEF Pieces

(* So is what Only keeps.                                                   *)
LEMMA OnlyType ==
  ASSUME NEW kinds, NEW seq \in Seq(Event)
  PROVE  Only(kinds, seq) \in Seq(Event)
<1>1. Only(kinds, seq) = FlattenSeq(Pieces(kinds, seq))
  BY DEF Only, Pieces
<1> QED
  BY <1>1, PiecesType, FlattenType

(* The steps by which Only gathers them.                                    *)
LEMMA OnlyTakesSteps ==
  ASSUME NEW kinds, NEW seq \in Seq(Event)
  PROVE  \E f : /\ f \in [0 .. Len(seq) -> Seq(Event)]
                /\ f[0] = <<>>
                /\ \A i \in 1 .. Len(seq) :
                     f[i] = f[i - 1] \o (IF seq[i].kind \in kinds THEN <<seq[i]>> ELSE <<>>)
                /\ Only(kinds, seq) = f[Len(seq)]
<1>1. Only(kinds, seq) = FlattenSeq(Pieces(kinds, seq))
  BY DEF Only, Pieces
<1>2. PICK f : /\ FlattenSteps(Event, Pieces(kinds, seq), f)
               /\ FlattenSeq(Pieces(kinds, seq)) = f[Len(Pieces(kinds, seq))]
  BY PiecesType, FlattenTakesSteps
<1>3. Len(Pieces(kinds, seq)) = Len(seq)
  BY PiecesType
<1>4. \A i \in 1 .. Len(seq) :
        Pieces(kinds, seq)[i] = IF seq[i].kind \in kinds THEN <<seq[i]>> ELSE <<>>
  BY DEF Pieces
<1>5. /\ f \in [0 .. Len(seq) -> Seq(Event)]
      /\ f[0] = <<>>
      /\ \A i \in 1 .. Len(seq) : f[i] = f[i - 1] \o Pieces(kinds, seq)[i]
  BY <1>2, <1>3 DEF FlattenSteps
<1>6. \A i \in 1 .. Len(seq) :
        f[i] = f[i - 1] \o (IF seq[i].kind \in kinds THEN <<seq[i]>> ELSE <<>>)
  BY <1>4, <1>5, Zenon
<1> QED
  BY <1>1, <1>2, <1>3, <1>5, <1>6, Zenon

(* Two sets of kinds that share nothing and cover all keep every event once.*)
LEMMA OnlyKeeps ==
  ASSUME NEW some, NEW others, NEW seq \in Seq(Event), NEW id,
         \A e \in Event : e.kind \in some <=> e.kind \notin others
  PROVE  Keeps(Only(some, seq), id) + Keeps(Only(others, seq), id) = Keeps(seq, id)
<1>1. PICK f : /\ f \in [0 .. Len(seq) -> Seq(Event)]
               /\ f[0] = <<>>
               /\ \A i \in 1 .. Len(seq) :
                    f[i] = f[i - 1] \o (IF seq[i].kind \in some THEN <<seq[i]>> ELSE <<>>)
               /\ Only(some, seq) = f[Len(seq)]
  BY OnlyTakesSteps
<1>2. PICK g : /\ g \in [0 .. Len(seq) -> Seq(Event)]
               /\ g[0] = <<>>
               /\ \A i \in 1 .. Len(seq) :
                    g[i] = g[i - 1] \o (IF seq[i].kind \in others THEN <<seq[i]>> ELSE <<>>)
               /\ Only(others, seq) = g[Len(seq)]
  BY OnlyTakesSteps
<1> DEFINE pre(n) == SubSeq(seq, 1, n)
           T == {n \in 0 .. Len(seq) : Keeps(f[n], id) + Keeps(g[n], id) = Keeps(pre(n), id)}
<1>3. Len(seq) \in Nat /\ DOMAIN seq = 1 .. Len(seq)
  OBVIOUS
<1>5. 0 \in T
  <2>1. f[0] = <<>> /\ g[0] = <<>>
    BY <1>1, <1>2
  <2>2. pre(0) = <<>>
    BY SubSeqEmpty
  <2>3. Keeps(<<>>, id) = 0
    BY KeepsEmpty
  <2>4. 0 \in 0 .. Len(seq)
    BY <1>3
  <2>5. Keeps(f[0], id) = 0 /\ Keeps(g[0], id) = 0 /\ Keeps(pre(0), id) = 0
    BY <2>1, <2>2, <2>3, Zenon
  <2> QED
    BY <2>4, <2>5
<1>6. ASSUME NEW i \in 1 .. Len(seq), i - 1 \in T
      PROVE  i \in T
  <2> DEFINE e == seq[i]
             x == f[i - 1]
             y == g[i - 1]
             p == pre(i - 1)
  <2>1. e \in Event /\ x \in Seq(Event) /\ y \in Seq(Event)
    <3>1. i \in 0 .. Len(seq) /\ i - 1 \in 0 .. Len(seq)
      BY <1>3
    <3>2. f \in [0 .. Len(seq) -> Seq(Event)] /\ g \in [0 .. Len(seq) -> Seq(Event)]
      BY <1>1, <1>2
    <3>3. seq[i] \in Event
      OBVIOUS
    <3> QED
      BY <3>1, <3>2, <3>3
  <2>2. pre(i) = p \o <<e>> /\ p \in Seq(Event)
    BY PrefixGrows
  <2>3. /\ f[i] = x \o (IF e.kind \in some THEN <<e>> ELSE <<>>)
        /\ g[i] = y \o (IF e.kind \in others THEN <<e>> ELSE <<>>)
    BY <1>1, <1>2, Zenon
  <2>4. Keeps(x, id) + Keeps(y, id) = Keeps(p, id)
    BY <1>6
  <2>5. i \in 0 .. Len(seq)
    BY <1>3
  <2> HIDE DEF e, x, y, p, pre
  <2>6. Keeps(x, id) \in Nat /\ Keeps(y, id) \in Nat /\ Keeps(p, id) \in Nat
    BY <2>1, <2>2, KeepsType
  <2>7. /\ Keeps(x \o <<e>>, id) = Keeps(x, id) + IF e.id = id THEN 1 ELSE 0
        /\ Keeps(y \o <<e>>, id) = Keeps(y, id) + IF e.id = id THEN 1 ELSE 0
        /\ Keeps(p \o <<e>>, id) = Keeps(p, id) + IF e.id = id THEN 1 ELSE 0
    BY <2>1, <2>2, KeepsOneMore
  <2>8. x \o <<>> = x /\ y \o <<>> = y
    BY <2>1, CatEmpty DEF Cat
  <2>9. CASE e.kind \in some
    <3>1. f[i] = x \o <<e>> /\ g[i] = y
      BY <2>1, <2>3, <2>8, <2>9
    <3>2. Keeps(f[i], id) = Keeps(x \o <<e>>, id) /\ Keeps(g[i], id) = Keeps(y, id)
          /\ Keeps(pre(i), id) = Keeps(p \o <<e>>, id)
      BY <2>2, <3>1, Zenon
    <3>3. Keeps(f[i], id) + Keeps(g[i], id) = Keeps(pre(i), id)
      BY <2>4, <2>6, <2>7, <3>2
    <3> QED
      BY <2>5, <3>3
  <2>10. CASE e.kind \notin some
    <3>1. f[i] = x /\ g[i] = y \o <<e>>
      BY <2>1, <2>3, <2>8, <2>10
    <3>2. Keeps(f[i], id) = Keeps(x, id) /\ Keeps(g[i], id) = Keeps(y \o <<e>>, id)
          /\ Keeps(pre(i), id) = Keeps(p \o <<e>>, id)
      BY <2>2, <3>1, Zenon
    <3>3. Keeps(f[i], id) + Keeps(g[i], id) = Keeps(pre(i), id)
      BY <2>4, <2>6, <2>7, <3>2
    <3> QED
      BY <2>5, <3>3
  <2> QED
    BY <2>9, <2>10
<1>7. Len(seq) \in T
  <2> HIDE DEF T
  <2>1. \A i \in 0 .. Len(seq) : i \in T
    BY <1>3, <1>5, <1>6, StepInduction
  <2> QED
    BY <1>3, <2>1
<1>8. pre(Len(seq)) = seq
  BY SubSeqFull
<1>9. Keeps(f[Len(seq)], id) + Keeps(g[Len(seq)], id) = Keeps(pre(Len(seq)), id)
  BY <1>7
<1> HIDE DEF pre
<1> QED
  BY <1>1, <1>2, <1>8, <1>9, Zenon


-----------------------------------------------------------------------------
(* Where the two threads can be at the same time: what a delivery holds at  *)
(* each of its stages, what the gate still holds, and that a chunk in front *)
(* of it waits for no delivery once nothing is replayed.                    *)
StagesFit ==
  /\ delivery.pc = "rest" => delivery = Rest
  /\ delivery.pc = "record" => delivery.batches = <<>>
  /\ delivery.pc = "send" => delivery.batches # <<>>
  /\ delivery.pc # "append" => delivery.polled = <<>>
  /\ runtime # "merging" => polled = <<>>
  /\ armed <=> runtime # "starting"
  /\ runtime \notin {"starting", "replaying"} => buffered = <<>>
  /\ runtime # "replaying" /\ arriving # <<>> => delivery = Rest
  /\ runtime = "starting" => delivery = Rest
  /\ ~Capturing => arriving = <<>> /\ delivery = Rest
  /\ runtime \in {"finishing", "finished"} => pending = <<>> /\ ~failed

(* An event that was given away is held once, and no other is held.         *)
EventsAreAccounted ==
  runtime \notin {"failing", "cancelled"} =>
    \A id \in Nat \ {0} : Holders(id) = IF id <= produced THEN 1 ELSE 0

(* The inductive invariant.                                                 *)
StreamInv == StreamTypeOK /\ StagesFit /\ AudioStaysInOrder /\ EventsAreAccounted

(* The session gives away the next event, or nothing.                       *)
LEMMA FoundIsNext ==
  ASSUME StreamTypeOK, NEW found \in NewEvents
  PROVE  /\ found \in Seq(Event)
         /\ produced + Len(found) \in 0 .. MaxEvents
         /\ \A id \in Nat \ {0} :
              Keeps(found, id) = IF produced < id /\ id <= produced + Len(found) THEN 1 ELSE 0
<1>1. produced \in Nat /\ produced <= MaxEvents /\ MaxEvents \in Nat
  BY StreamConstants DEF StreamTypeOK
<1>2. CASE found = <<>>
  <2>1. Len(found) = 0 /\ found \in Seq(Event)
    BY <1>2
  <2>2. \A id : Keeps(found, id) = 0
    BY <1>2, KeepsEmpty, Zenon
  <2> QED
    BY <1>1, <2>1, <2>2
<1>3. ASSUME NEW kind \in {k \in Kinds : produced < MaxEvents},
             found = <<[id |-> produced + 1, kind |-> kind]>>
      PROVE  /\ found \in Seq(Event)
             /\ produced + Len(found) \in 0 .. MaxEvents
             /\ \A id \in Nat \ {0} :
                  Keeps(found, id) = IF produced < id /\ id <= produced + Len(found) THEN 1 ELSE 0
  <2> DEFINE e == [id |-> produced + 1, kind |-> kind]
  <2>1. e \in Event /\ e.id = produced + 1 /\ produced < MaxEvents
    BY <1>1, <1>3 DEF Event
  <2>2. found = <<e>>
    BY <1>3
  <2> HIDE DEF e
  <2>3. Len(found) = 1 /\ found \in Seq(Event) /\ <<>> \in Seq(Event)
    BY <2>1, <2>2
  <2>4. Cat(<<>>, found) = found
    BY <2>3, CatEmpty
  <2>5. ASSUME NEW id \in Nat \ {0}
        PROVE  Keeps(found, id) = IF produced < id /\ id <= produced + Len(found) THEN 1 ELSE 0
    <3>1. Keeps(<<>> \o <<e>>, id) = Keeps(<<>>, id) + IF e.id = id THEN 1 ELSE 0
      BY <2>1, <2>3, KeepsOneMore
    <3>2. Keeps(<<>>, id) = 0
      BY KeepsEmpty
    <3>3. Keeps(found, id) = Keeps(<<>>, id) + IF e.id = id THEN 1 ELSE 0
      BY <2>2, <2>4, <3>1, Zenon DEF Cat
    <3> QED
      BY <1>1, <2>1, <2>3, <3>2, <3>3
  <2> QED
    BY <1>1, <2>1, <2>3, <2>5
<1> QED
  BY <1>2, <1>3 DEF NewEvents

(* push_chunk keeps what it was given: whole batches to send, and less than *)
(* a batch that waits.                                                      *)
LEMMA PushKeepsChunk ==
  ASSUME StreamTypeOK, NEW chunk \in Seq(Samples), PushChunk(chunk)
  PROVE  /\ pending' \in Seq(Samples) /\ Len(pending') < BatchSize
         /\ delivery' \in [pc : {"rest", "send"}, batches : Seq(Seq(Samples)), polled : {<<>>}]
         /\ delivery'.pc = "rest" => delivery' = Rest
         /\ delivery'.pc = "send" => delivery'.batches # <<>>
         /\ ~failed => Cat(FlattenSeq(delivery'.batches), pending') = Cat(pending, chunk)
<1> DEFINE all == pending \o chunk
           whole == Len(all) \div BatchSize
           batches == [i \in 1 .. whole |-> SubSeq(all, (i - 1) * BatchSize + 1, i * BatchSize)]
           left == SubSeq(all, whole * BatchSize + 1, Len(all))
<1>1. pending \in Seq(Samples) /\ Len(pending) < BatchSize /\ BatchSize \in Nat \ {0}
  BY StreamConstants DEF StreamTypeOK
<1>2. all \in Seq(Samples) /\ Len(all) \in Nat
  BY <1>1
<1> HIDE DEF all
<1>3. /\ whole \in Nat
      /\ whole * BatchSize <= Len(all) /\ Len(all) < whole * BatchSize + BatchSize
  BY <1>1, <1>2, Div
<1>4. whole * BatchSize \in 0 .. Len(all)
  BY <1>1, <1>2, <1>3, Z3
<1> HIDE DEF whole
<1>5. batches \in Seq(Seq(Samples)) /\ FlattenSeq(batches) = SubSeq(all, 1, whole * BatchSize)
  BY <1>1, <1>2, <1>3, BatchesFlatten
<1> DEFINE x == whole * BatchSize
<1> HIDE DEF batches
<1>6. /\ left \in Seq(Samples) /\ Len(left) < BatchSize
      /\ SubSeq(all, 1, x) \o left = all
  <2> DEFINE lft == SubSeq(all, x + 1, Len(all))
  <2>1. x \in 0 .. Len(all) /\ Len(all) < x + BatchSize
    BY <1>3, <1>4
  <2>2. left = lft
    OBVIOUS
  <2> HIDE DEF x, left
  <2>3. \A i \in x + 1 .. Len(all) : all[i] \in Samples
    BY <1>2, <2>1
  <2>4. x + 1 \in Int /\ Len(all) \in Int
    BY <1>2, <2>1
  <2>5. lft \in Seq(Samples) /\ Len(lft) = IF x + 1 <= Len(all) THEN Len(all) - (x + 1) + 1 ELSE 0
    BY <2>3, <2>4, SubSeqProperties
  <2>6. Len(lft) < BatchSize
    BY <1>1, <1>2, <2>1, <2>5
  <2>7. SubSeq(all, 1, x) \o lft = SubSeq(all, 1, Len(all))
    <3>1. 1 \in 1 .. Len(all) + 1 /\ x \in 1 - 1 .. Len(all) /\ Len(all) \in x .. Len(all)
      BY <1>2, <2>1
    <3> QED
      BY <1>2, <3>1, ConcatAdjacentSubSeq
  <2>8. SubSeq(all, 1, Len(all)) = all
    BY <1>2, SubSeqFull
  <2> QED
    BY <2>2, <2>5, <2>6, <2>7, <2>8, Zenon
<1>7. Pushed(chunk) = IF failed THEN [pending |-> pending, batches |-> <<>>]
                      ELSE [pending |-> left, batches |-> batches]
  BY DEF Pushed, all, whole, batches
<1> HIDE DEF left, x
<1>8. /\ Pushed(chunk).batches \in Seq(Seq(Samples))
      /\ Pushed(chunk).pending \in Seq(Samples) /\ Len(Pushed(chunk).pending) < BatchSize
  <2>1. CASE failed
    BY <1>1, <1>7, <2>1
  <2>2. CASE ~failed
    BY <1>5, <1>6, <1>7, <2>2
  <2> QED
    BY <2>1, <2>2
<1>9. pending' = Pushed(chunk).pending
  BY DEF PushChunk
<1>10. delivery' = IF Pushed(chunk).batches = <<>> THEN Rest
                   ELSE [Rest EXCEPT !.pc = "send", !.batches = Pushed(chunk).batches]
  BY DEF PushChunk
<1>11. /\ delivery' \in [pc : {"rest", "send"}, batches : Seq(Seq(Samples)), polled : {<<>>}]
       /\ delivery'.pc = "rest" => delivery' = Rest
       /\ delivery'.pc = "send" => delivery'.batches # <<>>
       /\ delivery'.batches = Pushed(chunk).batches
  <2>1. CASE Pushed(chunk).batches = <<>>
    BY <1>10, <2>1 DEF Rest
  <2>2. CASE Pushed(chunk).batches # <<>>
    BY <1>8, <1>10, <2>2 DEF Rest
  <2> QED
    BY <2>1, <2>2
<1>12. ASSUME ~failed
       PROVE  Cat(FlattenSeq(delivery'.batches), pending') = Cat(pending, chunk)
  <2>1. delivery'.batches = batches /\ pending' = left
    BY <1>7, <1>9, <1>11, <1>12
  <2> QED
    BY <1>5, <1>6, <2>1, Zenon DEF Cat, all, x
<1> QED
  BY <1>8, <1>9, <1>11, <1>12


(* Every step keeps the types.                                              *)
LEMMA TypesStay ==
  ASSUME StreamTypeOK, StagesFit, [Next]_vars
  PROVE  StreamTypeOK'
<1> USE StreamConstants
<1> USE DEF Outcomes
<1>1. /\ captured \in 0 .. MaxSamples
      /\ arriving \in Seq(Samples) /\ pending \in Seq(Samples) /\ delivered \in Seq(Samples)
      /\ buffered \in Seq(Seq(Samples))
      /\ events \in Seq(Event) /\ polled \in Seq(Event) /\ shown \in Seq(Event)
      /\ delivery \in [pc : {"rest", "send", "append", "record"}, batches : Seq(Seq(Samples)),
                       polled : Seq(Event)]
      /\ produced \in 0 .. MaxEvents /\ partialText \in 0 .. MaxEvents
      /\ Len(pending) < BatchSize
  BY DEF StreamTypeOK
<1>2. Rest \in [pc : {"rest", "send", "append", "record"}, batches : Seq(Seq(Samples)),
                polled : Seq(Event)]
  BY DEF Rest
<1>3. ASSUME NEW n \in ChunkSizes, Capture(n)
      PROVE  StreamTypeOK'
  <2>1. n \in Nat \ {0} /\ captured + n <= MaxSamples /\ MaxSamples \in Nat
    BY <1>3 DEF Capture
  <2>2. captured' \in 0 .. MaxSamples
    BY <1>1, <1>3, <2>1 DEF Capture
  <2>3. \A i \in 1 .. n : captured + i \in Samples
    BY <1>1, <2>1 DEF Samples
  <2>4. arriving' \in Seq(Samples)
    BY <1>3, <2>1, <2>3 DEF Capture
  <2> QED
    BY <1>3, <2>2, <2>4 DEF StreamTypeOK, Capture, stateVars, sessionVars, liveVars
<1>4. ASSUME NEW chunk \in Seq(Samples), PushChunk(chunk)
      PROVE  /\ pending' \in Seq(Samples) /\ Len(pending') < BatchSize
             /\ delivery' \in [pc : {"rest", "send", "append", "record"},
                               batches : Seq(Seq(Samples)), polled : Seq(Event)]
             /\ events' = events /\ failed' = failed
  <2>1. /\ pending' \in Seq(Samples) /\ Len(pending') < BatchSize
        /\ delivery' \in [pc : {"rest", "send"}, batches : Seq(Seq(Samples)), polled : {<<>>}]
    BY <1>4, PushKeepsChunk
  <2>2. <<>> \in Seq(Event)
    OBVIOUS
  <2> QED
    BY <1>4, <2>1, <2>2 DEF PushChunk
<1>5. CASE EnterGate
  <2>1. CASE armed
    <3>1. PushChunk(arriving) /\ buffered' = buffered
      BY <1>5, <2>1 DEF EnterGate
    <3> QED
      BY <1>1, <1>4, <1>5, <3>1 DEF StreamTypeOK, EnterGate, sessionVars, liveVars
  <2>2. CASE ~armed
    <3>1. buffered' = Append(buffered, arriving)
      BY <1>5, <2>2 DEF EnterGate
    <3>2. Append(buffered, arriving) \in Seq(Seq(Samples))
      BY <1>1, AppendProperties
    <3>3. buffered' \in Seq(Seq(Samples))
      BY <3>1, <3>2, Zenon
    <3> QED
      BY <1>5, <2>2, <3>3 DEF StreamTypeOK, EnterGate, stateVars, sessionVars, liveVars
  <2> QED
    BY <2>1, <2>2
<1>6. CASE Arm
  BY <1>6 DEF StreamTypeOK, Arm, stateVars, sessionVars, liveVars
<1>7. CASE Replay
  <2>1. CASE buffered = <<>>
    BY <1>7, <2>1 DEF StreamTypeOK, Replay, stateVars, sessionVars, liveVars
  <2>2. CASE buffered # <<>>
    <3>1. PushChunk(Head(buffered)) /\ buffered' = Tail(buffered) /\ runtime' = runtime
      BY <1>7, <2>2 DEF Replay
    <3>2. Head(buffered) \in Seq(Samples) /\ Tail(buffered) \in Seq(Seq(Samples))
      BY <1>1, <2>2
    <3> QED
      BY <1>1, <1>4, <1>7, <3>1, <3>2 DEF StreamTypeOK, Replay, sessionVars, liveVars
  <2> QED
    BY <2>1, <2>2
<1>8. CASE SendBatch
  <2>1. PICK found \in NewEvents :
          /\ Polls(found)
          /\ delivery' = [pc |-> "append", batches |-> Tail(delivery.batches), polled |-> found]
    BY <1>8 DEF SendBatch
  <2>2. found \in Seq(Event) /\ produced' \in 0 .. MaxEvents
    BY <2>1, FoundIsNext DEF Polls
  <2>3. delivery.batches # <<>> /\ delivery.batches \in Seq(Seq(Samples))
    BY <1>1, <1>8 DEF SendBatch, StagesFit
  <2>4. Head(delivery.batches) \in Seq(Samples) /\ Tail(delivery.batches) \in Seq(Seq(Samples))
    BY <2>3
  <2>5. delivered' \in Seq(Samples)
    BY <1>1, <1>8, <2>4 DEF SendBatch
  <2>6. delivery' \in [pc : {"rest", "send", "append", "record"}, batches : Seq(Seq(Samples)),
                       polled : Seq(Event)]
    BY <2>1, <2>2, <2>4
  <2> QED
    BY <1>8, <2>2, <2>5, <2>6 DEF StreamTypeOK, SendBatch, gateVars, stateVars, liveVars
<1>9. CASE SendFails
  <2>1. delivery' \in [pc : {"rest", "send", "append", "record"}, batches : Seq(Seq(Samples)),
                       polled : Seq(Event)]
    <3>1. delivery' = [pc |-> "record", batches |-> <<>>, polled |-> <<>>]
      BY <1>9 DEF SendFails, Rest
    <3>2. <<>> \in Seq(Seq(Samples)) /\ <<>> \in Seq(Event)
      OBVIOUS
    <3> QED
      BY <3>1, <3>2
  <2> QED
    BY <1>9, <2>1 DEF StreamTypeOK, SendFails, gateVars, stateVars, sessionVars, liveVars
<1>10. CASE AppendEvents
  <2>1. delivery' \in [pc : {"rest", "send", "append", "record"}, batches : Seq(Seq(Samples)),
                       polled : Seq(Event)]
    <3>1. CASE delivery.batches = <<>>
      BY <1>2, <1>10, <3>1 DEF AppendEvents, NextBatch
    <3>2. CASE delivery.batches # <<>>
      <4>1. delivery' = [pc |-> "send", batches |-> delivery.batches, polled |-> <<>>]
        BY <1>10, <3>2 DEF AppendEvents, NextBatch, Rest
      <4>2. delivery.batches \in Seq(Seq(Samples)) /\ <<>> \in Seq(Event)
        BY <1>1
      <4> QED
        BY <4>1, <4>2
    <3> QED
      BY <3>1, <3>2
  <2>2. events' \in Seq(Event)
    BY <1>1, <1>10 DEF AppendEvents
  <2> QED
    BY <1>10, <2>1, <2>2 DEF StreamTypeOK, AppendEvents, gateVars, sessionVars, liveVars
<1>11. CASE RecordError
  BY <1>2, <1>11 DEF StreamTypeOK, RecordError, gateVars, sessionVars, liveVars
<1>12. CASE LivePoll
  <2>1. PICK found \in NewEvents : Polls(found) /\ polled' = found
    BY <1>12 DEF LivePoll
  <2>2. polled' \in Seq(Event) /\ produced' \in 0 .. MaxEvents
    BY <2>1, FoundIsNext DEF Polls
  <2> QED
    BY <1>12, <2>2 DEF StreamTypeOK, LivePoll, gateVars, stateVars, liveVars
<1>13. CASE LivePollFails
  BY <1>13 DEF StreamTypeOK, LivePollFails, gateVars, stateVars, sessionVars, liveVars
<1>14. CASE LiveMerge
  <2>1. <<>> \in Seq(Event)
    OBVIOUS
  <2>2. CASE failed
    BY <1>14, <2>1, <2>2 DEF StreamTypeOK, LiveMerge, gateVars, sessionVars, liveVars
  <2>3. CASE ~failed
    <3> DEFINE seq == events \o polled
               texts == Only({"partial", "final"}, seq)
    <3>1. seq \in Seq(Event)
      BY <1>1
    <3> HIDE DEF seq
    <3>2. texts \in Seq(Event) /\ Only({"partial", "error"}, seq) \in Seq(Event)
          /\ Only({"final"}, seq) \in Seq(Event)
      BY <3>1, OnlyType
    <3>3. Project(seq)
      BY <1>14, <2>3 DEF LiveMerge, seq
    <3>4. partialText' = IF texts = <<>> THEN partialText ELSE Last(texts).id
      BY <3>3 DEF Project
    <3>5. shown' \in Seq(Event) /\ events' \in Seq(Event)
      BY <1>1, <3>2, <3>3 DEF Project
    <3> HIDE DEF texts
    <3>6. partialText' \in 0 .. MaxEvents
      <4>1. CASE texts = <<>>
        BY <1>1, <3>4, <4>1
      <4>2. CASE texts # <<>>
        <5>1. Len(texts) \in 1 .. Len(texts)
          BY <3>2, <4>2
        <5>2. Last(texts) \in Event
          BY <3>2, <5>1 DEF Last
        <5>3. Last(texts).id \in 1 .. MaxEvents
          BY <5>2 DEF Event
        <5> QED
          BY <3>4, <4>2, <5>3
      <4> QED
        BY <4>1, <4>2
    <3>7. /\ polled' = <<>> /\ runtime' = "recording" /\ failed' = FALSE
          /\ UNCHANGED <<captured, gateVars, pending, delivery, sessionVars>>
      BY <1>14, <2>3 DEF LiveMerge
    <3> QED
      BY <2>1, <3>5, <3>6, <3>7 DEF StreamTypeOK, gateVars, sessionVars
  <2> QED
    BY <2>2, <2>3 DEF StreamTypeOK
<1>15. CASE EnterLiveError
  BY <1>15 DEF StreamTypeOK, EnterLiveError, gateVars, stateVars, sessionVars, liveVars
<1>16. CASE StopCapture
  BY <1>16 DEF StreamTypeOK, StopCapture, gateVars, stateVars, sessionVars, liveVars
<1>17. CASE FinishDelivery
  <2>1. pending' = <<>> /\ pending' \in Seq(Samples) /\ Len(pending') < BatchSize
    BY <1>17 DEF FinishDelivery
  <2>2. CASE pending = <<>>
    BY <1>17, <2>1, <2>2 DEF StreamTypeOK, FinishDelivery, gateVars, sessionVars, liveVars
  <2>3. CASE pending # <<>>
    <3>1. PICK found \in NewEvents : Polls(found) /\ events' = events \o found
      BY <1>17, <2>3 DEF FinishDelivery
    <3>2. found \in Seq(Event) /\ produced' \in 0 .. MaxEvents
      BY <3>1, FoundIsNext DEF Polls
    <3>3. events' \in Seq(Event)
      BY <1>1, <3>1, <3>2
    <3>5. delivered' = delivered \o pending
      BY <1>17, <2>3 DEF FinishDelivery
    <3>4. delivered' \in Seq(Samples)
      BY <1>1, <3>5
    <3> QED
      BY <1>17, <2>1, <3>2, <3>3, <3>4 DEF StreamTypeOK, FinishDelivery, gateVars, liveVars
  <2> QED
    BY <2>2, <2>3
<1>18. CASE FinishDeliveryFails
  BY <1>18 DEF StreamTypeOK, FinishDeliveryFails, gateVars, stateVars, sessionVars, liveVars
<1>19. CASE FinishSession
  <2>1. PICK found \in NewEvents : Polls(found) /\ events' = events \o found
    BY <1>19 DEF FinishSession
  <2>2. found \in Seq(Event) /\ produced' \in 0 .. MaxEvents
    BY <2>1, FoundIsNext DEF Polls
  <2>3. events' \in Seq(Event)
    BY <1>1, <2>1, <2>2
  <2>4. runtime' \in {"finished", "cancelled"}
    BY <1>19 DEF FinishSession
  <2> QED
    BY <1>19, <2>2, <2>3, <2>4 DEF StreamTypeOK, FinishSession, gateVars, liveVars
<1>20. CASE UNCHANGED vars
  BY <1>20 DEF StreamTypeOK, vars, gateVars, stateVars, sessionVars, liveVars
<1> QED
  BY <1>3, <1>5, <1>6, <1>7, <1>8, <1>9, <1>10, <1>11, <1>12, <1>13, <1>14, <1>15, <1>16,
     <1>17, <1>18, <1>19, <1>20 DEF Next, Deliver, Starting, Live, Finish


(* Every step leaves the two threads in stages that fit.                    *)
LEMMA StagesStay ==
  ASSUME StreamTypeOK, StagesFit, [Next]_vars
  PROVE  StagesFit'
<1> USE DEF Capturing
<1>1. /\ delivery.pc = "rest" => delivery = Rest
      /\ delivery.pc = "record" => delivery.batches = <<>>
      /\ delivery.pc = "send" => delivery.batches # <<>>
      /\ delivery.pc # "append" => delivery.polled = <<>>
      /\ runtime # "merging" => polled = <<>>
      /\ armed <=> runtime # "starting"
      /\ runtime \notin {"starting", "replaying"} => buffered = <<>>
      /\ runtime # "replaying" /\ arriving # <<>> => delivery = Rest
      /\ runtime = "starting" => delivery = Rest
      /\ ~Capturing => arriving = <<>> /\ delivery = Rest
      /\ runtime \in {"finishing", "finished"} => pending = <<>> /\ ~failed
  BY DEF StagesFit
<1>2. Rest.pc = "rest" /\ Rest.batches = <<>> /\ Rest.polled = <<>>
  BY DEF Rest
<1>3. ASSUME NEW n \in ChunkSizes, Capture(n)
      PROVE  StagesFit'
  BY <1>1, <1>3 DEF StagesFit, Capture, stateVars, sessionVars, liveVars
<1>4. ASSUME NEW chunk \in Seq(Samples), PushChunk(chunk)
      PROVE  /\ delivery'.pc \in {"rest", "send"} /\ delivery'.polled = <<>>
             /\ delivery'.pc = "rest" => delivery' = Rest
             /\ delivery'.pc = "send" => delivery'.batches # <<>>
             /\ failed' = failed
  BY <1>4, PushKeepsChunk DEF PushChunk
<1>5. CASE EnterGate
  <2>1. CASE armed
    <3>1. PushChunk(arriving) /\ buffered' = buffered /\ arriving \in Seq(Samples)
      BY <1>5, <2>1 DEF EnterGate, StreamTypeOK
    <3>2. /\ delivery'.pc \in {"rest", "send"} /\ delivery'.polled = <<>>
          /\ delivery'.pc = "rest" => delivery' = Rest
          /\ delivery'.pc = "send" => delivery'.batches # <<>>
      BY <1>4, <3>1
    <3>3. /\ arriving # <<>> /\ arriving' = <<>>
          /\ runtime' = runtime /\ armed' = armed /\ polled' = polled
      BY <1>5 DEF EnterGate
    <3>4. Capturing /\ runtime # "starting" /\ runtime \notin {"finishing", "finished"}
      BY <1>1, <2>1, <3>3
    <3> QED
      BY <1>1, <3>1, <3>2, <3>3, <3>4 DEF StagesFit
  <2>2. CASE ~armed
    BY <1>1, <1>5, <2>2 DEF StagesFit, EnterGate, stateVars, sessionVars, liveVars
  <2> QED
    BY <2>1, <2>2
<1>6. CASE Arm
  BY <1>1, <1>6 DEF StagesFit, Arm, stateVars, sessionVars, liveVars
<1>7. CASE Replay
  <2>1. CASE buffered = <<>>
    BY <1>1, <1>7, <2>1 DEF StagesFit, Replay, stateVars, sessionVars, liveVars
  <2>2. CASE buffered # <<>>
    <3>1. PushChunk(Head(buffered)) /\ runtime' = runtime /\ runtime = "replaying"
      BY <1>7, <2>2 DEF Replay
    <3>2. Head(buffered) \in Seq(Samples)
      BY <2>2 DEF StreamTypeOK
    <3>3. armed' = armed /\ polled' = polled
      BY <1>7 DEF Replay
    <3>4. /\ delivery'.pc \in {"rest", "send"} /\ delivery'.polled = <<>>
          /\ delivery'.pc = "rest" => delivery' = Rest
          /\ delivery'.pc = "send" => delivery'.batches # <<>>
      BY <1>4, <3>1, <3>2
    <3> QED
      BY <1>1, <3>1, <3>3, <3>4 DEF StagesFit
  <2> QED
    BY <2>1, <2>2
<1>8. ASSUME delivery # Rest, ~(runtime \in {"finishing", "finished"} /\ failed'),
             \/ delivery' = Rest
             \/ /\ delivery'.pc \in {"send", "append", "record"}
                /\ delivery'.pc = "record" => delivery'.batches = <<>>
                /\ delivery'.pc = "send" => delivery'.batches # <<>>
                /\ delivery'.pc # "append" => delivery'.polled = <<>>,
             UNCHANGED <<arriving, armed, buffered, pending, runtime, polled>>
      PROVE  StagesFit'
  BY <1>1, <1>2, <1>8 DEF StagesFit
<1>9. CASE SendBatch
  <2>1. delivery'.pc = "append"
    BY <1>9 DEF SendBatch
  <2>2. delivery # Rest
    BY <1>2, <1>9 DEF SendBatch
  <2>3. UNCHANGED <<arriving, armed, buffered, pending, runtime, polled, failed>>
    BY <1>9 DEF SendBatch, gateVars, stateVars
  <2> QED
    BY <1>1, <1>8, <2>1, <2>2, <2>3
<1>10. CASE SendFails
  <2>1. delivery'.pc = "record" /\ delivery'.batches = <<>> /\ delivery'.polled = <<>>
    BY <1>10 DEF SendFails, Rest
  <2>2. delivery # Rest
    BY <1>2, <1>10 DEF SendFails
  <2>3. UNCHANGED <<arriving, armed, buffered, pending, runtime, polled, failed>>
    BY <1>10 DEF SendFails, gateVars, stateVars
  <2> QED
    BY <1>1, <1>8, <2>1, <2>2, <2>3
<1>11. CASE AppendEvents
  <2>1. \/ delivery' = Rest
        \/ delivery'.pc = "send" /\ delivery'.batches # <<>> /\ delivery'.polled = <<>>
    BY <1>11 DEF AppendEvents, NextBatch, Rest
  <2>2. delivery # Rest
    BY <1>2, <1>11 DEF AppendEvents
  <2>3. UNCHANGED <<arriving, armed, buffered, pending, runtime, polled, failed>>
    BY <1>11 DEF AppendEvents, gateVars
  <2> QED
    BY <1>1, <1>8, <2>1, <2>2, <2>3
<1>12. CASE RecordError
  <2>1. delivery' = Rest
    BY <1>12 DEF RecordError
  <2>2. delivery # Rest
    BY <1>2, <1>12 DEF RecordError
  <2>3. UNCHANGED <<arriving, armed, buffered, pending, runtime, polled>>
    BY <1>12 DEF RecordError, gateVars
  <2> QED
    BY <1>1, <1>8, <2>1, <2>2, <2>3
<1>13. CASE LivePoll
  BY <1>1, <1>13 DEF StagesFit, LivePoll, gateVars, stateVars
<1>14. CASE LivePollFails
  BY <1>1, <1>14 DEF StagesFit, LivePollFails, gateVars, stateVars
<1>15. CASE LiveMerge
  BY <1>1, <1>15 DEF StagesFit, LiveMerge, gateVars
<1>16. CASE EnterLiveError
  BY <1>1, <1>16 DEF StagesFit, EnterLiveError, gateVars, stateVars
<1>17. CASE StopCapture
  BY <1>1, <1>17 DEF StagesFit, StopCapture, gateVars, stateVars
<1>18. CASE FinishDelivery
  BY <1>1, <1>18 DEF StagesFit, FinishDelivery, gateVars
<1>19. CASE FinishDeliveryFails
  BY <1>1, <1>19 DEF StagesFit, FinishDeliveryFails, gateVars, stateVars
<1>20. CASE FinishSession
  <2>1. runtime' \in {"finished", "cancelled"} /\ runtime = "finishing"
    BY <1>20 DEF FinishSession
  <2>2. UNCHANGED <<arriving, armed, buffered, pending, failed, delivery, polled>>
    BY <1>20 DEF FinishSession, gateVars
  <2> QED
    BY <1>1, <2>1, <2>2 DEF StagesFit
<1>21. CASE UNCHANGED vars
  BY <1>1, <1>21 DEF StagesFit, vars, gateVars, stateVars
<1> QED
  BY <1>3, <1>5, <1>6, <1>7, <1>9, <1>10, <1>11, <1>12, <1>13, <1>14, <1>15, <1>16, <1>17,
     <1>18, <1>19, <1>20, <1>21 DEF Next, Deliver, Starting, Live, Finish


-----------------------------------------------------------------------------
(* The audio on its way.                                                    *)

(* The queue that OnTheWay strings together, from the session to the        *)
(* microphone: given, batched, waiting for a batch, buffered, arriving.     *)
Queue(d, b, p, u, a) == Cat(Cat(Cat(Cat(d, b), p), u), a)

(* It can be read from the session on.                                      *)
LEMMA QueueIs ==
  ASSUME NEW S, NEW d \in Seq(S), NEW b \in Seq(S), NEW p \in Seq(S), NEW u \in Seq(S),
         NEW a \in Seq(S)
  PROVE  Queue(d, b, p, u, a) = Cat(d, Cat(Cat(b, p), Cat(u, a)))
<1>1. Cat(Cat(d, b), p) = Cat(d, Cat(b, p))
  BY CatAssociates
<1> DEFINE m == Cat(b, p)
           o == Cat(u, a)
<1>2. m \in Seq(S) /\ o \in Seq(S)
  BY CatType
<1> HIDE DEF m
<1>3. Cat(d, m) \in Seq(S)
  BY <1>2, CatType
<1>4. Cat(Cat(Cat(d, m), u), a) = Cat(Cat(d, m), Cat(u, a))
  BY <1>3, CatAssociates
<1> HIDE DEF o
<1>5. Cat(Cat(d, m), o) = Cat(d, Cat(m, o))
  BY <1>2, CatAssociates
<1> QED
  BY <1>1, <1>4, <1>5, Zenon DEF Queue, m, o

(* With no batch to send, a chunk h can be taken from the gate to what      *)
(* waits for a batch.                                                       *)
LEMMA QueuePushes ==
  ASSUME NEW S, NEW d \in Seq(S), NEW p \in Seq(S), NEW h \in Seq(S), NEW t \in Seq(S),
         NEW a \in Seq(S)
  PROVE  Queue(d, <<>>, p, Cat(h, t), a) = Cat(d, Cat(Cat(p, h), Cat(t, a)))
<1>1. <<>> \in Seq(S)
  OBVIOUS
<1>2. Cat(h, t) \in Seq(S) /\ Cat(t, a) \in Seq(S)
  BY CatType
<1>4. Queue(d, <<>>, p, Cat(h, t), a) = Cat(d, Cat(Cat(<<>>, p), Cat(Cat(h, t), a)))
  <2> DEFINE x == Cat(h, t)
             none == <<>>
  <2>1. x \in Seq(S) /\ none \in Seq(S)
    BY <1>1, <1>2
  <2> HIDE DEF x, none
  <2>2. Queue(d, none, p, x, a) = Cat(d, Cat(Cat(none, p), Cat(x, a)))
    BY <2>1, QueueIs
  <2> QED
    BY <2>2 DEF x, none
<1>5. Cat(<<>>, p) = p
  BY CatEmpty
<1>6. Cat(Cat(h, t), a) = Cat(h, Cat(t, a))
  BY CatAssociates
<1>7. Cat(Cat(p, h), Cat(t, a)) = Cat(p, Cat(h, Cat(t, a)))
  BY <1>2, CatAssociates
<1> QED
  BY <1>4, <1>5, <1>6, <1>7, Zenon

(* The first n samples.                                                     *)
Ids(n) == [i \in 1 .. n |-> i]

(* The next samples follow them.                                            *)
LEMMA IdsGrow ==
  ASSUME NEW c \in Nat, NEW n \in Nat
  PROVE  Cat(Ids(c), [i \in 1 .. n |-> c + i]) = Ids(c + n)
<1> DEFINE s == Ids(c)
           t == [i \in 1 .. n |-> c + i]
           r == Ids(c + n)
<1>1. /\ s \in Seq(Nat) /\ Len(s) = c /\ \A i \in 1 .. c : s[i] = i
      /\ t \in Seq(Nat) /\ Len(t) = n /\ \A i \in 1 .. n : t[i] = c + i
      /\ r \in Seq(Nat) /\ Len(r) = c + n /\ \A i \in 1 .. c + n : r[i] = i
  BY DEF Ids
<1> HIDE DEF s, t, r
<1>2. /\ s \o t \in Seq(Nat) /\ Len(s \o t) = c + n
      /\ \A i \in 1 .. c + n : (s \o t)[i] = IF i <= c THEN s[i] ELSE t[i - c]
  BY <1>1, ConcatProperties
<1>3. \A i \in 1 .. c + n : (s \o t)[i] = r[i]
  <2> SUFFICES ASSUME NEW i \in 1 .. c + n PROVE (s \o t)[i] = r[i]
    OBVIOUS
  <2>1. CASE i <= c
    BY <1>1, <1>2, <2>1
  <2>2. CASE ~(i <= c)
    <3>1. i - c \in 1 .. n
      BY <2>2
    <3>2. t[i - c] = c + (i - c)
      BY <1>1, <3>1
    <3> QED
      BY <1>1, <1>2, <2>2, <3>2
  <2> QED
    BY <2>1, <2>2
<1>4. s \o t = r
  <2> DEFINE q == s \o t
  <2>1. q \in Seq(Nat) /\ r \in Seq(Nat) /\ Len(q) = Len(r) /\ \A i \in 1 .. Len(q) : q[i] = r[i]
    BY <1>1, <1>2, <1>3
  <2> HIDE DEF q
  <2>2. q = r
    BY <2>1, SeqEqual
  <2> QED
    BY <2>2 DEF q
<1> QED
  BY <1>4 DEF Cat, s, t, r

(* OnTheWay is the queue.                                                   *)
LEMMA OnTheWayIs ==
  OnTheWay = Queue(delivered, FlattenSeq(delivery.batches), pending, FlattenSeq(buffered), arriving)
  BY Zenon DEF OnTheWay, Queue, Cat

(* The parts of the queue are sequences of samples.                         *)
LEMMA QueueTypes ==
  ASSUME StreamTypeOK
  PROVE  /\ delivered \in Seq(Samples) /\ pending \in Seq(Samples) /\ arriving \in Seq(Samples)
         /\ FlattenSeq(delivery.batches) \in Seq(Samples)
         /\ FlattenSeq(buffered) \in Seq(Samples)
<1>1. /\ delivered \in Seq(Samples) /\ pending \in Seq(Samples) /\ arriving \in Seq(Samples)
      /\ delivery.batches \in Seq(Seq(Samples)) /\ buffered \in Seq(Seq(Samples))
  BY DEF StreamTypeOK
<1> QED
  BY <1>1, FlattenType


(* A delivery that broke stays broken until the recording has failed.       *)
LEMMA StaysBroken ==
  ASSUME StagesFit, [Next]_vars, Broken
  PROVE  Broken'
<1> USE DEF Broken
<1>1. /\ delivery.pc = "rest" => delivery = Rest
      /\ runtime # "replaying" /\ arriving # <<>> => delivery = Rest
      /\ ~Capturing => arriving = <<>> /\ delivery = Rest
      /\ runtime \in {"finishing", "finished"} => pending = <<>> /\ ~failed
  BY DEF StagesFit
<1>2. Rest.pc = "rest"
  BY DEF Rest
<1>3. ASSUME NEW n \in ChunkSizes, Capture(n)
      PROVE  Broken'
  BY <1>3 DEF Capture, stateVars
<1>4. CASE EnterGate
  <2>1. delivery = Rest /\ runtime' = runtime
    BY <1>1, <1>4 DEF EnterGate
  <2>2. failed' = failed
    BY <1>4 DEF EnterGate, PushChunk, stateVars
  <2> QED
    BY <1>2, <2>1, <2>2
<1>5. CASE Arm
  BY <1>5 DEF Arm, stateVars
<1>6. CASE Replay
  <2>1. delivery = Rest /\ runtime = "replaying"
    BY <1>6 DEF Replay
  <2>2. failed' = failed
    BY <1>6 DEF Replay, PushChunk, stateVars
  <2> QED
    BY <1>2, <2>1, <2>2
<1>7. CASE SendBatch
  BY <1>7 DEF SendBatch, stateVars
<1>8. CASE SendFails
  BY <1>8 DEF SendFails, stateVars, Rest
<1>9. CASE AppendEvents
  BY <1>9 DEF AppendEvents
<1>10. CASE RecordError
  BY <1>10 DEF RecordError
<1>11. CASE LivePoll \/ LivePollFails
  BY <1>11 DEF LivePoll, LivePollFails, stateVars
<1>12. CASE LiveMerge
  BY <1>12 DEF LiveMerge
<1>13. CASE EnterLiveError
  BY <1>13 DEF EnterLiveError
<1>14. CASE StopCapture
  <2>1. failed /\ failed' = failed
    BY <1>2, <1>14 DEF StopCapture, stateVars
  <2> QED
    BY <2>1
<1>15. CASE FinishDelivery
  BY <1>1, <1>2, <1>15 DEF FinishDelivery, Capturing
<1>16. CASE FinishDeliveryFails
  BY <1>16 DEF FinishDeliveryFails
<1>17. CASE FinishSession
  BY <1>1, <1>2, <1>17 DEF FinishSession, Capturing
<1>18. CASE UNCHANGED vars
  BY <1>18 DEF vars, stateVars
<1> QED
  BY <1>3, <1>4, <1>5, <1>6, <1>7, <1>8, <1>9, <1>10, <1>11, <1>12, <1>13, <1>14, <1>15,
     <1>16, <1>17, <1>18 DEF Next, Deliver, Starting, Live, Finish

(* Every step but a capture leaves the queue as it is, unless it breaks it. *)
LEMMA QueueStays ==
  ASSUME StreamTypeOK, StagesFit, [Next]_vars, ~Broken', \A n \in ChunkSizes : ~Capture(n)
  PROVE  OnTheWay' = OnTheWay /\ captured' = captured
<1> DEFINE b == FlattenSeq(delivery.batches)
           u == FlattenSeq(buffered)
<1>1. /\ delivered \in Seq(Samples) /\ pending \in Seq(Samples) /\ arriving \in Seq(Samples)
      /\ b \in Seq(Samples) /\ u \in Seq(Samples)
      /\ delivery.batches \in Seq(Seq(Samples)) /\ buffered \in Seq(Seq(Samples))
  BY QueueTypes DEF StreamTypeOK
<1>2. ~Broken
  BY StaysBroken
<1>3. ~failed /\ delivery.pc # "record" /\ runtime \notin {"failing", "cancelled"}
  BY <1>2 DEF Broken
<1>4. /\ runtime # "replaying" /\ arriving # <<>> => delivery = Rest
      /\ runtime \notin {"starting", "replaying"} => buffered = <<>>
      /\ armed <=> runtime # "starting"
      /\ delivery.pc = "send" => delivery.batches # <<>>
      /\ ~Capturing => arriving = <<>> /\ delivery = Rest
  BY DEF StagesFit
<1>5. OnTheWay = Queue(delivered, b, pending, u, arriving)
  BY OnTheWayIs
<1>6. OnTheWay' = Queue(delivered', FlattenSeq(delivery'.batches), pending',
                        FlattenSeq(buffered'), arriving')
  BY Zenon DEF OnTheWay, Queue, Cat
<1>7. ASSUME UNCHANGED <<delivered, pending, buffered, arriving>>, delivery'.batches = delivery.batches
      PROVE  OnTheWay' = OnTheWay
  BY <1>5, <1>6, <1>7
<1>8. FlattenSeq(<<>>) = <<>> /\ Rest.batches = <<>> /\ <<>> \in Seq(Samples)
  BY FlattenEmpty DEF Rest
<1>9. CASE EnterGate
  <2>1. /\ captured' = captured /\ delivered' = delivered /\ arriving' = <<>>
        /\ arriving # <<>> /\ runtime # "replaying"
    BY <1>9 DEF EnterGate, sessionVars
  <2>2. b = <<>>
    BY <1>4, <1>8, <2>1
  <2>3. CASE armed
    <3>1. PushChunk(arriving) /\ buffered' = buffered
      BY <1>9, <2>3 DEF EnterGate
    <3>2. u = <<>>
      BY <1>4, <1>8, <2>1, <2>3
    <3> DEFINE c == FlattenSeq(delivery'.batches)
    <3>3. /\ c \in Seq(Samples) /\ pending' \in Seq(Samples)
          /\ Cat(c, pending') = Cat(pending, arriving)
      <4>1. /\ pending' \in Seq(Samples)
            /\ delivery' \in [pc : {"rest", "send"}, batches : Seq(Seq(Samples)), polled : {<<>>}]
            /\ Cat(c, pending') = Cat(pending, arriving)
        BY <1>1, <1>3, <3>1, PushKeepsChunk
      <4>2. delivery'.batches \in Seq(Seq(Samples))
        BY <4>1
      <4> QED
        BY <4>1, <4>2, FlattenType
    <3> HIDE DEF b, u, c
    <3>4. Queue(delivered, c, pending', <<>>, <<>>)
            = Queue(delivered, <<>>, pending, Cat(arriving, <<>>), <<>>)
      <4> DEFINE q == pending'
                 none == <<>>
      <4>1. q \in Seq(Samples) /\ none \in Seq(Samples) /\ Cat(c, q) = Cat(pending, arriving)
        BY <3>3
      <4> HIDE DEF q, none
      <4>2. Queue(delivered, c, q, none, none)
              = Queue(delivered, <<>>, pending, Cat(arriving, none), none)
        <5>1. Queue(delivered, <<>>, pending, Cat(arriving, none), none)
                = Cat(delivered, Cat(Cat(pending, arriving), Cat(none, none)))
          BY <1>1, <4>1, QueuePushes
        <5>2. Queue(delivered, c, q, none, none)
                = Cat(delivered, Cat(Cat(c, q), Cat(none, none)))
          BY <1>1, <3>3, <4>1, QueueIs
        <5> QED
          BY <4>1, <5>1, <5>2, Zenon
      <4> QED
        BY <4>2, Zenon DEF q, none
    <3>5. Cat(arriving, <<>>) = arriving
      BY <1>1, CatEmpty
    <3>6. Queue(delivered, <<>>, pending, arriving, <<>>)
            = Queue(delivered, <<>>, pending, <<>>, arriving)
      <4> DEFINE none == <<>>
      <4>1. none \in Seq(Samples)
        OBVIOUS
      <4>2. Cat(none, arriving) = Cat(arriving, none)
        BY <1>1, CatEmpty
      <4> HIDE DEF none
      <4>3. /\ Queue(delivered, none, pending, arriving, none)
                 = Cat(delivered, Cat(Cat(none, pending), Cat(arriving, none)))
            /\ Queue(delivered, none, pending, none, arriving)
                 = Cat(delivered, Cat(Cat(none, pending), Cat(none, arriving)))
        BY <1>1, <4>1, QueueIs
      <4>4. Queue(delivered, none, pending, arriving, none)
              = Queue(delivered, none, pending, none, arriving)
        BY <4>2, <4>3, Zenon
      <4> QED
        BY <4>4 DEF none
    <3>7. OnTheWay = Queue(delivered, <<>>, pending, <<>>, arriving)
      BY <1>5, <2>2, <3>2, Zenon
    <3>8. FlattenSeq(buffered') = <<>>
      BY <3>1, <3>2, Zenon DEF u
    <3>9. OnTheWay' = Queue(delivered, c, pending', <<>>, <<>>)
      BY <1>6, <2>1, <3>8, Zenon DEF c
    <3> QED
      BY <2>1, <3>4, <3>5, <3>6, <3>7, <3>9, Zenon
  <2>4. CASE ~armed
    <3>1. buffered' = Append(buffered, arriving) /\ delivery' = delivery /\ pending' = pending
      BY <1>9, <2>4 DEF EnterGate, stateVars
    <3>2. FlattenSeq(buffered') = Cat(u, arriving)
      BY <1>1, <3>1, FlattenAppend DEF Cat
    <3> HIDE DEF b, u
    <3>3. Cat(u, arriving) \in Seq(Samples)
      BY <1>1, CatType
    <3>4. Queue(delivered, b, pending, Cat(u, arriving), <<>>)
            = Queue(delivered, b, pending, u, arriving)
      <4> DEFINE q == Cat(u, arriving)
                 none == <<>>
      <4>1. Cat(q, none) = q
        BY <3>3, CatEmpty
      <4>2. q \in Seq(Samples) /\ none \in Seq(Samples)
        BY <3>3
      <4> HIDE DEF q, none
      <4>3. /\ Queue(delivered, b, pending, q, none)
                 = Cat(delivered, Cat(Cat(b, pending), Cat(q, none)))
            /\ Queue(delivered, b, pending, u, arriving)
                 = Cat(delivered, Cat(Cat(b, pending), Cat(u, arriving)))
        BY <1>1, <4>2, QueueIs
      <4> QED
        BY <4>1, <4>3, Zenon DEF q, none
    <3>5. OnTheWay' = Queue(delivered, b, pending, Cat(u, arriving), <<>>)
      BY <1>6, <2>1, <3>1, <3>2, Zenon DEF b
    <3> QED
      BY <1>5, <2>1, <3>4, <3>5, Zenon
  <2> QED
    BY <2>3, <2>4
<1>10. CASE Arm
  BY <1>7, <1>10 DEF Arm, stateVars, sessionVars
<1>11. CASE Replay
  <2>1. delivery = Rest /\ captured' = captured /\ delivered' = delivered /\ arriving' = arriving
    BY <1>11 DEF Replay, sessionVars
  <2>2. CASE buffered = <<>>
    BY <1>7, <1>11, <2>1, <2>2 DEF Replay, stateVars
  <2>3. CASE buffered # <<>>
    <3>1. PushChunk(Head(buffered)) /\ buffered' = Tail(buffered)
      BY <1>11, <2>3 DEF Replay
    <3> DEFINE h == Head(buffered)
               t == FlattenSeq(Tail(buffered))
               c == FlattenSeq(delivery'.batches)
    <3>2. h \in Seq(Samples) /\ Tail(buffered) \in Seq(Seq(Samples))
      BY <1>1, <2>3
    <3>3. u = Cat(h, t)
      BY <1>1, <2>3, FlattenHead DEF Cat
    <3>4. t \in Seq(Samples)
      BY <3>2, FlattenType
    <3>5. /\ c \in Seq(Samples) /\ pending' \in Seq(Samples)
          /\ Cat(c, pending') = Cat(pending, h)
      <4>1. /\ pending' \in Seq(Samples)
            /\ delivery' \in [pc : {"rest", "send"}, batches : Seq(Seq(Samples)), polled : {<<>>}]
            /\ Cat(c, pending') = Cat(pending, h)
        BY <1>3, <3>1, <3>2, PushKeepsChunk
      <4>2. delivery'.batches \in Seq(Seq(Samples))
        BY <4>1
      <4> QED
        BY <4>1, <4>2, FlattenType
    <3>6. b = <<>>
      BY <1>8, <2>1
    <3> HIDE DEF h, t, c, b, u
    <3>7. Queue(delivered, c, pending', t, arriving)
            = Queue(delivered, <<>>, pending, Cat(h, t), arriving)
      <4> DEFINE q == pending'
      <4>1. q \in Seq(Samples) /\ Cat(c, q) = Cat(pending, h)
        BY <3>5
      <4> HIDE DEF q
      <4>2. Queue(delivered, c, q, t, arriving)
              = Queue(delivered, <<>>, pending, Cat(h, t), arriving)
        <5>1. Queue(delivered, <<>>, pending, Cat(h, t), arriving)
                = Cat(delivered, Cat(Cat(pending, h), Cat(t, arriving)))
          BY <1>1, <3>2, <3>4, QueuePushes
        <5>2. Queue(delivered, c, q, t, arriving)
                = Cat(delivered, Cat(Cat(c, q), Cat(t, arriving)))
          BY <1>1, <3>4, <3>5, <4>1, QueueIs
        <5> QED
          BY <4>1, <5>1, <5>2, Zenon
      <4> QED
        BY <4>2, Zenon DEF q
    <3>8. OnTheWay = Queue(delivered, <<>>, pending, Cat(h, t), arriving)
      BY <1>5, <3>3, <3>6, Zenon
    <3>9. OnTheWay' = Queue(delivered, c, pending', t, arriving)
      BY <1>6, <2>1, <3>1, Zenon DEF c, t
    <3> QED
      BY <2>1, <3>7, <3>8, <3>9, Zenon
  <2> QED
    BY <2>2, <2>3
<1>12. CASE SendBatch
  <2> DEFINE h == Head(delivery.batches)
             t == FlattenSeq(Tail(delivery.batches))
  <2>1. /\ delivered' = Cat(delivered, h) /\ delivery'.batches = Tail(delivery.batches)
        /\ captured' = captured /\ pending' = pending /\ buffered' = buffered
        /\ arriving' = arriving
    BY <1>12 DEF SendBatch, gateVars, stateVars, Cat
  <2>2. delivery.batches # <<>>
    BY <1>4, <1>12 DEF SendBatch
  <2>3. b = Cat(h, t)
    BY <1>1, <2>2, FlattenHead DEF Cat
  <2>4. h \in Seq(Samples) /\ Tail(delivery.batches) \in Seq(Seq(Samples))
    BY <1>1, <2>2
  <2>5. t \in Seq(Samples)
    BY <2>4, FlattenType
  <2>6. OnTheWay' = Queue(Cat(delivered, h), t, pending, u, arriving)
    BY <1>6, <2>1, Zenon
  <2>7. OnTheWay = Queue(delivered, Cat(h, t), pending, u, arriving)
    BY <1>5, <2>3, Zenon
  <2> HIDE DEF h, t, u
  <2>8. Cat(Cat(delivered, h), t) = Cat(delivered, Cat(h, t))
    BY <1>1, <2>4, <2>5, CatAssociates
  <2> QED
    BY <2>1, <2>6, <2>7, <2>8, Zenon DEF Queue
<1>13. CASE SendFails
  BY <1>13 DEF SendFails, Broken, Rest
<1>14. CASE AppendEvents
  <2>1. delivery'.batches = delivery.batches
    BY <1>14 DEF AppendEvents, NextBatch, Rest
  <2> QED
    BY <1>7, <1>14, <2>1 DEF AppendEvents, gateVars, sessionVars
<1>15. CASE RecordError
  BY <1>15 DEF RecordError, Broken
<1>16. CASE LivePoll \/ LivePollFails
  BY <1>7, <1>16 DEF LivePoll, LivePollFails, gateVars, stateVars, sessionVars
<1>17. CASE LiveMerge
  BY <1>7, <1>17 DEF LiveMerge, gateVars, sessionVars
<1>18. CASE EnterLiveError
  BY <1>7, <1>18 DEF EnterLiveError, gateVars, stateVars, sessionVars
<1>19. CASE StopCapture
  BY <1>7, <1>19 DEF StopCapture, gateVars, stateVars, sessionVars
<1>20. CASE FinishDelivery
  <2>1. runtime = "stopping" /\ pending' = <<>>
        /\ UNCHANGED <<captured, arriving, buffered, delivery>>
    BY <1>20 DEF FinishDelivery, gateVars
  <2>2. b = <<>> /\ u = <<>> /\ arriving = <<>>
    BY <1>4, <1>8, <2>1 DEF Capturing
  <2>3. delivered' = Cat(delivered, pending)
    <3>1. CASE pending = <<>>
      <4>1. delivered' = delivered
        BY <1>20, <3>1 DEF FinishDelivery, sessionVars
      <4>2. Cat(delivered, <<>>) = delivered
        BY <1>1, CatEmpty
      <4> QED
        BY <3>1, <4>1, <4>2, Zenon
    <3>2. CASE pending # <<>>
      BY <1>20, <3>2 DEF FinishDelivery, Cat
    <3> QED
      BY <3>1, <3>2
  <2>4. OnTheWay' = Queue(Cat(delivered, pending), b, <<>>, u, arriving)
    BY <1>6, <2>1, <2>3, Zenon
  <2> HIDE DEF b, u
  <2>5. Cat(delivered, pending) \in Seq(Samples)
    BY <1>1, CatType
  <2>6. /\ Cat(Cat(delivered, pending), <<>>) = Cat(delivered, pending)
        /\ Cat(delivered, <<>>) = delivered
    BY <1>1, <2>5, CatEmpty
  <2> QED
    BY <1>5, <2>1, <2>2, <2>4, <2>6, Zenon DEF Queue
<1>21. CASE FinishDeliveryFails
  BY <1>21 DEF FinishDeliveryFails, Broken
<1>22. CASE FinishSession
  BY <1>7, <1>22 DEF FinishSession, gateVars
<1>23. CASE UNCHANGED vars
  BY <1>7, <1>23 DEF vars, gateVars, stateVars, sessionVars
<1> QED
  BY <1>9, <1>10, <1>11, <1>12, <1>13, <1>14, <1>15, <1>16, <1>17, <1>18, <1>19, <1>20,
     <1>21, <1>22, <1>23 DEF Next, Deliver, Starting, Live, Finish


(* Every step keeps the audio in order.                                     *)
LEMMA AudioStays ==
  ASSUME StreamTypeOK, StagesFit, AudioStaysInOrder, [Next]_vars
  PROVE  AudioStaysInOrder'
<1> SUFFICES ASSUME ~Broken' PROVE OnTheWay' = Ids(captured')
  BY Zenon DEF AudioStaysInOrder, Ids
<1>1. OnTheWay = Ids(captured)
  BY StaysBroken DEF AudioStaysInOrder, Ids
<1>2. CASE \A n \in ChunkSizes : ~Capture(n)
  BY <1>1, <1>2, QueueStays
<1>3. ASSUME NEW n \in ChunkSizes, Capture(n)
      PROVE  OnTheWay' = Ids(captured')
  <2> DEFINE b == FlattenSeq(delivery.batches)
             u == FlattenSeq(buffered)
             new == [i \in 1 .. n |-> captured + i]
  <2>1. n \in Nat /\ captured \in Nat
    BY StreamConstants DEF StreamTypeOK
  <2>2. /\ arriving = <<>> /\ arriving' = new /\ captured' = captured + n
        /\ UNCHANGED <<delivered, pending, buffered, delivery>>
    BY <1>3 DEF Capture, stateVars, sessionVars
  <2>3. OnTheWay = Queue(delivered, b, pending, u, <<>>)
    BY <2>2, OnTheWayIs, Zenon
  <2>4. OnTheWay' = Queue(delivered, b, pending, u, new)
    BY <2>2, Zenon DEF OnTheWay, Queue, Cat
  <2> DEFINE before == Cat(Cat(Cat(delivered, b), pending), u)
  <2>5. before \in Seq(Samples)
    BY QueueTypes, CatType
  <2> HIDE DEF before, b, u, new
  <2>6. Cat(before, <<>>) = before
    BY <2>5, CatEmpty
  <2>7. before = Ids(captured)
    BY <1>1, <2>3, <2>6, Zenon DEF Queue, before
  <2>8. OnTheWay' = Cat(Ids(captured), new)
    BY <2>4, <2>7, Zenon DEF Queue, before
  <2>9. Cat(Ids(captured), new) = Ids(captured + n)
    BY <2>1, IdsGrow DEF new
  <2> QED
    BY <2>2, <2>8, <2>9, Zenon
<1> QED
  BY <1>2, <1>3

(* A recognition that has finished was given all there was.                 *)
LEMMA AudioArrives ==
  ASSUME StreamTypeOK, StagesFit, AudioStaysInOrder
  PROVE  FinishedHeardEverything
<1> SUFFICES ASSUME runtime = "finished" PROVE delivered = [i \in 1 .. captured |-> i]
  BY DEF FinishedHeardEverything
<1>1. /\ delivery = Rest /\ arriving = <<>> /\ buffered = <<>> /\ pending = <<>> /\ ~failed
      /\ delivery.pc # "record" /\ delivery.batches = <<>>
  BY DEF StagesFit, Capturing, Rest
<1>2. OnTheWay = [i \in 1 .. captured |-> i]
  BY <1>1 DEF AudioStaysInOrder, Broken
<1>3. OnTheWay = Queue(delivered, <<>>, <<>>, <<>>, <<>>)
  BY <1>1, OnTheWayIs, FlattenEmpty, Zenon
<1>4. Cat(delivered, <<>>) = delivered
  BY CatEmpty DEF StreamTypeOK
<1> QED
  BY <1>2, <1>3, <1>4, Zenon DEF Queue

-----------------------------------------------------------------------------
(* The events that were given away.                                         *)

(* What each holder of an event holds is a number.                          *)
LEMMA HoldersType ==
  ASSUME StreamTypeOK, NEW id
  PROVE  /\ Keeps(delivery.polled, id) \in Nat /\ Keeps(polled, id) \in Nat
         /\ Keeps(events, id) \in Nat /\ Keeps(shown, id) \in Nat
<1>1. /\ delivery.polled \in Seq(Event) /\ polled \in Seq(Event)
      /\ events \in Seq(Event) /\ shown \in Seq(Event)
  BY DEF StreamTypeOK
<1> QED
  BY <1>1, KeepsType

(* A step that moves events between their holders loses and doubles none.   *)
LEMMA EventsMove ==
  ASSUME StreamTypeOK, EventsAreAccounted, runtime \notin {"failing", "cancelled"},
         produced' = produced, \A id \in Nat \ {0} : Holders(id)' = Holders(id)
  PROVE  EventsAreAccounted'
  BY DEF EventsAreAccounted

(* A step that takes the next event from the session into one of them.      *)
LEMMA EventsArrive ==
  ASSUME StreamTypeOK, EventsAreAccounted, runtime \notin {"failing", "cancelled"},
         NEW found \in NewEvents, Polls(found),
         \A id \in Nat \ {0} : Holders(id)' = Holders(id) + Keeps(found, id)
  PROVE  EventsAreAccounted'
<1>1. produced \in Nat /\ produced' = produced + Len(found) /\ produced' \in Nat
      /\ Len(found) \in Nat
  BY FoundIsNext, StreamConstants DEF Polls, StreamTypeOK
<1>2. ASSUME NEW id \in Nat \ {0}
      PROVE  Holders(id)' = IF id <= produced' THEN 1 ELSE 0
  <2>1. Holders(id) = IF id <= produced THEN 1 ELSE 0
    BY DEF EventsAreAccounted
  <2>2. Keeps(found, id) = IF produced < id /\ id <= produced + Len(found) THEN 1 ELSE 0
    BY FoundIsNext
  <2>3. Holders(id)' = Holders(id) + Keeps(found, id)
    OBVIOUS
  <2> QED
    BY <1>1, <2>1, <2>2, <2>3
<1> QED
  BY <1>2 DEF EventsAreAccounted

(* A merge keeps every event it drains: final texts for stop, the rest are  *)
(* shown.                                                                   *)
LEMMA ProjectKeeps ==
  ASSUME StreamTypeOK, Project(events \o polled), NEW id
  PROVE  Keeps(shown', id) + Keeps(events', id)
           = Keeps(shown, id) + (Keeps(events, id) + Keeps(polled, id))
<1> DEFINE seq == events \o polled
           seen == Only({"partial", "error"}, seq)
           final == Only({"final"}, seq)
<1>1. events \in Seq(Event) /\ polled \in Seq(Event) /\ shown \in Seq(Event)
  BY DEF StreamTypeOK
<1>2. seq \in Seq(Event)
  BY <1>1
<1>3. Keeps(seq, id) = Keeps(events, id) + Keeps(polled, id)
  BY <1>1, KeepsConcat
<1>4. shown' = shown \o seen /\ events' = final
  BY DEF Project
<1> HIDE DEF seq
<1>5. seen \in Seq(Event) /\ final \in Seq(Event)
  BY <1>2, OnlyType
<1>6. \A e \in Event : e.kind \in {"partial", "error"} <=> e.kind \notin {"final"}
  BY StreamConstants DEF Event
<1>7. Keeps(seen, id) + Keeps(final, id) = Keeps(seq, id)
  BY <1>2, <1>6, OnlyKeeps
<1> HIDE DEF seen, final
<1>8. Keeps(shown \o seen, id) = Keeps(shown, id) + Keeps(seen, id)
  BY <1>1, <1>5, KeepsConcat
<1>9. /\ Keeps(shown, id) \in Nat /\ Keeps(seen, id) \in Nat /\ Keeps(final, id) \in Nat
      /\ Keeps(events, id) \in Nat /\ Keeps(polled, id) \in Nat
  BY <1>1, <1>5, KeepsType
<1>10. Keeps(shown', id) = Keeps(shown, id) + Keeps(seen, id) /\ Keeps(events', id) = Keeps(final, id)
  BY <1>4, <1>8, Zenon
<1> QED
  BY <1>3, <1>7, <1>9, <1>10

(* Every step keeps the account.                                            *)
LEMMA EventsStay ==
  ASSUME StreamTypeOK, StagesFit, EventsAreAccounted, [Next]_vars
  PROVE  EventsAreAccounted'
<1> SUFFICES ASSUME runtime' \notin {"failing", "cancelled"} PROVE EventsAreAccounted'
  BY DEF EventsAreAccounted
<1>1. runtime \notin {"failing", "cancelled"}
  BY DEF Next, Capture, EnterGate, Deliver, SendBatch, SendFails, AppendEvents, RecordError,
         Starting, Arm, Replay, Live, LivePoll, LivePollFails, LiveMerge, EnterLiveError,
         StopCapture, Finish, FinishDelivery, FinishDeliveryFails, FinishSession, vars
<1>2. /\ delivery.polled \in Seq(Event) /\ polled \in Seq(Event)
      /\ events \in Seq(Event) /\ shown \in Seq(Event)
  BY DEF StreamTypeOK
<1>3. /\ delivery.pc # "append" => delivery.polled = <<>>
      /\ runtime # "merging" => polled = <<>>
      /\ delivery.pc = "rest" => delivery = Rest
  BY DEF StagesFit
<1>4. Rest.polled = <<>> /\ Rest.pc = "rest"
  BY DEF Rest
<1>5. ASSUME produced' = produced, UNCHANGED <<events, polled, shown>>, delivery'.polled = delivery.polled
      PROVE  EventsAreAccounted'
  <2>1. \A id \in Nat \ {0} : Holders(id)' = Holders(id)
    BY <1>5 DEF Holders
  <2> QED
    BY <1>1, <1>5, <2>1, EventsMove
<1>6. ASSUME NEW n \in ChunkSizes, Capture(n)
      PROVE  EventsAreAccounted'
  BY <1>5, <1>6 DEF Capture, stateVars, sessionVars, liveVars
<1>7. ASSUME NEW chunk, PushChunk(chunk)
      PROVE  delivery'.polled = <<>>
  BY <1>7 DEF PushChunk, Rest
<1>8. CASE EnterGate
  <2>1. delivery'.polled = delivery.polled
    <3>1. CASE armed
      <4>1. delivery = Rest
        BY <1>8, <3>1 DEF EnterGate, StagesFit
      <4> QED
        BY <1>4, <1>7, <1>8, <3>1, <4>1 DEF EnterGate
    <3>2. CASE ~armed
      BY <1>8, <3>2 DEF EnterGate
    <3> QED
      BY <3>1, <3>2
  <2>2. UNCHANGED <<produced, events, polled, shown>>
    BY <1>8 DEF EnterGate, PushChunk, stateVars, sessionVars, liveVars
  <2> QED
    BY <1>5, <2>1, <2>2
<1>9. CASE Arm
  BY <1>5, <1>9 DEF Arm, stateVars, sessionVars, liveVars
<1>10. CASE Replay
  <2>1. delivery'.polled = delivery.polled
    BY <1>4, <1>7, <1>10 DEF Replay
  <2>2. UNCHANGED <<produced, events, polled, shown>>
    BY <1>10 DEF Replay, PushChunk, stateVars, sessionVars, liveVars
  <2> QED
    BY <1>5, <2>1, <2>2
<1>11. CASE SendBatch
  <2>1. PICK found \in NewEvents : Polls(found) /\ delivery'.polled = found
    BY <1>11 DEF SendBatch
  <2>2. delivery.polled = <<>> /\ UNCHANGED <<events, polled, shown>>
    BY <1>3, <1>11 DEF SendBatch, stateVars, liveVars
  <2>3. ASSUME NEW id \in Nat \ {0}
        PROVE  Holders(id)' = Holders(id) + Keeps(found, id)
    <3>1. Keeps(delivery.polled, id) = 0
      BY <2>2, KeepsEmpty, Zenon
    <3>2. Keeps(found, id) \in Nat /\ Keeps(polled, id) \in Nat /\ Keeps(events, id) \in Nat
          /\ Keeps(shown, id) \in Nat
      BY <1>2, FoundIsNext, HoldersType
    <3>3. Holders(id)' = Keeps(found, id) + Keeps(polled, id) + Keeps(events, id) + Keeps(shown, id)
      BY <2>1, <2>2, Zenon DEF Holders
    <3>4. Holders(id) = Keeps(delivery.polled, id) + Keeps(polled, id) + Keeps(events, id)
                          + Keeps(shown, id)
      BY DEF Holders
    <3> QED
      BY <3>1, <3>2, <3>3, <3>4
  <2> QED
    BY <1>1, <2>1, <2>3, EventsArrive
<1>12. CASE SendFails
  BY <1>3, <1>4, <1>5, <1>12 DEF SendFails, Rest, stateVars, sessionVars, liveVars
<1>13. CASE AppendEvents
  <2>1. delivery'.polled = <<>> /\ events' = events \o delivery.polled
        /\ UNCHANGED <<produced, polled, shown>>
    BY <1>13 DEF AppendEvents, NextBatch, Rest, sessionVars, liveVars
  <2>2. ASSUME NEW id \in Nat \ {0}
        PROVE  Holders(id)' = Holders(id)
    <3>1. Keeps(delivery'.polled, id) = 0
      BY <2>1, KeepsEmpty, Zenon
    <3>2. Keeps(events \o delivery.polled, id) = Keeps(events, id) + Keeps(delivery.polled, id)
      BY <1>2, KeepsConcat
    <3>3. Keeps(events', id) = Keeps(events, id) + Keeps(delivery.polled, id)
      BY <2>1, <3>2, Zenon
    <3>4. /\ Keeps(delivery.polled, id) \in Nat /\ Keeps(polled, id) \in Nat
          /\ Keeps(events, id) \in Nat /\ Keeps(shown, id) \in Nat
      BY HoldersType
    <3>5. Holders(id)' = Keeps(delivery'.polled, id) + Keeps(polled, id) + Keeps(events', id)
                           + Keeps(shown, id)
      BY <2>1, Zenon DEF Holders
    <3>6. Holders(id) = Keeps(delivery.polled, id) + Keeps(polled, id) + Keeps(events, id)
                          + Keeps(shown, id)
      BY DEF Holders
    <3> QED
      BY <3>1, <3>3, <3>4, <3>5, <3>6
  <2> QED
    BY <1>1, <2>1, <2>2, EventsMove
<1>14. CASE RecordError
  BY <1>3, <1>4, <1>5, <1>14 DEF RecordError, sessionVars, liveVars
<1>15. CASE LivePoll
  <2>1. PICK found \in NewEvents : Polls(found) /\ polled' = found
    BY <1>15 DEF LivePoll
  <2>2. polled = <<>> /\ UNCHANGED <<events, delivery, shown>>
    BY <1>3, <1>15 DEF LivePoll, stateVars, liveVars
  <2>3. ASSUME NEW id \in Nat \ {0}
        PROVE  Holders(id)' = Holders(id) + Keeps(found, id)
    <3>1. Keeps(polled, id) = 0
      BY <2>2, KeepsEmpty, Zenon
    <3>2. Keeps(found, id) \in Nat /\ Keeps(delivery.polled, id) \in Nat
          /\ Keeps(events, id) \in Nat /\ Keeps(shown, id) \in Nat
      BY <1>2, FoundIsNext, HoldersType
    <3>3. Holders(id)' = Keeps(delivery.polled, id) + Keeps(found, id) + Keeps(events, id)
                           + Keeps(shown, id)
      BY <2>1, <2>2, Zenon DEF Holders
    <3>4. Holders(id) = Keeps(delivery.polled, id) + Keeps(polled, id) + Keeps(events, id)
                          + Keeps(shown, id)
      BY DEF Holders
    <3> QED
      BY <3>1, <3>2, <3>3, <3>4
  <2> QED
    BY <1>1, <2>1, <2>3, EventsArrive
<1>16. CASE LivePollFails
  BY <1>5, <1>16 DEF LivePollFails, stateVars, sessionVars, liveVars
<1>17. CASE LiveMerge
  <2>1. /\ polled' = <<>> /\ Project(events \o polled)
        /\ delivery' = delivery /\ produced' = produced
    BY <1>17 DEF LiveMerge, sessionVars
  <2>2. ASSUME NEW id \in Nat \ {0}
        PROVE  Holders(id)' = Holders(id)
    <3>1. Keeps(polled', id) = 0
      BY <2>1, KeepsEmpty, Zenon
    <3>2. Keeps(shown', id) + Keeps(events', id)
            = Keeps(shown, id) + (Keeps(events, id) + Keeps(polled, id))
      BY <2>1, ProjectKeeps
    <3>3. /\ Keeps(delivery.polled, id) \in Nat /\ Keeps(polled, id) \in Nat
          /\ Keeps(events, id) \in Nat /\ Keeps(shown, id) \in Nat
      BY HoldersType
    <3>4. Keeps(events', id) \in Nat /\ Keeps(shown', id) \in Nat
      <4>1. events' \in Seq(Event) /\ shown' \in Seq(Event)
        BY TypesStay DEF StreamTypeOK
      <4> QED
        BY <4>1, KeepsType
    <3>5. Holders(id)' = Keeps(delivery.polled, id) + Keeps(polled', id) + Keeps(events', id)
                           + Keeps(shown', id)
      BY <2>1, Zenon DEF Holders
    <3>6. Holders(id) = Keeps(delivery.polled, id) + Keeps(polled, id) + Keeps(events, id)
                          + Keeps(shown, id)
      BY DEF Holders
    <3> QED
      BY <3>1, <3>2, <3>3, <3>4, <3>5, <3>6
  <2> QED
    BY <1>1, <2>1, <2>2, EventsMove
<1>18. CASE EnterLiveError \/ StopCapture \/ FinishDeliveryFails
  BY <1>5, <1>18
  DEF EnterLiveError, StopCapture, FinishDeliveryFails, stateVars, sessionVars, liveVars
<1>19. ASSUME NEW found \in NewEvents, Polls(found), events' = events \o found,
              UNCHANGED <<delivery, polled, shown>>
       PROVE  EventsAreAccounted'
  <2>1. ASSUME NEW id \in Nat \ {0}
        PROVE  Holders(id)' = Holders(id) + Keeps(found, id)
    <3>1. found \in Seq(Event)
      BY FoundIsNext
    <3>2. Keeps(events \o found, id) = Keeps(events, id) + Keeps(found, id)
      BY <1>2, <3>1, KeepsConcat
    <3>3. Keeps(events', id) = Keeps(events, id) + Keeps(found, id)
      BY <1>19, <3>2, Zenon
    <3>4. /\ Keeps(delivery.polled, id) \in Nat /\ Keeps(polled, id) \in Nat
          /\ Keeps(events, id) \in Nat /\ Keeps(shown, id) \in Nat /\ Keeps(found, id) \in Nat
      BY <3>1, HoldersType, KeepsType
    <3>5. Holders(id)' = Keeps(delivery.polled, id) + Keeps(polled, id) + Keeps(events', id)
                           + Keeps(shown, id)
      BY <1>19, Zenon DEF Holders
    <3>6. Holders(id) = Keeps(delivery.polled, id) + Keeps(polled, id) + Keeps(events, id)
                          + Keeps(shown, id)
      BY DEF Holders
    <3> QED
      BY <3>3, <3>4, <3>5, <3>6
  <2> QED
    BY <1>1, <1>19, <2>1, EventsArrive
<1>20. CASE FinishDelivery
  <2>1. UNCHANGED <<delivery, polled, shown>>
    BY <1>20 DEF FinishDelivery, liveVars
  <2>2. CASE pending = <<>>
    BY <1>5, <1>20, <2>1, <2>2 DEF FinishDelivery, sessionVars
  <2>3. CASE pending # <<>>
    BY <1>19, <1>20, <2>1, <2>3 DEF FinishDelivery
  <2> QED
    BY <2>2, <2>3
<1>21. CASE FinishSession
  <2>1. UNCHANGED <<delivery, polled, shown>>
    BY <1>21 DEF FinishSession, liveVars
  <2> QED
    BY <1>19, <1>21, <2>1 DEF FinishSession
<1>22. CASE UNCHANGED vars
  BY <1>5, <1>22 DEF vars, stateVars, sessionVars, liveVars
<1> QED
  BY <1>6, <1>8, <1>9, <1>10, <1>11, <1>12, <1>13, <1>14, <1>15, <1>16, <1>17, <1>18, <1>20,
     <1>21, <1>22 DEF Next, Deliver, Starting, Live, Finish

-----------------------------------------------------------------------------
(* A recording starts with nothing said, held or given away.                *)
LEMMA StreamStarts ==
  ASSUME Init
  PROVE  StreamInv
<1>1. StreamTypeOK
  <2>1. /\ <<>> \in Seq(Samples)
        /\ <<>> \in Seq(Seq(Samples))
        /\ <<>> \in Seq(Event)
    BY EmptySeq
  <2>2. 0 \in 0 .. MaxSamples /\ 0 \in 0 .. MaxEvents
    BY StreamConstants
  <2>3. Len(pending) < BatchSize
    BY StreamConstants, EmptySeq DEF Init
  <2>4. captured = 0 /\ produced = 0 /\ partialText = 0
    BY DEF Init
  <2>5. /\ arriving = <<>> /\ pending = <<>> /\ delivered = <<>> /\ buffered = <<>>
        /\ events = <<>> /\ polled = <<>> /\ shown = <<>>
        /\ armed = FALSE /\ failed = FALSE /\ runtime = "starting"
    BY DEF Init
  <2>6. delivery \in [pc : {"rest", "send", "append", "record"}, batches : Seq(Seq(Samples)),
                     polled : Seq(Event)]
    <3>1. delivery = [pc |-> "rest", batches |-> <<>>, polled |-> <<>>]
      BY DEF Init, Rest
    <3> QED
      BY <2>1, <3>1
  <2>7. runtime \in Outcomes \cup {"starting", "replaying", "recording", "merging", "failing",
                                  "stopping", "finishing"}
    BY <2>5
  <2>8. armed \in BOOLEAN /\ failed \in BOOLEAN
    BY <2>5, Zenon
  <2>9. captured \in 0 .. MaxSamples /\ produced \in 0 .. MaxEvents
        /\ partialText \in 0 .. MaxEvents
    BY <2>2, <2>4, Zenon
  <2>10. /\ arriving \in Seq(Samples) /\ pending \in Seq(Samples) /\ delivered \in Seq(Samples)
         /\ buffered \in Seq(Seq(Samples))
         /\ events \in Seq(Event) /\ polled \in Seq(Event) /\ shown \in Seq(Event)
    BY <2>1, <2>5, Zenon
  <2> QED
    BY <2>3, <2>6, <2>7, <2>8, <2>9, <2>10, Zenon DEF StreamTypeOK
<1>2. StagesFit
  BY DEF Init, StagesFit, Rest, Capturing
<1>3. OnTheWay = <<>>
  <2>1. OnTheWay = Queue(<<>>, <<>>, <<>>, <<>>, <<>>)
    BY OnTheWayIs, FlattenEmpty, Zenon DEF Init, Rest
  <2>2. Cat(<<>>, <<>>) = <<>>
    BY DEF Cat
  <2> QED
    BY <2>1, <2>2, Zenon DEF Queue
<1>4. AudioStaysInOrder
  <2>1. [i \in 1 .. captured |-> i] = <<>>
    BY DEF Init
  <2> QED
    BY <1>3, <2>1, Zenon DEF AudioStaysInOrder
<1>5. EventsAreAccounted
  <2>1. ASSUME NEW id \in Nat \ {0}
        PROVE  Holders(id) = IF id <= produced THEN 1 ELSE 0
    <3>1. Keeps(<<>>, id) = 0
      BY KeepsEmpty
    <3>2. /\ delivery.polled = <<>> /\ polled = <<>> /\ events = <<>> /\ shown = <<>>
          /\ produced = 0
      BY DEF Init, Rest
    <3>3. Holders(id) = Keeps(<<>>, id) + Keeps(<<>>, id) + Keeps(<<>>, id) + Keeps(<<>>, id)
      BY <3>2, Zenon DEF Holders
    <3> QED
      BY <3>1, <3>2, <3>3
  <2> QED
    BY <2>1 DEF EventsAreAccounted
<1> QED
  BY <1>1, <1>2, <1>4, <1>5 DEF StreamInv

(* The invariant holds for any chunks, batches, events and failures.        *)
THEOREM StreamInvariant == Spec => []StreamInv
<1>1. Init => StreamInv
  BY StreamStarts
<1>2. StreamInv /\ [Next]_vars => StreamInv'
  BY TypesStay, StagesStay, AudioStays, EventsStay DEF StreamInv
<1> QED
  BY <1>1, <1>2, PTL DEF Spec

(* Until a push fails the session hears the capture without gap, repetition *)
(* or inversion, however the audio thread, the replay of the gate and the   *)
(* pollers interleave; a recognition stop takes for good has heard all of   *)
(* it; and no event is lost or doubled.                                     *)
THEOREM NothingIsLostOrDoubled == Spec => []NothingLostOrDoubled
<1>1. StreamInv => NothingLostOrDoubled
  <2> SUFFICES ASSUME StreamInv PROVE NothingLostOrDoubled
    OBVIOUS
  <2>1. FinishedHeardEverything
    BY AudioArrives DEF StreamInv
  <2>2. EventsAreHeldOnce
    <3> SUFFICES ASSUME runtime \notin {"failing", "cancelled"}, NEW id \in 1 .. produced
                 PROVE  Holders(id) = 1
      BY DEF EventsAreHeldOnce
    <3>1. produced \in Nat
      BY StreamConstants DEF StreamInv, StreamTypeOK
    <3>2. id \in Nat \ {0} /\ id <= produced
      BY <3>1
    <3> QED
      BY <3>2 DEF StreamInv, EventsAreAccounted
  <2> QED
    BY <2>1, <2>2 DEF StreamInv, NothingLostOrDoubled
<1> QED
  BY <1>1, StreamInvariant, PTL
=============================================================================
